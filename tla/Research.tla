------------------------------ MODULE Research ------------------------------
(***************************************************************************)
(* Research runs: ResearchGraph (research/graph.py), the ledger of paid    *)
(* model calls UsageLedger (operations/budgets.py) and the research branch *)
(* of run_once (control/worker.py), all under src/qt, on the job table of  *)
(* JobQueue.                                                               *)
(*                                                                         *)
(* A run walks the graph research -> (tools -> research)* -> skeptic ->    *)
(* finish.  LangGraph saves the walk in a checkpoint after every node; the *)
(* checkpoint is keyed by the job and is NOT fenced.  research and skeptic *)
(* call a paid model: reserve budget, send, settle the cost, store the     *)
(* answer.  What the answers say is left out: a round that asks for tools  *)
(* is a choice.                                                            *)
(*                                                                         *)
(* Money is in whole units; Allocation is min(0.20, maximum_cost).         *)
(***************************************************************************)
EXTENDS JobQueue, Sums

CONSTANTS
    Workers,      \* worker processes of kind "research"
    MaxRounds,    \* max_rounds of the graph
    LastDay,      \* bound on the days a behaviour lasts
    Allocation,   \* what one call may cost
    Costs,        \* what the provider may charge
    DayMax, MonthMax, RunMax,
    NoJob

ASSUME ResearchAssumption ==
    /\ MaxRounds \in Nat \ {0} /\ LastDay \in Nat \ {0} /\ Allocation \in Nat \ {0}
    /\ Costs \subseteq Nat
    /\ DayMax \in Nat /\ MonthMax \in Nat /\ RunMax \in Nat
    /\ NoJob \notin Jobs
    /\ IsFiniteSet(Jobs)

VARIABLES
    today,       \* the UTC day
    budget,      \* usage_budgets.reserved, per period
    call,        \* model_calls, per call_id
    answer,      \* the call_ids with a model_result artifact
    published,   \* the jobs with a research_result artifact
    checkpoint,  \* LangGraph's checkpoint of a run: the node it goes on with
    worker,      \* the memory of each worker process
    sent,        \* history: requests the provider received, per call_id
    spent        \* history: what it charged for them

ledger == <<today, budget, call>>
store == <<answer, published, checkpoint>>
history == <<sent, spent>>
vars == <<job, today, budget, call, answer, published, checkpoint, worker, sent, spent>>

Rounds == 0..MaxRounds
Days == 1..LastDay
\* call_id is run:role:round, and research counts its round after the call.
CallIds == Jobs \X {"research", "skeptic"} \X Rounds
\* usage_budgets.period: day:<d>, month:<m> (all days are of one) and run:<job>.
Periods == ({"day"} \X Days) \union ({"month"} \X {0}) \union ({"run"} \X Jobs)
Limit(p) == CASE p[1] = "day" -> DayMax [] p[1] = "month" -> MonthMax [] OTHER -> RunMax
Nodes == [name : {"research", "tools", "skeptic", "finish", "end"}, round : Rounds]
Node(name, round) == [name |-> name, round |-> round]

CallStatus == {"ABSENT", "RESERVED", "COMPLETED", "EXCEEDED"}
CallType == [status : CallStatus, day : Days, actual : Costs \union {0}]
NoCall == [status |-> "ABSENT", day |-> 1, actual |-> 0]

Steps == {"idle", "node", "reserve", "send", "settle", "store", "check",
          "route", "save", "report", "error"}
Idle == [pc |-> "idle", job |-> NoJob, token |-> 0, node |-> Node("research", 0), cost |-> 0]
WorkerType == [pc : Steps, job : Jobs \union {NoJob}, token : 0..MaxAttempts,
               node : Nodes, cost : Costs \union {0}]

\* The type invariant.
TypeOK ==
    /\ JobTypeOK
    /\ today \in Days
    /\ budget \in [Periods -> Nat]
    /\ call \in [CallIds -> CallType]
    /\ answer \subseteq CallIds
    /\ published \subseteq Jobs
    /\ checkpoint \in [Jobs -> Nodes]
    /\ worker \in [Workers -> WorkerType]
    /\ sent \in [CallIds -> Nat]
    /\ spent \in [CallIds -> Nat]

Init ==
    /\ InitJobs
    /\ today = 1
    /\ budget = [p \in Periods |-> 0]
    /\ call = [c \in CallIds |-> NoCall]
    /\ answer = {}
    /\ published = {}
    /\ checkpoint = [j \in Jobs |-> Node("research", 0)]
    /\ worker = [w \in Workers |-> Idle]
    /\ sent = [c \in CallIds |-> 0]
    /\ spent = [c \in CallIds |-> 0]

-----------------------------------------------------------------------------
(***************************************************************************)
(* UsageLedger.  A call is charged to the three periods of the moment it   *)
(* was reserved (model_calls.periods), also when it is settled later.      *)
(***************************************************************************)
PeriodsOf(c, day) == {<<"day", day>>, <<"month", 0>>, <<"run", c[1]>>}
ChargedTo(c) == PeriodsOf(c, call[c].day)

\* Variant: only the run's own limit is looked at.
AffordableInRun(c) == budget[<<"run", c[1]>>] + Allocation <= RunMax
Affordable(c) == \A p \in PeriodsOf(c, today) : budget[p] + Allocation <= Limit(p)

\* Variant: reserving again for a call that was reserved is idempotent.
ReserveAgain(c) ==
    /\ Affordable(c)
    /\ call' = [call EXCEPT ![c] = [status |-> "RESERVED", day |-> today, actual |-> 0]]
    /\ budget' = [p \in Periods |->
                     IF p \in PeriodsOf(c, today) THEN budget[p] + Allocation ELSE budget[p]]

\* UsageLedger.reserve: a known call is refused whatever became of it.
Reserve(c) ==
    /\ call[c].status = "ABSENT"
    /\ Affordable(c)
    /\ call' = [call EXCEPT ![c] = [status |-> "RESERVED", day |-> today, actual |-> 0]]
    /\ budget' = [p \in Periods |->
                     IF p \in PeriodsOf(c, today) THEN budget[p] + Allocation ELSE budget[p]]

\* Variant: the periods are looked up again when the call is settled.
CompleteToday(c, actual) ==
    /\ call[c].status = "RESERVED"
    /\ call' = [call EXCEPT ![c].actual = actual,
                            ![c].status = IF actual > Allocation THEN "EXCEEDED" ELSE "COMPLETED"]
    /\ budget' = [p \in Periods |->
                     IF p \in PeriodsOf(c, today) THEN budget[p] + actual - Allocation ELSE budget[p]]

\* UsageLedger.complete: the reservation becomes the actual cost, once.
Complete(c, actual) ==
    /\ call[c].status = "RESERVED"
    /\ call' = [call EXCEPT ![c].actual = actual,
                            ![c].status = IF actual > Allocation THEN "EXCEEDED" ELSE "COMPLETED"]
    /\ budget' = [p \in Periods |->
                     IF p \in ChargedTo(c) THEN budget[p] + actual - Allocation ELSE budget[p]]

-----------------------------------------------------------------------------
(***************************************************************************)
(* A worker walks the graph.  ResearchGraph._active reads the same fields  *)
(* as the fence.                                                           *)
(***************************************************************************)
At(w, step) == worker[w].pc = step
Goto(w, step) == worker' = [worker EXCEPT ![w].pc = step]
Return(w) == worker' = [worker EXCEPT ![w] = Idle]
Active(w) == Fenced(worker[w].job, worker[w].token)
MyNode(w) == worker[w].node
MyCall(w) == <<worker[w].job, MyNode(w).name, MyNode(w).round>>
\* The node is done; the walk goes on at n once the checkpoint is saved.
Leave(w, n) == worker' = [worker EXCEPT ![w].pc = "save", ![w].node = n]

\* POST /research-runs: a run of its own per idempotency key.
Request(j) ==
    /\ job[j].status = "ABSENT"
    /\ Enqueue(j)
    /\ UNCHANGED <<ledger, store, worker, history>>

Cancel(j) == CancelJob(j) /\ UNCHANGED <<ledger, store, worker, history>>

\* run_once claims; ResearchGraph.run resumes from the checkpoint of the run.
Claim(w) ==
    /\ At(w, "idle")
    /\ \/ \E j \in Jobs :
            /\ ClaimJob(j)
            /\ worker' = [worker EXCEPT ![w] =
                             [pc |-> IF checkpoint[j].name = "end" THEN "report" ELSE "node",
                              job |-> j, token |-> job[j].attempts + 1,
                              node |-> checkpoint[j], cost |-> 0]]
       \/ ClaimNothing /\ UNCHANGED worker
    /\ UNCHANGED <<ledger, store, history>>

\* _research of an inactive worker returns "cancelled" and is routed.
GiveUp(w) ==
    /\ At(w, "node") /\ MyNode(w).name = "research" /\ ~Active(w)
    /\ Goto(w, "route")
    /\ UNCHANGED <<job, ledger, store, history>>

\* _invoke: active, and an answer stored by an earlier attempt is replayed.
Enter(w) ==
    /\ At(w, "node") /\ MyNode(w).name \in {"research", "skeptic"}
    /\ MyNode(w).name = "skeptic" \/ Active(w)
    /\ IF ~Active(w) THEN Goto(w, "error")
       ELSE IF MyCall(w) \in answer
       THEN worker' = [worker EXCEPT ![w].pc = "check", ![w].cost = call[MyCall(w)].actual]
       ELSE Goto(w, "reserve")
    /\ UNCHANGED <<job, ledger, store, history>>

ReserveCall(w) ==
    /\ At(w, "reserve")
    /\ \/ Reserve(MyCall(w)) /\ Goto(w, "send")
       \/ /\ call[MyCall(w)].status # "ABSENT" \/ ~Affordable(MyCall(w))
          /\ Goto(w, "error")
          /\ UNCHANGED <<budget, call>>
    /\ UNCHANGED <<job, today, store, history>>

(***************************************************************************)
(* provider.invoke: the request goes out and is charged for; the answer    *)
(* arrives, or the wait ends by a timeout, an error or the cancellation of *)
(* _while_owned.                                                           *)
(***************************************************************************)
Send(w) ==
    /\ At(w, "send")
    /\ \E cost \in Costs :
          /\ sent' = [sent EXCEPT ![MyCall(w)] = @ + 1]
          /\ spent' = [spent EXCEPT ![MyCall(w)] = @ + cost]
          /\ \/ worker' = [worker EXCEPT ![w].pc = "settle", ![w].cost = cost]
             \/ Goto(w, "error")
    /\ UNCHANGED <<job, ledger, store>>

Settle(w) ==
    /\ At(w, "settle")
    /\ Complete(MyCall(w), worker[w].cost)
    /\ Goto(w, "store")
    /\ UNCHANGED <<job, today, store, history>>

\* Variant: only _active is read, at the start of the call.
StoreUnfenced(w) ==
    /\ At(w, "store")
    /\ answer' = answer \union {MyCall(w)} /\ Goto(w, "check")
    /\ UNCHANGED <<job, ledger, published, checkpoint, history>>

\* The model_result artifact, fenced in its transaction.
Store(w) ==
    /\ At(w, "store")
    /\ IF Active(w)
       THEN answer' = answer \union {MyCall(w)} /\ Goto(w, "check")
       ELSE Goto(w, "error") /\ UNCHANGED answer
    /\ UNCHANGED <<job, ledger, published, checkpoint, history>>

\* The end of _invoke: an answer that cost more than its allocation stops
\* the run.  research counts the round; the skeptic always leads to finish.
Check(w) ==
    /\ At(w, "check")
    /\ IF worker[w].cost > Allocation \/ ~Active(w)
       THEN Goto(w, "error")
       ELSE IF MyNode(w).name = "skeptic"
       THEN Leave(w, Node("finish", MyNode(w).round))
       ELSE worker' = [worker EXCEPT ![w].pc = "route", ![w].node.round = @ + 1]
    /\ UNCHANGED <<job, ledger, store, history>>

(***************************************************************************)
(* _route: a worker that is inactive by now sends the walk to finish; an   *)
(* active one to the tools, if the answer asks for some and a round is     *)
(* left, or to the skeptic.                                                *)
(***************************************************************************)
Route(w) ==
    /\ At(w, "route")
    /\ LET round == MyNode(w).round IN
       \/ ~Active(w) /\ Leave(w, Node("finish", round))
       \/ Active(w) /\ Leave(w, Node("skeptic", round))
       \/ Active(w) /\ round < MaxRounds /\ Leave(w, Node("tools", round))
    /\ UNCHANGED <<job, ledger, store, history>>

\* _tools: an inactive worker runs none; an active one stores fenced results.
Tools(w) ==
    /\ At(w, "node") /\ MyNode(w).name = "tools"
    /\ Leave(w, Node("research", MyNode(w).round))
    /\ UNCHANGED <<job, ledger, store, history>>

\* LangGraph saves its checkpoint after the node, whoever holds the lease.
Save(w) ==
    /\ At(w, "save")
    /\ checkpoint' = [checkpoint EXCEPT ![worker[w].job] = MyNode(w)]
    /\ Goto(w, IF MyNode(w).name = "end" THEN "report" ELSE "node")
    /\ UNCHANGED <<job, ledger, answer, published, history>>

\* _finish: an active worker publishes, fenced; an inactive one only ends.
Publish(w) ==
    /\ At(w, "node") /\ MyNode(w).name = "finish"
    /\ published' = IF Active(w) THEN published \union {worker[w].job} ELSE published
    /\ Leave(w, Node("end", MyNode(w).round))
    /\ UNCHANGED <<job, ledger, answer, checkpoint, history>>

\* ResearchGraph.run reads the result back and run_once finishes the job.
Report(w) ==
    /\ At(w, "report")
    /\ IF worker[w].job \in published /\ MayFinish(worker[w].job, worker[w].token)
       THEN FinishJob(worker[w].job, worker[w].token, "COMPLETED") /\ Return(w)
       ELSE Goto(w, "error") /\ UNCHANGED job
    /\ UNCHANGED <<ledger, store, history>>

\* Any exception of a node, and InterruptedError from _while_owned.
Raise(w) ==
    /\ worker[w].pc \in {"node", "reserve", "save"}
    /\ Goto(w, "error")
    /\ UNCHANGED <<job, ledger, store, history>>

\* The handler of run_once ends the job, unless its lease is gone.
Fail(w) ==
    /\ At(w, "error")
    /\ IF MayFinish(worker[w].job, worker[w].token)
       THEN FinishJob(worker[w].job, worker[w].token, "FAILED")
       ELSE UNCHANGED job
    /\ Return(w)
    /\ UNCHANGED <<ledger, store, history>>

\* The process dies, or run_once returns without writing (shutdown, a lost
\* heartbeat, a database or network error).
Crash(w) ==
    /\ ~At(w, "idle")
    /\ Return(w)
    /\ UNCHANGED <<job, ledger, store, history>>

Renew(w) ==
    /\ ~At(w, "idle")
    /\ Heartbeat(worker[w].job, worker[w].token)
    /\ UNCHANGED <<ledger, store, worker, history>>

Tick == TickJobs /\ UNCHANGED <<ledger, store, worker, history>>

Midnight ==
    /\ today < LastDay
    /\ today' = today + 1
    /\ UNCHANGED <<job, budget, call, store, worker, history>>

WorkerStep(w) ==
    Claim(w) \/ GiveUp(w) \/ Enter(w) \/ ReserveCall(w) \/ Send(w) \/ Settle(w) \/ Store(w)
    \/ Check(w) \/ Route(w) \/ Tools(w) \/ Save(w) \/ Publish(w) \/ Report(w) \/ Fail(w)

Next ==
    \/ \E j \in Jobs : Request(j) \/ Cancel(j)
    \/ \E w \in Workers : WorkerStep(w) \/ Raise(w) \/ Crash(w) \/ Renew(w)
    \/ Tick
    \/ Midnight

Spec == Init /\ [][Next]_vars

\* Fairness: the clock runs and a worker process goes on; a call ends, though
\* perhaps by a timeout.  No heartbeat, request or cancellation is assumed.
FairSpec ==
    /\ Spec
    /\ WF_vars(Tick)
    /\ \A w \in Workers : WF_vars(WorkerStep(w))

-----------------------------------------------------------------------------
Charged(p) == {c \in CallIds : call[c].status # "ABSENT" /\ p \in ChargedTo(c)}
Charge == [c \in CallIds |-> IF call[c].status = "RESERVED" THEN Allocation ELSE call[c].actual]

\* What the provider charged, each call up to its allocation.
Kept == [c \in CallIds |-> IF spent[c] < Allocation THEN spent[c] ELSE Allocation]

(***************************************************************************)
(* No logical model call is paid for twice: not by a retry after a crash   *)
(* between reserve and put, not by two attempts at once, and not by a walk *)
(* that goes back to an earlier checkpoint (UsageLedger.reserve: "do not   *)
(* repeat").                                                               *)
(***************************************************************************)
CallPaidOnce == \A c \in CallIds : sent[c] <= 1

(***************************************************************************)
(* Every period's counter is the sum over the calls charged to it, of the  *)
(* reservation or of the settled cost, also when a call is settled on      *)
(* another day than it was reserved or never (reserve, complete).          *)
(***************************************************************************)
BudgetIsTheSum == \A p \in Periods : budget[p] = SumOf(Charge, Charged(p))

(***************************************************************************)
(* What the provider charged, each call up to its allocation, stays within *)
(* every limit, whatever was lost between the request and its settlement:  *)
(* a timeout, a cancellation or a crash gives no money back.               *)
(***************************************************************************)
SpendWithinLimits == \A p \in Periods : SumOf(Kept, Charged(p)) <= Limit(p)

(***************************************************************************)
(* Once a cancellation is recorded no answer and no result of the run is   *)
(* stored, although the model call was under way (assert_job_fence in put).*)
(***************************************************************************)
NothingAfterCancel ==
    [][\A j \in Jobs : job[j].cancel =>
           /\ j \in published' <=> j \in published
           /\ \A c \in CallIds : c[1] = j => (c \in answer' <=> c \in answer)]_vars

\* Every run ends, whatever its workers do with their leases
\* (Repository.claim ends what nobody may claim again).
RunEnds == \A j \in Jobs : job[j].status \in Open ~> job[j].status \in Ended
=============================================================================
