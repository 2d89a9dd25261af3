---------------------------- MODULE ResearchProofs ----------------------------
(***************************************************************************)
(* Research for every number of runs, workers, rounds, days and attempts:  *)
(* no call is paid for twice, nothing of a cancelled run is stored, the    *)
(* counters are the sums of the ledger and the provider's charges stay     *)
(* within every limit.                                                     *)
(***************************************************************************)
EXTENDS Research, SumProofs

-----------------------------------------------------------------------------
(* The job table: every transaction of Repository keeps the type of the    *)
(* rows, and a claim uses an attempt that was left.                        *)

LEMMA ClosedRow == \A r \in JobRow : Closed(r) \in JobRow
  BY DEF Closed, JobRow, JobStatus

LEMMA ClaimedRow ==
    ASSUME NEW r \in JobRow, Claimable(r)
    PROVE  Claimed(r) \in JobRow /\ r.attempts + 1 \in 0..MaxAttempts
PROOF
  <1>1. r.attempts + 1 \in 0..MaxAttempts /\ Lease \in 0..Lease
    BY JobAssumption DEF JobRow, Claimable, UsedUp
  <1> QED
    BY <1>1 DEF Claimed, JobRow, JobStatus

LEMMA ClaimKeepsJobs ==
    ASSUME JobTypeOK, NEW j \in Jobs, ClaimJob(j)
    PROVE  JobTypeOK' /\ job[j].attempts + 1 \in 0..MaxAttempts
PROOF
  <1>1. \A k \in Jobs : job[k] \in JobRow
    BY DEF JobTypeOK
  <1> QED
    BY <1>1, ClosedRow, ClaimedRow DEF ClaimJob, JobTypeOK

LEMMA EnqueueKeepsJobs ==
    ASSUME JobTypeOK, NEW j \in Jobs, Enqueue(j)
    PROVE  JobTypeOK'
PROOF
  <1>1. 0 \in 0..MaxAttempts /\ 0 \in 0..Lease /\ Deadline \in 0..Deadline
    BY JobAssumption
  <1>2. Queued \in JobRow
    BY <1>1 DEF Queued, Absent, JobRow, JobStatus
  <1> QED
    BY <1>2 DEF Enqueue, JobTypeOK

LEMMA ClaimNothingKeepsJobs == ASSUME JobTypeOK, ClaimNothing PROVE JobTypeOK'
  BY ClosedRow DEF ClaimNothing, JobTypeOK

LEMMA RowsKeepType ==
    ASSUME JobTypeOK, NEW j \in Jobs,
           \/ \E token : Heartbeat(j, token)
           \/ \E token : \E outcome \in {"COMPLETED", "FAILED"} : FinishJob(j, token, outcome)
           \/ CancelJob(j)
    PROVE  JobTypeOK'
PROOF
  <1>1. CASE \E token : Heartbeat(j, token)
    BY <1>1, JobAssumption DEF Heartbeat, JobTypeOK, JobRow
  <1>2. CASE \E token : \E outcome \in {"COMPLETED", "FAILED"} : FinishJob(j, token, outcome)
    BY <1>2, JobAssumption DEF FinishJob, JobTypeOK, JobRow, JobStatus
  <1>3. CASE CancelJob(j)
    BY <1>3 DEF CancelJob, JobTypeOK, JobRow, JobStatus
  <1> QED
    BY <1>1, <1>2, <1>3

LEMMA TickKeepsJobs == ASSUME JobTypeOK, TickJobs PROVE JobTypeOK'
PROOF
  <1>1. \A b \in Nat : \A n \in 0..b : Down(n) \in 0..b
    BY DEF Down
  <1>2. ASSUME NEW j \in Jobs PROVE job'[j] \in JobRow
    <2> DEFINE l == Down(job[j].lease)
               d == Down(job[j].left)
    <2>1. job[j] \in JobRow
      BY DEF JobTypeOK
    <2>2. l \in 0..Lease /\ d \in 0..Deadline
      BY <1>1, <2>1, JobAssumption DEF JobRow
    <2>3. job'[j] = job[j] \/ job'[j] = [job[j] EXCEPT !.lease = l, !.left = d]
      BY DEF TickJobs
    <2> HIDE DEF l, d
    <2> QED
      BY <2>1, <2>2, <2>3 DEF JobRow
  <1> QED
    BY <1>2 DEF TickJobs, JobTypeOK

-----------------------------------------------------------------------------
(* The inductive invariant.                                                *)

\* Types; the counters, the artifacts and the provider's charges are typed
\* with the money below.
Types ==
    /\ JobTypeOK
    /\ today \in Days
    /\ call \in [CallIds -> CallType]
    /\ checkpoint \in [Jobs -> Nodes]
    /\ worker \in [Workers -> WorkerType]
    /\ sent \in [CallIds -> Nat]

\* Whoever goes to research, or to the tools that lead there, has a round left.
RoundLeft(n) == n.name \in {"research", "tools"} => n.round < MaxRounds
InCall == {"reserve", "send", "settle", "store", "check"}
WorkersOnCourse ==
    /\ \A w \in Workers :
          /\ worker[w].pc # "idle" => worker[w].job \in Jobs
          /\ worker[w].pc \in InCall => MyNode(w).name \in {"research", "skeptic"}
          /\ worker[w].pc # "route" => RoundLeft(MyNode(w))
          /\ worker[w].pc = "route" => MyNode(w).name = "research"
    /\ \A j \in Jobs : RoundLeft(checkpoint[j])

\* A request that is about to leave has a reservation of its own.
RequestsReserved ==
    /\ \A c \in CallIds : sent[c] <= 1 /\ (call[c].status = "ABSENT" => sent[c] = 0)
    /\ \A w \in Workers : At(w, "send") =>
          call[MyCall(w)].status = "RESERVED" /\ sent[MyCall(w)] = 0
    /\ \A w \in Workers : At(w, "settle") => sent[MyCall(w)] = 1
    /\ \A v, w \in Workers :
          At(v, "send") /\ At(w, "send") /\ MyCall(v) = MyCall(w) => v = w

ResearchInv == Types /\ WorkersOnCourse /\ RequestsReserved

(***************************************************************************)
(* Before the first run.                                                   *)
(***************************************************************************)
LEMMA StartNode == Node("research", 0) \in Nodes /\ RoundLeft(Node("research", 0))
  BY ResearchAssumption DEF Node, Nodes, Rounds, RoundLeft

LEMMA IdleWorker ==
    Idle \in WorkerType /\ Idle.pc = "idle" /\ RoundLeft(Idle.node)
PROOF
  <1>1. 0 \in 0..MaxAttempts
    BY JobAssumption
  <1> QED
    BY <1>1, StartNode DEF Idle, WorkerType, Steps

LEMMA ResearchInvInit == Init => ResearchInv
PROOF
  <1> SUFFICES ASSUME Init PROVE ResearchInv
    OBVIOUS
  <1>1. JobTypeOK
    <2>1. 0 \in 0..MaxAttempts /\ 0 \in 0..Lease /\ 0 \in 0..Deadline
      BY JobAssumption
    <2>2. Absent \in JobRow
      BY <2>1 DEF Absent, JobRow, JobStatus
    <2> QED
      BY <2>2 DEF Init, InitJobs, JobTypeOK
  <1>2. NoCall \in CallType /\ 1 \in Days
    BY ResearchAssumption DEF NoCall, CallType, CallStatus, Days
  <1>3. Types
    BY <1>1, <1>2, StartNode, IdleWorker DEF Init, Types
  <1>4. WorkersOnCourse
    BY StartNode, IdleWorker DEF Init, WorkersOnCourse, MyNode, InCall
  <1>5. RequestsReserved
    BY IdleWorker DEF Init, RequestsReserved, At
  <1> QED
    BY <1>3, <1>4, <1>5 DEF ResearchInv

-----------------------------------------------------------------------------
(* The steps.                                                              *)

(***************************************************************************)
(* One worker moves to m, but neither to a request that is about to leave  *)
(* nor to one that was answered; the ledger may settle its call.           *)
(***************************************************************************)
Course(m) ==
    /\ m \in WorkerType
    /\ m.pc # "idle" => m.job \in Jobs
    /\ m.pc \in InCall => m.node.name \in {"research", "skeptic"}
    /\ m.pc # "route" => RoundLeft(m.node)
    /\ m.pc = "route" => m.node.name = "research"

LEMMA WorkerMoves ==
    ASSUME ResearchInv, NEW w \in Workers, NEW m, Course(m), m.pc \notin {"send", "settle"},
           worker' = [worker EXCEPT ![w] = m],
           JobTypeOK', today' \in Days, checkpoint' \in [Jobs -> Nodes],
           \A j \in Jobs : RoundLeft(checkpoint'[j]),
           call' \in [CallIds -> CallType],
           \A c \in CallIds : call'[c].status = call[c].status \/
               (call[c].status = "RESERVED" /\ call'[c].status # "ABSENT" /\ At(w, "settle")
                /\ c = MyCall(w)),
           UNCHANGED sent
    PROVE  ResearchInv'
PROOF
  <1>1. worker \in [Workers -> WorkerType]
    BY DEF ResearchInv, Types
  <1>2. /\ worker' \in [Workers -> WorkerType] /\ worker'[w] = m
        /\ \A v \in Workers \ {w} : worker'[v] = worker[v]
    BY <1>1 DEF Course
  <1>3. Types'
    BY <1>2 DEF ResearchInv, Types
  <1>4. WorkersOnCourse'
    BY <1>2 DEF ResearchInv, WorkersOnCourse, Course, MyNode
  <1>5. \A v \in Workers : worker'[v].pc \in {"send", "settle"} =>
           worker'[v] = worker[v] /\ v # w
    BY <1>2
  <1>6. RequestsReserved'
    <2>1. \A v \in Workers : worker[v].pc = "send" => MyCall(v) \in CallIds
      BY <1>1 DEF ResearchInv, WorkersOnCourse, MyCall, MyNode, CallIds, WorkerType, Nodes, InCall
    <2>2. \A v \in Workers : At(v, "send") /\ At(w, "settle") => MyCall(v) # MyCall(w)
      BY DEF ResearchInv, RequestsReserved
    <2>3. \A v \in Workers : worker'[v].pc = "send" => call'[MyCall(v)].status = "RESERVED"
      BY <1>5, <2>1, <2>2 DEF ResearchInv, RequestsReserved, At
    <2>4. \A v \in Workers : worker'[v].pc \in {"send", "settle"} => MyCall(v)' = MyCall(v)
      BY <1>5 DEF MyCall, MyNode
    <2>5. \A c \in CallIds : call'[c].status = "ABSENT" => call[c].status = "ABSENT"
      OBVIOUS
    <2> QED
      BY <1>5, <2>3, <2>4, <2>5 DEF ResearchInv, RequestsReserved, At
  <1> QED
    BY <1>3, <1>4, <1>6 DEF ResearchInv

\* The queue, a new day: no worker moves.
LEMMA OthersMove ==
    ASSUME ResearchInv, JobTypeOK', today' \in Days,
           UNCHANGED <<call, checkpoint, worker, sent>>
    PROVE  ResearchInv'
PROOF
  <1>1. Types' /\ WorkersOnCourse'
    BY DEF ResearchInv, Types, WorkersOnCourse, MyNode
  <1>2. RequestsReserved'
    BY DEF ResearchInv, RequestsReserved, At, MyCall, MyNode
  <1> QED
    BY <1>1, <1>2 DEF ResearchInv

LEMMA WorkerShape ==
    ASSUME ResearchInv, NEW w \in Workers
    PROVE  /\ worker[w] \in WorkerType /\ MyNode(w) \in Nodes /\ MyNode(w).round \in Rounds
           /\ worker[w].pc # "idle" => worker[w].job \in Jobs
           /\ worker[w].pc \in InCall => MyCall(w) \in CallIds
PROOF
  <1>1. worker[w] \in WorkerType
    BY DEF ResearchInv, Types
  <1>2. MyNode(w) \in Nodes /\ MyNode(w).round \in Rounds
    BY <1>1 DEF WorkerType, MyNode, Nodes
  <1>3. worker[w].pc # "idle" => worker[w].job \in Jobs
    BY DEF ResearchInv, WorkersOnCourse
  <1> QED
    BY <1>1, <1>2, <1>3 DEF ResearchInv, WorkersOnCourse, MyCall, CallIds, InCall

\* A worker stays at its node.
LEMMA GotoCourse ==
    ASSUME ResearchInv, NEW w \in Workers, worker[w].pc # "idle",
           NEW pc \in Steps \ {"idle"},
           pc \in InCall => MyNode(w).name \in {"research", "skeptic"},
           pc # "route" => RoundLeft(MyNode(w)),
           pc = "route" => MyNode(w).name = "research"
    PROVE  LET m == [worker[w] EXCEPT !.pc = pc] IN Course(m) /\ m.pc = pc
PROOF
  <1> DEFINE m == [worker[w] EXCEPT !.pc = pc]
  <1>1. worker[w] \in WorkerType /\ worker[w].job \in Jobs
    BY WorkerShape
  <1>2. m \in WorkerType /\ m.pc = pc /\ m.job = worker[w].job /\ m.node = worker[w].node
    BY <1>1 DEF WorkerType
  <1> QED
    BY <1>1, <1>2 DEF Course, MyNode

\* A worker leaves its node for n.
LEMMA LeaveCourse ==
    ASSUME ResearchInv, NEW w \in Workers, worker[w].pc # "idle",
           NEW n \in Nodes, RoundLeft(n)
    PROVE  LET m == [worker[w] EXCEPT !.pc = "save", !.node = n] IN Course(m) /\ m.pc = "save"
PROOF
  <1> DEFINE m == [worker[w] EXCEPT !.pc = "save", !.node = n]
  <1>1. worker[w] \in WorkerType /\ worker[w].job \in Jobs
    BY WorkerShape
  <1>2. m \in WorkerType /\ m.pc = "save" /\ m.job = worker[w].job /\ m.node = n
    BY <1>1 DEF WorkerType, Steps
  <1> QED
    BY <1>1, <1>2 DEF Course, InCall

LEMMA NodeType ==
    ASSUME NEW name \in {"research", "tools", "skeptic", "finish", "end"}, NEW round \in Rounds
    PROVE  Node(name, round) \in Nodes /\ Node(name, round).name = name
           /\ Node(name, round).round = round
  BY DEF Node, Nodes

\* Steps of a worker that leave the ledger and the checkpoint alone.
LEMMA WorkerOnlyMoves ==
    ASSUME ResearchInv, NEW w \in Workers, NEW m, Course(m), m.pc \notin {"send", "settle"},
           worker' = [worker EXCEPT ![w] = m],
           JobTypeOK', UNCHANGED <<today, call, checkpoint, sent>>
    PROVE  ResearchInv'
PROOF
  <1>1. /\ today' \in Days /\ checkpoint' \in [Jobs -> Nodes] /\ call' \in [CallIds -> CallType]
        /\ \A j \in Jobs : RoundLeft(checkpoint'[j])
    BY DEF ResearchInv, Types, WorkersOnCourse
  <1> QED
    BY <1>1, WorkerMoves

LEMMA GotoMoves ==
    ASSUME ResearchInv, NEW w \in Workers, worker[w].pc # "idle",
           NEW pc \in Steps \ {"idle", "send", "settle"}, Goto(w, pc),
           pc \in InCall => MyNode(w).name \in {"research", "skeptic"},
           pc # "route" => RoundLeft(MyNode(w)),
           pc = "route" => MyNode(w).name = "research",
           JobTypeOK', UNCHANGED <<today, call, checkpoint, sent>>
    PROVE  ResearchInv'
PROOF
  <1> DEFINE m == [worker[w] EXCEPT !.pc = pc]
  <1>1. Course(m) /\ m.pc = pc
    BY GotoCourse
  <1>2. worker' = [worker EXCEPT ![w] = m]
    BY DEF Goto
  <1> HIDE DEF m
  <1> QED
    BY <1>1, <1>2, WorkerOnlyMoves

LEMMA LeaveMoves ==
    ASSUME ResearchInv, NEW w \in Workers, worker[w].pc # "idle",
           NEW n \in Nodes, RoundLeft(n), Leave(w, n),
           JobTypeOK', UNCHANGED <<today, call, checkpoint, sent>>
    PROVE  ResearchInv'
PROOF
  <1> DEFINE m == [worker[w] EXCEPT !.pc = "save", !.node = n]
  <1>1. Course(m) /\ m.pc = "save"
    BY LeaveCourse
  <1>2. worker' = [worker EXCEPT ![w] = m]
    BY DEF Leave
  <1> HIDE DEF m
  <1> QED
    BY <1>1, <1>2, WorkerOnlyMoves

LEMMA ReturnMoves ==
    ASSUME ResearchInv, NEW w \in Workers, Return(w),
           JobTypeOK', UNCHANGED <<today, call, checkpoint, sent>>
    PROVE  ResearchInv'
PROOF
  <1>1. Course(Idle) /\ Idle.pc = "idle"
    BY IdleWorker DEF Course, InCall
  <1> QED
    BY <1>1, WorkerOnlyMoves DEF Return

LEMMA SameJobs == ASSUME ResearchInv, UNCHANGED job PROVE JobTypeOK'
  BY DEF ResearchInv, Types, JobTypeOK

(***************************************************************************)
(* A claim resumes the run at its checkpoint.                              *)
(***************************************************************************)
LEMMA ClaimKeepsResearchInv ==
    ASSUME ResearchInv, NEW w \in Workers, Claim(w)
    PROVE  ResearchInv'
PROOF
  <1>1. UNCHANGED <<today, call, checkpoint, sent>> /\ JobTypeOK
    BY DEF Claim, ledger, store, history, ResearchInv, Types
  <1>2. CASE \E j \in Jobs :
              /\ ClaimJob(j)
              /\ worker' = [worker EXCEPT ![w] =
                               [pc |-> IF checkpoint[j].name = "end" THEN "report" ELSE "node",
                                job |-> j, token |-> job[j].attempts + 1,
                                node |-> checkpoint[j], cost |-> 0]]
    <2>1. PICK j \in Jobs :
              /\ ClaimJob(j)
              /\ worker' = [worker EXCEPT ![w] =
                               [pc |-> IF checkpoint[j].name = "end" THEN "report" ELSE "node",
                                job |-> j, token |-> job[j].attempts + 1,
                                node |-> checkpoint[j], cost |-> 0]]
      BY <1>2
    <2> DEFINE m == [pc |-> IF checkpoint[j].name = "end" THEN "report" ELSE "node",
                     job |-> j, token |-> job[j].attempts + 1,
                     node |-> checkpoint[j], cost |-> 0]
    <2>2. JobTypeOK'
      BY <1>1, <2>1, ClaimKeepsJobs
    <2>3. job[j].attempts + 1 \in 0..MaxAttempts
      BY <1>1, <2>1, ClaimKeepsJobs
    <2>4. checkpoint[j] \in Nodes /\ RoundLeft(checkpoint[j])
      BY DEF ResearchInv, Types, WorkersOnCourse
    <2>5. m \in WorkerType
      BY <2>3, <2>4 DEF WorkerType, Steps
    <2>6. m.pc \in {"report", "node"} /\ m.job = j /\ m.node = checkpoint[j]
      OBVIOUS
    <2>7. worker' = [worker EXCEPT ![w] = m]
      BY <2>1
    <2> HIDE DEF m
    <2>8. Course(m) /\ m.pc \notin {"send", "settle"}
      BY <2>4, <2>5, <2>6 DEF Course, InCall
    <2> QED
      BY <1>1, <2>2, <2>7, <2>8, WorkerOnlyMoves
  <1>3. CASE ClaimNothing /\ UNCHANGED worker
    <2>1. JobTypeOK'
      BY <1>1, <1>3, ClaimNothingKeepsJobs
    <2> QED
      BY <1>1, <1>3, <2>1, OthersMove DEF ResearchInv, Types
  <1> QED
    BY <1>2, <1>3 DEF Claim

(***************************************************************************)
(* Everybody else: clients, the clock, heartbeats.                         *)
(***************************************************************************)
LEMMA EnvironmentKeepsResearchInv ==
    ASSUME ResearchInv,
           \/ \E j \in Jobs : Request(j) \/ Cancel(j)
           \/ \E w \in Workers : Renew(w)
           \/ Tick \/ Midnight
    PROVE  ResearchInv'
PROOF
  <1>1. JobTypeOK /\ today \in Days
    BY DEF ResearchInv, Types
  <1>2. CASE \E j \in Jobs : Request(j)
    BY <1>1, <1>2, EnqueueKeepsJobs, OthersMove
    DEF Request, ledger, store, history
  <1>3. CASE \E j \in Jobs : Cancel(j)
    BY <1>1, <1>3, RowsKeepType, OthersMove DEF Cancel, ledger, store, history
  <1>4. CASE \E w \in Workers : Renew(w)
    <2>1. PICK w \in Workers : Renew(w)
      BY <1>4
    <2>2. worker[w].job \in Jobs
      BY <2>1, WorkerShape DEF Renew, At
    <2> QED
      BY <1>1, <2>1, <2>2, RowsKeepType, OthersMove
      DEF Renew, ledger, store, history
  <1>5. CASE Tick
    BY <1>1, <1>5, TickKeepsJobs, OthersMove DEF Tick, ledger, store, history
  <1>6. CASE Midnight
    <2>1. today' \in Days
      BY <1>1, <1>6, ResearchAssumption DEF Midnight, Days
    <2> QED
      BY <1>6, <2>1, SameJobs, OthersMove DEF Midnight, store, history
  <1> QED
    BY <1>2, <1>3, <1>4, <1>5, <1>6

(***************************************************************************)
(* reserve answers a call once; the request then leaves once.              *)
(***************************************************************************)
LEMMA ReserveCallKeepsResearchInv ==
    ASSUME ResearchInv, NEW w \in Workers, ReserveCall(w)
    PROVE  ResearchInv'
PROOF
  <1> DEFINE c == MyCall(w)
             m == [worker[w] EXCEPT !.pc = "send"]
             row == [status |-> "RESERVED", day |-> today, actual |-> 0]
  <1>1. At(w, "reserve") /\ UNCHANGED <<job, today, store, history>>
    BY DEF ReserveCall
  <1>2. /\ MyNode(w).name \in {"research", "skeptic"} /\ RoundLeft(MyNode(w))
        /\ c \in CallIds
    BY <1>1, WorkerShape DEF At, ResearchInv, WorkersOnCourse, InCall
  <1>3. CASE Reserve(c) /\ Goto(w, "send")
    <2>1. Course(m) /\ m.pc = "send"
      BY <1>1, <1>2, GotoCourse DEF At, Steps
    <2>2. m \in WorkerType /\ m.job = worker[w].job /\ m.node = worker[w].node
      BY <2>1, WorkerShape DEF Course, WorkerType
    <2>3. worker' = [worker EXCEPT ![w] = m]
      BY <1>3 DEF Goto
    <2> HIDE DEF m
    <2>4. /\ worker' \in [Workers -> WorkerType] /\ worker'[w] = m
          /\ \A v \in Workers \ {w} : worker'[v] = worker[v]
      BY <2>2, <2>3 DEF ResearchInv, Types
    <2>5. row \in CallType
      BY DEF CallType, CallStatus, ResearchInv, Types
    <2>6. /\ call[c].status = "ABSENT"
          /\ call' \in [CallIds -> CallType] /\ call'[c].status = "RESERVED"
          /\ \A d \in CallIds \ {c} : call'[d] = call[d]
      BY <1>2, <1>3, <2>5 DEF Reserve, ResearchInv, Types
    <2>7. UNCHANGED <<job, today, checkpoint, sent>>
      BY <1>1 DEF store, history
    <2>8. Types'
      BY <2>4, <2>6, <2>7 DEF ResearchInv, Types, JobTypeOK
    <2>9. WorkersOnCourse'
      BY <2>1, <2>4, <2>7 DEF ResearchInv, WorkersOnCourse, Course, MyNode
    <2>10. /\ MyCall(w)' = c
           /\ \A v \in Workers \ {w} : MyCall(v)' = MyCall(v)
      BY <2>2, <2>4 DEF MyCall, MyNode
    <2>11. \A v \in Workers : worker[v].pc = "send" => MyCall(v) \in CallIds \ {c}
      BY <2>6, WorkerShape DEF ResearchInv, RequestsReserved, At, InCall
    <2>12. sent[c] = 0
      BY <1>2, <2>6 DEF ResearchInv, RequestsReserved
    <2>13. \A v \in Workers : worker'[v].pc = "settle" => v # w /\ worker[v].pc = "settle"
      BY <2>1, <2>4
    <2>14. RequestsReserved'
      BY <1>2, <2>1, <2>4, <2>6, <2>7, <2>10, <2>11, <2>12, <2>13
      DEF ResearchInv, RequestsReserved, At
    <2> QED
      BY <2>8, <2>9, <2>14 DEF ResearchInv
  <1>4. CASE Goto(w, "error") /\ UNCHANGED <<budget, call>>
    <2>1. JobTypeOK'
      BY <1>1, SameJobs
    <2> QED
      BY <1>1, <1>2, <1>4, <2>1, GotoMoves DEF At, Steps, InCall, store, history
  <1> QED
    BY <1>3, <1>4 DEF ReserveCall

LEMMA SendKeepsResearchInv ==
    ASSUME ResearchInv, NEW w \in Workers, Send(w)
    PROVE  ResearchInv'
PROOF
  <1> DEFINE c == MyCall(w)
  <1>1. At(w, "send") /\ UNCHANGED <<job, today, call, checkpoint>>
    BY DEF Send, ledger, store
  <1>2. /\ MyNode(w).name \in {"research", "skeptic"} /\ RoundLeft(MyNode(w))
        /\ c \in CallIds /\ worker[w].job \in Jobs /\ worker[w] \in WorkerType
    BY <1>1, WorkerShape DEF At, ResearchInv, WorkersOnCourse, InCall
  <1>3. sent' = [sent EXCEPT ![c] = sent[c] + 1]
    BY DEF Send
  <1>4. PICK m : /\ Course(m) /\ m.pc \in {"settle", "error"}
                 /\ m.job = worker[w].job /\ m.node = worker[w].node
                 /\ worker' = [worker EXCEPT ![w] = m]
    <2>1. CASE \E cost \in Costs :
                  worker' = [worker EXCEPT ![w].pc = "settle", ![w].cost = cost]
      <3>1. PICK cost \in Costs :
                  worker' = [worker EXCEPT ![w] = [worker[w] EXCEPT !.pc = "settle", !.cost = cost]]
        BY <2>1
      <3> DEFINE m == [worker[w] EXCEPT !.pc = "settle", !.cost = cost]
      <3>2. /\ m \in WorkerType /\ m.pc = "settle" /\ m.job = worker[w].job
            /\ m.node = worker[w].node
        BY <1>2 DEF WorkerType, Steps
      <3>3. worker' = [worker EXCEPT ![w] = m]
        BY <3>1
      <3> HIDE DEF m
      <3>4. Course(m)
        BY <1>2, <3>2 DEF Course, InCall, MyNode
      <3> QED
        BY <3>2, <3>3, <3>4
    <2>2. CASE Goto(w, "error")
      <3> DEFINE m == [worker[w] EXCEPT !.pc = "error"]
      <3>1. /\ m \in WorkerType /\ m.pc = "error" /\ m.job = worker[w].job
            /\ m.node = worker[w].node
        BY <1>2 DEF WorkerType, Steps
      <3>2. worker' = [worker EXCEPT ![w] = m]
        BY <2>2 DEF Goto
      <3> HIDE DEF m
      <3>3. Course(m)
        BY <1>2, <3>1 DEF Course, InCall, MyNode
      <3> QED
        BY <3>1, <3>2, <3>3
    <2> QED
      BY <2>1, <2>2 DEF Send
  <1>5. /\ worker' \in [Workers -> WorkerType] /\ worker'[w] = m
        /\ \A v \in Workers \ {w} : worker'[v] = worker[v]
    BY <1>4 DEF ResearchInv, Types, Course
  <1>6. sent[c] = 0 /\ call[c].status = "RESERVED"
    BY <1>1 DEF ResearchInv, RequestsReserved
  <1>7. /\ sent' \in [CallIds -> Nat] /\ sent'[c] = 1
        /\ \A d \in CallIds \ {c} : sent'[d] = sent[d]
    BY <1>2, <1>3, <1>6 DEF ResearchInv, Types
  <1>8. Types'
    BY <1>1, <1>5, <1>7 DEF ResearchInv, Types, JobTypeOK
  <1>9. WorkersOnCourse'
    BY <1>1, <1>4, <1>5 DEF ResearchInv, WorkersOnCourse, Course, MyNode
  <1>10. MyCall(w)' = c /\ \A v \in Workers \ {w} : MyCall(v)' = MyCall(v)
    BY <1>4, <1>5 DEF MyCall, MyNode
  <1>11. \A v \in Workers \ {w} : At(v, "send") => MyCall(v) \in CallIds \ {c}
    BY <1>1, WorkerShape DEF ResearchInv, RequestsReserved, At, InCall
  <1>12. \A v \in Workers \ {w} : At(v, "settle") => MyCall(v) \in CallIds \ {c}
    BY <1>6, WorkerShape DEF ResearchInv, RequestsReserved, At, InCall
  <1>13. RequestsReserved'
    BY <1>1, <1>2, <1>4, <1>5, <1>6, <1>7, <1>10, <1>11, <1>12
    DEF ResearchInv, RequestsReserved, At
  <1> QED
    BY <1>8, <1>9, <1>13 DEF ResearchInv

LEMMA SettleKeepsResearchInv ==
    ASSUME ResearchInv, NEW w \in Workers, Settle(w)
    PROVE  ResearchInv'
PROOF
  <1> DEFINE c == MyCall(w)
             m == [worker[w] EXCEPT !.pc = "store"]
             status == IF worker[w].cost > Allocation THEN "EXCEEDED" ELSE "COMPLETED"
             row == [call[c] EXCEPT !.actual = worker[w].cost, !.status = status]
  <1>1. At(w, "settle") /\ UNCHANGED <<job, today, checkpoint, sent>>
    BY DEF Settle, store, history
  <1>2. /\ MyNode(w).name \in {"research", "skeptic"} /\ RoundLeft(MyNode(w))
        /\ c \in CallIds /\ worker[w] \in WorkerType
    BY <1>1, WorkerShape DEF At, ResearchInv, WorkersOnCourse, InCall
  <1>3. Course(m) /\ m.pc = "store"
    BY <1>1, <1>2, GotoCourse DEF At, Steps
  <1>4. worker' = [worker EXCEPT ![w] = m]
    BY DEF Settle, Goto
  <1>5. call[c].status = "RESERVED" /\ call' = [call EXCEPT ![c] = row]
    BY DEF Settle, Complete
  <1>6. status \in {"EXCEEDED", "COMPLETED"} /\ worker[w].cost \in Costs \union {0}
    BY <1>2 DEF WorkerType
  <1>7. call[c] \in CallType /\ call \in [CallIds -> CallType]
    BY <1>2 DEF ResearchInv, Types
  <1> HIDE DEF m, status
  <1>8. row \in CallType /\ row.status = status
    BY <1>6, <1>7 DEF CallType, CallStatus
  <1> HIDE DEF row
  <1>9. /\ call' \in [CallIds -> CallType]
        /\ \A d \in CallIds : call'[d].status = call[d].status \/
               (call[d].status = "RESERVED" /\ call'[d].status # "ABSENT" /\ At(w, "settle")
                /\ d = MyCall(w))
    BY <1>1, <1>2, <1>5, <1>6, <1>7, <1>8
  <1>10. JobTypeOK' /\ today' \in Days /\ checkpoint' \in [Jobs -> Nodes]
         /\ \A j \in Jobs : RoundLeft(checkpoint'[j])
    BY <1>1, SameJobs DEF ResearchInv, Types, WorkersOnCourse
  <1> QED
    BY <1>1, <1>3, <1>4, <1>9, <1>10, WorkerMoves

(***************************************************************************)
(* The steps between calls.                                                *)
(***************************************************************************)
LEMMA WalkKeepsResearchInv ==
    ASSUME ResearchInv, NEW w \in Workers,
           GiveUp(w) \/ Store(w) \/ Raise(w) \/ Crash(w) \/ Tools(w) \/ Publish(w)
    PROVE  ResearchInv'
PROOF
  <1>1. UNCHANGED <<job, today, call, checkpoint, sent>>
    BY DEF GiveUp, Store, Raise, Crash, Tools, Publish, ledger, store, history
  <1>2. JobTypeOK'
    BY <1>1, SameJobs
  <1>3. MyNode(w).round \in Rounds
    BY WorkerShape
  <1>4. /\ worker[w].pc \in InCall => MyNode(w).name \in {"research", "skeptic"}
        /\ worker[w].pc # "route" => RoundLeft(MyNode(w))
    BY DEF ResearchInv, WorkersOnCourse
  <1>5. CASE GiveUp(w)
    BY <1>1, <1>2, <1>5, GotoMoves DEF GiveUp, At, Steps, InCall
  <1>6. CASE Store(w)
    <2>1. PICK pc \in {"check", "error"} : Goto(w, pc)
      BY <1>6 DEF Store
    <2> QED
      BY <1>1, <1>2, <1>4, <1>6, <2>1, GotoMoves DEF Store, At, Steps, InCall
  <1>7. CASE Raise(w)
    BY <1>1, <1>2, <1>4, <1>7, GotoMoves DEF Raise, Steps, InCall
  <1>8. CASE Crash(w)
    BY <1>1, <1>2, <1>8, ReturnMoves DEF Crash
  <1>9. CASE Tools(w)
    <2>1. /\ Node("research", MyNode(w).round) \in Nodes
          /\ RoundLeft(Node("research", MyNode(w).round))
      BY <1>3, <1>4, <1>9, NodeType DEF Tools, At, RoundLeft
    <2> QED
      BY <1>1, <1>2, <1>9, <2>1, LeaveMoves DEF Tools, At
  <1>10. CASE Publish(w)
    <2>1. /\ Node("end", MyNode(w).round) \in Nodes
          /\ RoundLeft(Node("end", MyNode(w).round))
      BY <1>3, NodeType DEF RoundLeft
    <2> QED
      BY <1>1, <1>2, <1>10, <2>1, LeaveMoves DEF Publish, At
  <1> QED
    BY <1>5, <1>6, <1>7, <1>8, <1>9, <1>10

LEMMA EnterKeepsResearchInv ==
    ASSUME ResearchInv, NEW w \in Workers, Enter(w)
    PROVE  ResearchInv'
PROOF
  <1>1. /\ At(w, "node") /\ MyNode(w).name \in {"research", "skeptic"}
        /\ UNCHANGED <<job, today, call, checkpoint, sent>>
    BY DEF Enter, ledger, store, history
  <1>2. JobTypeOK' /\ RoundLeft(MyNode(w)) /\ worker[w] \in WorkerType /\ worker[w].job \in Jobs
    BY <1>1, SameJobs, WorkerShape DEF ResearchInv, WorkersOnCourse, At
  <1>3. CASE Goto(w, "error") \/ Goto(w, "reserve")
    BY <1>1, <1>2, <1>3, GotoMoves DEF At, Steps, InCall
  <1>4. CASE worker' = [worker EXCEPT ![w].pc = "check", ![w].cost = call[MyCall(w)].actual]
    <2> DEFINE cost == call[MyCall(w)].actual
               m == [worker[w] EXCEPT !.pc = "check", !.cost = cost]
    <2>1. MyCall(w) \in CallIds
      BY <1>1, <1>2, WorkerShape DEF MyCall, CallIds
    <2>2. cost \in Costs \union {0}
      BY <2>1 DEF ResearchInv, Types, CallType
    <2> HIDE DEF cost
    <2>3. m \in WorkerType /\ m.pc = "check" /\ m.job = worker[w].job /\ m.node = worker[w].node
      BY <1>2, <2>2 DEF WorkerType, Steps
    <2>4. worker' = [worker EXCEPT ![w] = m]
      BY <1>4 DEF cost
    <2> HIDE DEF m
    <2>5. Course(m)
      BY <1>1, <1>2, <2>3 DEF Course, MyNode, InCall
    <2> QED
      BY <1>1, <1>2, <2>3, <2>4, <2>5, WorkerOnlyMoves
  <1> QED
    BY <1>3, <1>4 DEF Enter

LEMMA CheckKeepsResearchInv ==
    ASSUME ResearchInv, NEW w \in Workers, Check(w)
    PROVE  ResearchInv'
PROOF
  <1>1. At(w, "check") /\ UNCHANGED <<job, today, call, checkpoint, sent>>
    BY DEF Check, ledger, store, history
  <1>2. /\ JobTypeOK' /\ RoundLeft(MyNode(w)) /\ MyNode(w).name \in {"research", "skeptic"}
        /\ worker[w] \in WorkerType /\ worker[w].job \in Jobs /\ MyNode(w).round \in Rounds
        /\ MyNode(w) \in Nodes
    BY <1>1, SameJobs, WorkerShape DEF ResearchInv, WorkersOnCourse, At, InCall
  <1>3. CASE Goto(w, "error")
    BY <1>1, <1>2, <1>3, GotoMoves DEF At, Steps, InCall
  <1>4. CASE Leave(w, Node("finish", MyNode(w).round))
    <2>1. /\ Node("finish", MyNode(w).round) \in Nodes
          /\ RoundLeft(Node("finish", MyNode(w).round))
      BY <1>2, NodeType DEF RoundLeft
    <2> QED
      BY <1>1, <1>2, <1>4, <2>1, LeaveMoves DEF At
  <1>5. CASE /\ MyNode(w).name # "skeptic"
             /\ worker' = [worker EXCEPT ![w].pc = "route", ![w].node.round = @ + 1]
    <2> DEFINE n == [MyNode(w) EXCEPT !.round = MyNode(w).round + 1]
               m == [worker[w] EXCEPT !.pc = "route", !.node = n]
    <2>1. MyNode(w).name = "research" /\ MyNode(w).round < MaxRounds
      BY <1>2, <1>5 DEF RoundLeft
    <2>2. MyNode(w).round + 1 \in Rounds
      BY <1>2, <2>1, ResearchAssumption DEF Rounds
    <2>3. n \in Nodes /\ n.name = "research"
      BY <1>2, <2>1, <2>2 DEF Nodes
    <2>4. worker' = [worker EXCEPT ![w] = m]
      BY <1>5 DEF MyNode
    <2> HIDE DEF n
    <2>5. m \in WorkerType /\ m.pc = "route" /\ m.job = worker[w].job /\ m.node = n
      BY <1>2, <2>3 DEF WorkerType, Steps
    <2> HIDE DEF m
    <2>6. Course(m)
      BY <1>2, <2>3, <2>5 DEF Course, InCall
    <2> QED
      BY <1>1, <1>2, <2>4, <2>5, <2>6, WorkerOnlyMoves
  <1> QED
    BY <1>3, <1>4, <1>5 DEF Check

LEMMA RouteKeepsResearchInv ==
    ASSUME ResearchInv, NEW w \in Workers, Route(w)
    PROVE  ResearchInv'
PROOF
  <1>1. At(w, "route") /\ UNCHANGED <<job, today, call, checkpoint, sent>>
    BY DEF Route, ledger, store, history
  <1>2. JobTypeOK' /\ MyNode(w).round \in Rounds
    BY <1>1, SameJobs, WorkerShape
  <1>3. PICK name \in {"finish", "skeptic", "tools"} :
           /\ Leave(w, Node(name, MyNode(w).round))
           /\ name = "tools" => MyNode(w).round < MaxRounds
    BY DEF Route
  <1>4. /\ Node(name, MyNode(w).round) \in Nodes
        /\ RoundLeft(Node(name, MyNode(w).round))
    BY <1>2, <1>3, NodeType DEF RoundLeft
  <1> QED
    BY <1>1, <1>2, <1>3, <1>4, LeaveMoves DEF At

(***************************************************************************)
(* The checkpoint is written by the worker that stands at the node, or by  *)
(* one that lost the lease to it: either has a round left.                 *)
(***************************************************************************)
LEMMA SaveKeepsResearchInv ==
    ASSUME ResearchInv, NEW w \in Workers, Save(w)
    PROVE  ResearchInv'
PROOF
  <1> DEFINE pc == IF MyNode(w).name = "end" THEN "report" ELSE "node"
             m == [worker[w] EXCEPT !.pc = pc]
  <1>1. /\ At(w, "save") /\ UNCHANGED <<job, today, call, sent>>
        /\ checkpoint' = [checkpoint EXCEPT ![worker[w].job] = MyNode(w)]
    BY DEF Save, ledger, history
  <1>2. JobTypeOK' /\ RoundLeft(MyNode(w)) /\ MyNode(w) \in Nodes
    BY <1>1, SameJobs, WorkerShape DEF ResearchInv, WorkersOnCourse, At
  <1>3. checkpoint' \in [Jobs -> Nodes] /\ \A j \in Jobs : RoundLeft(checkpoint'[j])
    BY <1>1, <1>2 DEF ResearchInv, Types, WorkersOnCourse
  <1>4. pc \in {"report", "node"} /\ worker' = [worker EXCEPT ![w] = m]
    BY DEF Save, Goto
  <1>5. Course(m) /\ m.pc \in {"report", "node"}
    <2> HIDE DEF pc
    <2> QED
      BY <1>1, <1>2, <1>4, GotoCourse DEF At, Steps, InCall, pc
  <1> HIDE DEF m
  <1>6. call' \in [CallIds -> CallType] /\ today' \in Days
    BY <1>1 DEF ResearchInv, Types
  <1> QED
    BY <1>1, <1>2, <1>3, <1>4, <1>5, <1>6, WorkerMoves

(***************************************************************************)
(* The end of a job.                                                       *)
(***************************************************************************)
LEMMA EndKeepsResearchInv ==
    ASSUME ResearchInv, NEW w \in Workers, Report(w) \/ Fail(w)
    PROVE  ResearchInv'
PROOF
  <1>1. UNCHANGED <<today, call, checkpoint, sent>> /\ JobTypeOK
    BY DEF Report, Fail, ledger, store, history, ResearchInv, Types
  <1>2. worker[w].job \in Jobs /\ worker[w].pc \in {"report", "error"}
    BY WorkerShape DEF Report, Fail, At
  <1>3. CASE /\ \E outcome \in {"COMPLETED", "FAILED"} :
                   FinishJob(worker[w].job, worker[w].token, outcome)
             /\ Return(w)
    <2>1. JobTypeOK'
      BY <1>1, <1>2, <1>3, RowsKeepType
    <2> QED
      BY <1>1, <1>3, <2>1, ReturnMoves
  <1>4. CASE UNCHANGED job /\ Return(w)
    BY <1>1, <1>4, SameJobs, ReturnMoves
  <1>5. CASE Report(w) /\ Goto(w, "error") /\ UNCHANGED job
    <2>1. RoundLeft(MyNode(w))
      BY <1>2 DEF ResearchInv, WorkersOnCourse
    <2> QED
      BY <1>1, <1>2, <1>5, <2>1, SameJobs, GotoMoves DEF Steps, InCall
  <1> QED
    BY <1>3, <1>4, <1>5 DEF Report, Fail

LEMMA ResearchInvNext == ResearchInv /\ [Next]_vars => ResearchInv'
PROOF
  <1> SUFFICES ASSUME ResearchInv, [Next]_vars PROVE ResearchInv'
    OBVIOUS
  <1>1. CASE \/ \E j \in Jobs : Request(j) \/ Cancel(j)
             \/ \E w \in Workers : Renew(w)
             \/ Tick \/ Midnight
    BY <1>1, EnvironmentKeepsResearchInv
  <1>2. ASSUME NEW w \in Workers, WorkerStep(w) \/ Raise(w) \/ Crash(w)
        PROVE  ResearchInv'
    <2>1. CASE Claim(w)
      BY <2>1, ClaimKeepsResearchInv
    <2>2. CASE GiveUp(w) \/ Store(w) \/ Raise(w) \/ Crash(w) \/ Tools(w) \/ Publish(w)
      BY <2>2, WalkKeepsResearchInv
    <2>3. CASE Enter(w)
      BY <2>3, EnterKeepsResearchInv
    <2>4. CASE ReserveCall(w)
      BY <2>4, ReserveCallKeepsResearchInv
    <2>5. CASE Send(w)
      BY <2>5, SendKeepsResearchInv
    <2>6. CASE Settle(w)
      BY <2>6, SettleKeepsResearchInv
    <2>7. CASE Check(w)
      BY <2>7, CheckKeepsResearchInv
    <2>8. CASE Route(w)
      BY <2>8, RouteKeepsResearchInv
    <2>9. CASE Save(w)
      BY <2>9, SaveKeepsResearchInv
    <2>10. CASE Report(w) \/ Fail(w)
      BY <2>10, EndKeepsResearchInv
    <2> QED
      BY <1>2, <2>1, <2>2, <2>3, <2>4, <2>5, <2>6, <2>7, <2>8, <2>9, <2>10 DEF WorkerStep
  <1>3. CASE UNCHANGED vars
    BY <1>3, SameJobs, OthersMove DEF vars, ResearchInv, Types
  <1> QED
    BY <1>1, <1>2, <1>3 DEF Next

LEMMA ResearchInvAlways == Spec => []ResearchInv
  BY ResearchInvInit, ResearchInvNext, PTL DEF Spec

-----------------------------------------------------------------------------
(***************************************************************************)
(* No logical model call is paid for twice, however many workers, attempts *)
(* and rounds there are: the ledger hands the reservation of a call id to  *)
(* one worker once (UsageLedger.reserve), whoever asks again after a crash *)
(* or at the same time.                                                    *)
(***************************************************************************)
THEOREM CallsPaidOnce == Spec => []CallPaidOnce
PROOF
  <1>1. ResearchInv => CallPaidOnce
    BY DEF ResearchInv, RequestsReserved, CallPaidOnce
  <1> QED
    BY <1>1, ResearchInvAlways, PTL

(***************************************************************************)
(* After a cancellation was recorded no answer and no result of the run is *)
(* stored (assert_job_fence in put, _active in _finish).                   *)
(***************************************************************************)
NothingStoredAfterCancel ==
    \A j \in Jobs : job[j].cancel =>
        /\ j \in published' <=> j \in published
        /\ \A c \in CallIds : c[1] = j => (c \in answer' <=> c \in answer)

LEMMA OnlyFencedStore == ResearchInv /\ [Next]_vars => NothingStoredAfterCancel
PROOF
  <1> SUFFICES ASSUME ResearchInv, [Next]_vars PROVE NothingStoredAfterCancel
    OBVIOUS
  <1>1. CASE UNCHANGED <<answer, published>>
    BY <1>1 DEF NothingStoredAfterCancel
  <1>2. ASSUME NEW w \in Workers, Store(w)
        PROVE  NothingStoredAfterCancel
    <2>1. UNCHANGED published
      BY <1>2 DEF Store
    <2>2. CASE UNCHANGED answer
      BY <2>1, <2>2 DEF NothingStoredAfterCancel
    <2>3. CASE Active(w) /\ answer' = answer \union {MyCall(w)}
      <3>1. ~job[worker[w].job].cancel /\ MyCall(w)[1] = worker[w].job
        BY <2>3 DEF Active, Fenced, MyCall
      <3> QED
        BY <2>1, <2>3, <3>1 DEF NothingStoredAfterCancel
    <2> QED
      BY <1>2, <2>2, <2>3 DEF Store
  <1>3. ASSUME NEW w \in Workers, Publish(w)
        PROVE  NothingStoredAfterCancel
    <2>1. UNCHANGED answer
      BY <1>3 DEF Publish
    <2>2. Active(w) => ~job[worker[w].job].cancel
      BY DEF Active, Fenced
    <2>3. published' = IF Active(w) THEN published \union {worker[w].job} ELSE published
      BY <1>3 DEF Publish
    <2> QED
      BY <2>1, <2>2, <2>3 DEF NothingStoredAfterCancel
  <1>4. CASE \E j \in Jobs : Request(j) \/ Cancel(j)
    BY <1>1, <1>4 DEF Request, Cancel, store
  <1>5. CASE Tick \/ Midnight \/ UNCHANGED vars
    BY <1>1, <1>5 DEF Tick, Midnight, store, vars
  <1>6. ASSUME NEW w \in Workers,
               \/ WorkerStep(w) /\ ~Store(w) /\ ~Publish(w)
               \/ Raise(w) \/ Crash(w) \/ Renew(w)
        PROVE  UNCHANGED <<answer, published>>
    BY <1>6 DEF WorkerStep, Claim, GiveUp, Enter, ReserveCall, Send, Settle, Check, Route,
                Tools, Save, Report, Fail, Raise, Crash, Renew, store
  <1> QED
    BY <1>1, <1>2, <1>3, <1>4, <1>5, <1>6 DEF Next

\* The same fence, as the action property of the run.
THEOREM CancelledStaysSilent == Spec => NothingAfterCancel
PROOF
  <1>1. ResearchInv /\ [Next]_vars => [NothingStoredAfterCancel]_vars
    BY OnlyFencedStore
  <1> QED
    BY <1>1, ResearchInvAlways, PTL DEF Spec, NothingAfterCancel, NothingStoredAfterCancel

-----------------------------------------------------------------------------
(* The money.                                                              *)

\* What a call may still cost its periods: the whole allocation while it is
\* under way, what the provider charged for it once it is settled.
Held == [c \in CallIds |-> IF call[c].status = "RESERVED" THEN Allocation ELSE Kept[c]]

\* What the ledger settled is what the provider charged.
CostsKnown ==
    /\ spent \in [CallIds -> Nat]
    /\ \A c \in CallIds :
          /\ call[c].status = "ABSENT" => call[c].actual = 0 /\ spent[c] = 0
          /\ sent[c] = 0 => spent[c] = 0
          /\ call[c].status \in {"COMPLETED", "EXCEEDED"} => spent[c] = call[c].actual
    /\ \A w \in Workers : At(w, "settle") => spent[MyCall(w)] = worker[w].cost

HeldWithinLimits == \A p \in Periods : SumOf(Held, Charged(p)) <= Limit(p)

MoneyInv ==
    /\ CostsKnown
    /\ budget \in [Periods -> Int]
    /\ BudgetIsTheSum
    /\ HeldWithinLimits

LEMMA CallIdsFinite == IsFiniteSet(CallIds)
PROOF
  <1> DEFINE R == {"research", "skeptic"}
             pairs == (Jobs \X R) \X Rounds
             f == [x \in pairs |-> <<x[1][1], x[1][2], x[2]>>]
  <1>1. IsFiniteSet(R)
    <2>1. IsFiniteSet({"research"})
      BY FS_Singleton
    <2>2. R = {"research"} \union {"skeptic"}
      OBVIOUS
    <2> HIDE DEF R
    <2> QED
      BY <2>1, <2>2, FS_AddElement
  <1>2. IsFiniteSet(Rounds)
    BY ResearchAssumption, FS_Interval DEF Rounds
  <1>3. IsFiniteSet(Jobs)
    BY ResearchAssumption
  <1> HIDE DEF R
  <1>4. IsFiniteSet(pairs)
    <2>1. IsFiniteSet(Jobs \X R)
      BY <1>1, <1>3, FS_Product
    <2> QED
      BY <1>2, <2>1, FS_Product
  <1>5. CallIds = Jobs \X R \X Rounds
    BY DEF CallIds, R
  <1>6. f \in Surjection(pairs, CallIds)
    <2>1. ASSUME NEW x \in pairs
          PROVE  <<x[1][1], x[1][2], x[2]>> \in CallIds
      BY <1>5
    <2>2. ASSUME NEW c \in CallIds
          PROVE  \E x \in pairs : f[x] = c
      <3>1. PICK j \in Jobs, a \in R, n \in Rounds : c = <<j, a, n>>
        BY <1>5
      <3>2. <<<<j, a>>, n>> \in pairs
        OBVIOUS
      <3>3. f[<<<<j, a>>, n>>] = c
        BY <3>1, <3>2
      <3> QED
        BY <3>2, <3>3
    <2>3. f \in [pairs -> CallIds]
      BY <2>1
    <2> HIDE DEF f
    <2> QED
      BY <2>2, <2>3 DEF Surjection
  <1> HIDE DEF pairs, f
  <1> QED
    BY <1>4, <1>6, FS_Surjection

LEMMA ChargedFinite == ASSUME NEW p PROVE IsFiniteSet(Charged(p))
  BY CallIdsFinite, FS_Subset DEF Charged

\* The rows of the ledger as numbers.
LEMMA Amounts ==
    ASSUME Types, CostsKnown
    PROVE  \A c \in CallIds :
              /\ Charge[c] \in Nat /\ Kept[c] \in Nat /\ Held[c] \in Nat
              /\ Kept[c] <= Held[c]
              /\ call[c].status # "ABSENT" => Held[c] <= Charge[c]
PROOF
  <1>1. ASSUME NEW c \in CallIds
        PROVE  /\ Charge[c] \in Nat /\ Kept[c] \in Nat /\ Held[c] \in Nat
               /\ Kept[c] <= Held[c]
               /\ call[c].status # "ABSENT" => Held[c] <= Charge[c]
    <2>1. call[c] \in CallType /\ spent[c] \in Nat /\ Allocation \in Nat
      BY ResearchAssumption DEF Types, CostsKnown
    <2>2. call[c].actual \in Nat
      <3>1. call[c].actual \in Costs \union {0}
        BY <2>1 DEF CallType
      <3>2. Costs \subseteq Nat
        BY ResearchAssumption
      <3> DEFINE a == call[c].actual
      <3> HIDE DEF a
      <3>3. a \in Costs => a \in Nat
        BY <3>2
      <3>4. a = 0 => a \in Nat
        OBVIOUS
      <3> QED
        BY <3>1, <3>3, <3>4 DEF a
    <2>3. call[c].status \in {"ABSENT", "RESERVED", "COMPLETED", "EXCEEDED"}
      BY <2>1 DEF CallType, CallStatus
    <2>4. call[c].status \in {"COMPLETED", "EXCEEDED"} => spent[c] = call[c].actual
      BY DEF CostsKnown
    <2>5. /\ Charge[c] = IF call[c].status = "RESERVED" THEN Allocation ELSE call[c].actual
          /\ Kept[c] = IF spent[c] < Allocation THEN spent[c] ELSE Allocation
          /\ Held[c] = IF call[c].status = "RESERVED" THEN Allocation ELSE Kept[c]
      BY DEF Charge, Kept, Held
    <2> QED
      BY <2>1, <2>2, <2>3, <2>4, <2>5, SMT
  <1> QED
    BY <1>1

LEMMA LimitsNat == \A p \in Periods : Limit(p) \in Nat
  BY ResearchAssumption DEF Limit

LEMMA MoneyInvInit == Init => MoneyInv
PROOF
  <1> SUFFICES ASSUME Init PROVE MoneyInv
    OBVIOUS
  <1>1. CostsKnown
    BY IdleWorker DEF Init, CostsKnown, NoCall, At
  <1>2. \A p \in Periods : Charged(p) = {}
    BY DEF Init, Charged, NoCall
  <1>3. budget \in [Periods -> Int] /\ \A p \in Periods : budget[p] = 0
    BY DEF Init
  <1>4. \A p \in Periods : SumOf(Charge, Charged(p)) = 0 /\ SumOf(Held, Charged(p)) = 0
    BY <1>2, SumEmpty
  <1> QED
    BY <1>1, <1>3, <1>4, LimitsNat DEF MoneyInv, BudgetIsTheSum, HeldWithinLimits

\* Steps that neither the ledger nor the provider sees.
LEMMA MoneyStill ==
    ASSUME MoneyInv, UNCHANGED <<budget, call, sent, spent>>,
           \A w \in Workers : At(w, "settle")' => worker'[w] = worker[w]
    PROVE  MoneyInv'
PROOF
  <1>1. CostsKnown'
    BY DEF MoneyInv, CostsKnown, At, MyCall, MyNode
  <1>2. Charge' = Charge /\ Held' = Held /\ \A p \in Periods : Charged(p)' = Charged(p)
    BY DEF Charge, Held, Kept, Charged, ChargedTo
  <1> QED
    BY <1>1, <1>2 DEF MoneyInv, BudgetIsTheSum, HeldWithinLimits

\* reserve: the call joins the calls of its three periods with its allocation.
LEMMA MoneyReserved ==
    ASSUME Types, MoneyInv, NEW c \in CallIds, Reserve(c), Types',
           UNCHANGED <<sent, spent>>,
           \A w \in Workers : At(w, "settle")' => worker'[w] = worker[w]
    PROVE  MoneyInv'
PROOF
  <1> DEFINE due == PeriodsOf(c, today)
  <1>1. /\ call[c].status = "ABSENT" /\ call \in [CallIds -> CallType]
        /\ call'[c] = [status |-> "RESERVED", day |-> today, actual |-> 0]
        /\ \A d \in CallIds \ {c} : call'[d] = call[d]
    BY DEF Types, Reserve
  <1>2. CostsKnown'
    <2>1. \A d \in CallIds :
             /\ call'[d].status = "ABSENT" => call'[d].actual = 0 /\ spent'[d] = 0
             /\ sent'[d] = 0 => spent'[d] = 0
             /\ call'[d].status \in {"COMPLETED", "EXCEEDED"} => spent'[d] = call'[d].actual
      BY <1>1 DEF MoneyInv, CostsKnown
    <2>2. \A v \in Workers : At(v, "settle")' => spent'[MyCall(v)'] = worker'[v].cost
      BY DEF MoneyInv, CostsKnown, At, MyCall, MyNode
    <2> QED
      BY <2>1, <2>2 DEF MoneyInv, CostsKnown
  <1>3. Allocation \in Nat
    BY ResearchAssumption
  <1>4. /\ budget' = [p \in Periods |-> IF p \in due THEN budget[p] + Allocation ELSE budget[p]]
        /\ \A p \in due : budget[p] + Allocation <= Limit(p)
    BY DEF Reserve, Affordable
  <1>5. budget \in [Periods -> Int]
    BY DEF MoneyInv
  <1>6. budget' \in [Periods -> Int]
    BY <1>3, <1>4, <1>5
  <1>7. \A d \in CallIds \ {c} : Charge'[d] = Charge[d] /\ Held'[d] = Held[d]
    BY <1>1 DEF Charge, Held, Kept
  <1>8. Charge'[c] = Allocation /\ Held'[c] = Allocation
    BY <1>1 DEF Charge, Held
  <1>9. ASSUME NEW p \in Periods
        PROVE  /\ budget'[p] = SumOf(Charge', Charged(p)')
               /\ SumOf(Held', Charged(p)') <= Limit(p)
    <2> DEFINE S == Charged(p)
    <2>1. c \notin S /\ S \subseteq CallIds /\ IsFiniteSet(S)
      BY <1>1, ChargedFinite DEF Charged
    <2>2. Charged(p)' = IF p \in due THEN S \union {c} ELSE S
      BY <1>1 DEF Charged, ChargedTo, PeriodsOf
    <2>3. \A d \in S : /\ Charge[d] \in Int /\ Charge'[d] = Charge[d]
                       /\ Held[d] \in Int /\ Held'[d] = Held[d]
                       /\ Held[d] <= Charge[d]
      BY <1>7, <2>1, Amounts DEF MoneyInv, Charged
    <2>4. budget[p] = SumOf(Charge, S) /\ SumOf(Held, S) <= Limit(p)
      BY DEF MoneyInv, BudgetIsTheSum, HeldWithinLimits
    <2>5. SumOf(Charge, S) \in Int /\ SumOf(Held, S) \in Int
      BY <2>1, <2>3, SumInt
    <2>6. SumOf(Held, S) <= SumOf(Charge, S)
      BY <2>1, <2>3, SumMonotone
    <2> HIDE DEF S, due
    <2>7. CASE p \in due
      <3>1. SumOf(Charge', S \union {c}) = SumOf(Charge, S) + Charge'[c]
        <4>1. Charge'[c] \in Int
          BY <1>3, <1>8
        <4> QED
          BY <2>1, <2>3, <4>1, SumAdd
      <3>2. SumOf(Held', S \union {c}) = SumOf(Held, S) + Held'[c]
        <4>1. Held'[c] \in Int
          BY <1>3, <1>8
        <4> QED
          BY <2>1, <2>3, <4>1, SumAdd
      <3>3. budget'[p] = budget[p] + Allocation /\ budget[p] + Allocation <= Limit(p)
        BY <1>4, <2>7
      <3>4. Limit(p) \in Int
        BY LimitsNat
      <3>5. SumOf(Held, S) + Allocation <= Limit(p)
        BY <1>3, <2>4, <2>5, <2>6, <3>3, <3>4
      <3> QED
        BY <1>8, <2>2, <2>4, <2>7, <3>1, <3>2, <3>3, <3>5
    <2>8. CASE p \notin due
      <3>1. SumOf(Charge', S) = SumOf(Charge, S)
        BY <2>1, <2>3, SumAgree
      <3>2. SumOf(Held', S) = SumOf(Held, S)
        BY <2>1, <2>3, SumAgree
      <3>3. budget'[p] = budget[p]
        BY <1>4, <2>8
      <3> QED
        BY <2>2, <2>4, <2>8, <3>1, <3>2, <3>3
    <2> QED
      BY <2>7, <2>8
  <1> QED
    BY <1>2, <1>6, <1>9 DEF MoneyInv, BudgetIsTheSum, HeldWithinLimits

\* The provider charges for a call that holds its whole allocation.
LEMMA MoneySpent ==
    ASSUME ResearchInv, MoneyInv, NEW w \in Workers, Send(w)
    PROVE  MoneyInv'
PROOF
  <1> DEFINE c == MyCall(w)
  <1>1. PICK cost \in Costs :
           /\ sent' = [sent EXCEPT ![c] = @ + 1]
           /\ spent' = [spent EXCEPT ![c] = @ + cost]
           /\ \/ worker' = [worker EXCEPT ![w].pc = "settle", ![w].cost = cost]
              \/ Goto(w, "error")
    BY DEF Send
  <1>2. /\ At(w, "send") /\ UNCHANGED <<budget, call>>
        /\ c \in CallIds /\ call[c].status = "RESERVED" /\ sent[c] = 0
    BY WorkerShape DEF Send, ledger, ResearchInv, RequestsReserved, At, InCall
  <1>3. cost \in Nat /\ spent \in [CallIds -> Nat] /\ spent[c] = 0
    BY <1>2, ResearchAssumption DEF MoneyInv, CostsKnown
  <1>4. /\ spent' \in [CallIds -> Nat] /\ spent'[c] = cost
        /\ \A d \in CallIds \ {c} : spent'[d] = spent[d]
    BY <1>1, <1>2, <1>3
  <1>5. sent \in [CallIds -> Nat] /\ worker \in [Workers -> WorkerType]
    BY DEF ResearchInv, Types
  <1>6. sent'[c] = 1 /\ \A d \in CallIds \ {c} : sent'[d] = sent[d]
    BY <1>1, <1>2, <1>5
  <1>7. \A v \in Workers \ {w} : worker'[v] = worker[v]
    BY <1>1, <1>5 DEF Goto
  <1>8. /\ worker'[w].job = worker[w].job /\ worker'[w].node = worker[w].node
        /\ worker'[w].pc = "settle" => worker'[w].cost = cost
    BY <1>1, <1>5 DEF Goto, WorkerType
  <1>9. MyCall(w)' = c /\ \A v \in Workers \ {w} : MyCall(v)' = MyCall(v)
    BY <1>7, <1>8 DEF MyCall, MyNode
  <1>10. \A v \in Workers \ {w} : At(v, "settle") => MyCall(v) \in CallIds \ {c}
    BY <1>2, WorkerShape DEF ResearchInv, RequestsReserved, At, InCall
  <1> HIDE DEF c
  <1>11. CostsKnown'
    <2>1. \A d \in CallIds :
             /\ call'[d].status = "ABSENT" => call'[d].actual = 0 /\ spent'[d] = 0
             /\ sent'[d] = 0 => spent'[d] = 0
             /\ call'[d].status \in {"COMPLETED", "EXCEEDED"} => spent'[d] = call'[d].actual
      BY <1>2, <1>4, <1>6 DEF MoneyInv, CostsKnown
    <2>2. \A v \in Workers : At(v, "settle")' => spent'[MyCall(v)'] = worker'[v].cost
      BY <1>4, <1>7, <1>8, <1>9, <1>10 DEF MoneyInv, CostsKnown, At
    <2> QED
      BY <1>4, <2>1, <2>2 DEF CostsKnown
  <1>12. Charge' = Charge /\ \A p \in Periods : Charged(p)' = Charged(p)
    BY <1>2 DEF Charge, Charged, ChargedTo
  <1>13. Held' = Held
    BY <1>2, <1>4 DEF Held, Kept
  <1> QED
    BY <1>2, <1>11, <1>12, <1>13 DEF MoneyInv, BudgetIsTheSum, HeldWithinLimits

\* complete: the actual cost takes the place of the allocation.
LEMMA MoneySettled ==
    ASSUME ResearchInv, MoneyInv, NEW w \in Workers, Settle(w), ResearchInv'
    PROVE  MoneyInv'
PROOF
  <1> DEFINE c == MyCall(w)
             actual == worker[w].cost
             status == IF actual > Allocation THEN "EXCEEDED" ELSE "COMPLETED"
  <1>1. /\ At(w, "settle") /\ c \in CallIds /\ UNCHANGED <<sent, spent>>
        /\ call[c].status = "RESERVED" /\ spent[c] = actual
        /\ sent[c] = 1
    BY WorkerShape
    DEF Settle, Complete, history, At, InCall, MoneyInv, CostsKnown, ResearchInv, RequestsReserved
  <1>2. call \in [CallIds -> CallType] /\ worker \in [Workers -> WorkerType]
    BY DEF ResearchInv, Types
  <1>3. /\ call'[c].status = status /\ call'[c].actual = actual
        /\ call'[c].day = call[c].day
        /\ \A d \in CallIds \ {c} : call'[d] = call[d]
    <2>1. call' = [call EXCEPT ![c] = [call[c] EXCEPT !.actual = actual, !.status = status]]
      BY DEF Settle, Complete
    <2>2. call[c] \in CallType
      BY <1>1, <1>2
    <2> HIDE DEF c, actual, status
    <2>3. LET row == [call[c] EXCEPT !.actual = actual, !.status = status]
          IN  row.status = status /\ row.actual = actual /\ row.day = call[c].day
      BY <2>2 DEF CallType
    <2> QED
      BY <1>1, <1>2, <2>1, <2>3
  <1>4. status \in {"EXCEEDED", "COMPLETED"}
    OBVIOUS
  <1>5. /\ budget' = [p \in Periods |->
                         IF p \in ChargedTo(c) THEN budget[p] + actual - Allocation ELSE budget[p]]
        /\ budget \in [Periods -> Int] /\ Allocation \in Nat /\ actual \in Nat
    BY <1>1, ResearchAssumption DEF Settle, Complete, MoneyInv, CostsKnown
  <1>6. \A v \in Workers : At(v, "settle")' => worker'[v] = worker[v]
    BY <1>2 DEF Settle, Goto, At
  <1> HIDE DEF c, actual, status
  <1>7. CostsKnown'
    <2>1. \A d \in CallIds :
             /\ call'[d].status = "ABSENT" => call'[d].actual = 0 /\ spent'[d] = 0
             /\ sent'[d] = 0 => spent'[d] = 0
             /\ call'[d].status \in {"COMPLETED", "EXCEEDED"} => spent'[d] = call'[d].actual
      BY <1>1, <1>3, <1>4 DEF MoneyInv, CostsKnown
    <2>2. \A v \in Workers : At(v, "settle")' => spent'[MyCall(v)'] = worker'[v].cost
      BY <1>1, <1>6 DEF MoneyInv, CostsKnown, At, MyCall, MyNode
    <2> QED
      BY <1>1, <2>1, <2>2 DEF MoneyInv, CostsKnown
  <1>8. budget' \in [Periods -> Int]
    BY <1>5
  <1>9. /\ Charge[c] = Allocation /\ Charge'[c] = actual
        /\ \A d \in CallIds \ {c} : Charge'[d] = Charge[d]
    BY <1>1, <1>3, <1>4 DEF Charge
  <1>10. /\ Held'[c] \in Nat /\ Held'[c] <= Held[c]
         /\ \A d \in CallIds \ {c} : Held'[d] = Held[d]
    <2>1. Held[c] = Allocation /\ \A d \in CallIds \ {c} : Held'[d] = Held[d]
      BY <1>1, <1>3 DEF Held, Kept
    <2>2. Held'[c] = IF actual < Allocation THEN actual ELSE Allocation
      BY <1>1, <1>3, <1>4 DEF Held, Kept
    <2> QED
      BY <1>5, <2>1, <2>2
  <1>11. ASSUME NEW p \in Periods
         PROVE  /\ budget'[p] = SumOf(Charge', Charged(p)')
                /\ SumOf(Held', Charged(p)') <= Limit(p)
    <2> DEFINE S == Charged(p)
    <2>1. S \subseteq CallIds /\ IsFiniteSet(S) /\ (c \in S <=> p \in ChargedTo(c))
      BY <1>1, ChargedFinite DEF Charged
    <2>2. Charged(p)' = S
      BY <1>1, <1>3, <1>4 DEF Charged, ChargedTo
    <2>3. budget[p] = SumOf(Charge, S) /\ SumOf(Held, S) <= Limit(p)
      BY DEF MoneyInv, BudgetIsTheSum, HeldWithinLimits
    <2>4. \A d \in CallIds : Charge[d] \in Int /\ Held[d] \in Int
      BY Amounts DEF ResearchInv, MoneyInv
    <2>5. \A d \in CallIds : Charge'[d] \in Int /\ Held'[d] \in Int
      BY <1>1, <1>5, <1>9, <1>10, <2>4
    <2> HIDE DEF S
    <2>6. SumOf(Held', S) <= SumOf(Held, S)
      <3>1. \A d \in S : Held'[d] \in Int /\ Held[d] \in Int /\ Held'[d] <= Held[d]
        BY <1>10, <2>1, <2>4, <2>5
      <3> QED
        BY <2>1, <3>1, SumMonotone
    <2>7. SumOf(Held, S) \in Int /\ SumOf(Held', S) \in Int /\ Limit(p) \in Int
      BY <2>1, <2>4, <2>5, SumInt, LimitsNat
    <2>8. CASE c \in S
      <3>1. SumOf(Charge', S) = SumOf(Charge, S) - Charge[c] + Charge'[c]
        <4>1. /\ \A d \in S : Charge[d] \in Int
              /\ \A d \in S : Charge'[d] \in Int
              /\ \A d \in S \ {c} : Charge'[d] = Charge[d]
          BY <1>9, <2>1, <2>4, <2>5
        <4> QED
          BY <2>1, <2>8, <4>1, SumChange
      <3>2. SumOf(Charge, S) \in Int
        BY <2>1, <2>4, SumInt
      <3>3. budget'[p] = budget[p] + actual - Allocation
        BY <1>5, <2>1, <2>8
      <3> QED
        BY <1>5, <1>9, <2>2, <2>3, <2>6, <2>7, <3>1, <3>2, <3>3
    <2>9. CASE c \notin S
      <3>1. SumOf(Charge', S) = SumOf(Charge, S)
        BY <1>9, <2>1, <2>9, SumAgree
      <3>2. budget'[p] = budget[p]
        BY <1>5, <2>1, <2>9
      <3> QED
        BY <2>2, <2>3, <2>6, <2>7, <3>1, <3>2
    <2> QED
      BY <2>8, <2>9
  <1> QED
    BY <1>7, <1>8, <1>11 DEF MoneyInv, BudgetIsTheSum, HeldWithinLimits

\* Only a request that was sent leads to its settlement.
LEMMA OnlySendLeadsToSettle ==
    ASSUME ResearchInv, [Next]_vars, ~(\E w \in Workers : Send(w)), NEW v \in Workers,
           At(v, "settle")'
    PROVE  worker'[v] = worker[v]
PROOF
  <1>1. worker \in [Workers -> WorkerType]
    BY DEF ResearchInv, Types
  <1>2. CASE UNCHANGED worker
    BY <1>2
  <1>3. ASSUME NEW w \in Workers, NEW m, worker' = [worker EXCEPT ![w] = m], m.pc # "settle"
        PROVE  worker'[v] = worker[v]
    BY <1>1, <1>3 DEF At
  <1>4. ASSUME NEW w \in Workers, NEW pc, pc # "settle", Goto(w, pc)
        PROVE  worker'[v] = worker[v]
    BY <1>1, <1>4 DEF At, Goto, WorkerType
  <1>5. ASSUME NEW w \in Workers, NEW n, Leave(w, n)
        PROVE  worker'[v] = worker[v]
    BY <1>1, <1>5 DEF At, Leave, WorkerType
  <1>6. ASSUME NEW w \in Workers, Return(w)
        PROVE  worker'[v] = worker[v]
    BY <1>1, <1>6 DEF At, Return, Idle
  <1>7. ASSUME NEW w \in Workers, WorkerStep(w) \/ Raise(w) \/ Crash(w) \/ Renew(w)
        PROVE  worker'[v] = worker[v]
    <2>1. CASE Claim(w)
      <3>1. CASE UNCHANGED worker
        BY <3>1
      <3>2. CASE \E j \in Jobs : worker' = [worker EXCEPT ![w] =
                             [pc |-> IF checkpoint[j].name = "end" THEN "report" ELSE "node",
                              job |-> j, token |-> job[j].attempts + 1,
                              node |-> checkpoint[j], cost |-> 0]]
        <4>1. PICK j \in Jobs : worker' = [worker EXCEPT ![w] =
                             [pc |-> IF checkpoint[j].name = "end" THEN "report" ELSE "node",
                              job |-> j, token |-> job[j].attempts + 1,
                              node |-> checkpoint[j], cost |-> 0]]
          BY <3>2
        <4> DEFINE m == [pc |-> IF checkpoint[j].name = "end" THEN "report" ELSE "node",
                         job |-> j, token |-> job[j].attempts + 1,
                         node |-> checkpoint[j], cost |-> 0]
        <4>2. worker' = [worker EXCEPT ![w] = m] /\ m.pc # "settle"
          BY <4>1
        <4> HIDE DEF m
        <4> QED
          BY <1>3, <4>2
      <3> QED
        BY <2>1, <3>1, <3>2 DEF Claim
    <2>2. CASE Enter(w)
      <3>1. CASE worker' = [worker EXCEPT ![w].pc = "check", ![w].cost = call[MyCall(w)].actual]
        BY <1>1, <3>1 DEF At, WorkerType
      <3> QED
        BY <1>4, <2>2, <3>1 DEF Enter
    <2>3. CASE Check(w)
      <3>1. CASE worker' = [worker EXCEPT ![w].pc = "route", ![w].node.round = @ + 1]
        BY <1>1, <3>1 DEF At, WorkerType
      <3> QED
        BY <1>4, <1>5, <2>3, <3>1 DEF Check
    <2>4. CASE GiveUp(w) \/ ReserveCall(w)
      <3>1. Goto(w, "route") \/ Goto(w, "send") \/ Goto(w, "error")
        BY <2>4 DEF GiveUp, ReserveCall
      <3> QED
        BY <1>4, <3>1
    <2>5. CASE Settle(w) \/ Store(w) \/ Raise(w)
      <3>1. Goto(w, "store") \/ Goto(w, "check") \/ Goto(w, "error")
        BY <2>5 DEF Settle, Store, Raise
      <3> QED
        BY <1>4, <3>1
    <2>6. CASE Route(w) \/ Tools(w) \/ Publish(w)
      <3>1. \E n : Leave(w, n)
        BY <2>6 DEF Route, Tools, Publish
      <3> QED
        BY <1>5, <3>1
    <2>7. CASE Save(w)
      <3>1. Goto(w, "report") \/ Goto(w, "node")
        BY <2>7 DEF Save
      <3> QED
        BY <1>4, <3>1
    <2>8. CASE Report(w) \/ Fail(w) \/ Crash(w)
      <3>1. Return(w) \/ Goto(w, "error")
        BY <2>8 DEF Report, Fail, Crash
      <3> QED
        BY <1>4, <1>6, <3>1
    <2>9. CASE Renew(w)
      BY <2>9 DEF Renew
    <2> QED
      BY <1>7, <2>1, <2>2, <2>3, <2>4, <2>5, <2>6, <2>7, <2>8, <2>9 DEF WorkerStep
  <1>8. CASE (\E j \in Jobs : Request(j) \/ Cancel(j)) \/ Tick \/ Midnight \/ UNCHANGED vars
    BY <1>2, <1>8 DEF Request, Cancel, Tick, Midnight, vars
  <1> QED
    BY <1>7, <1>8 DEF Next

LEMMA MoneyInvNext == ResearchInv /\ MoneyInv /\ [Next]_vars => MoneyInv'
PROOF
  <1> SUFFICES ASSUME ResearchInv, MoneyInv, [Next]_vars PROVE MoneyInv'
    OBVIOUS
  <1>1. ResearchInv'
    BY ResearchInvNext
  <1>2. CASE \E w \in Workers : Send(w)
    BY <1>2, MoneySpent
  <1>3. CASE ~(\E w \in Workers : Send(w))
    <2>1. \A w \in Workers : At(w, "settle")' => worker'[w] = worker[w]
      BY <1>3, OnlySendLeadsToSettle
    <2>2. CASE \E w \in Workers : Settle(w)
      BY <1>1, <2>2, MoneySettled
    <2>3. CASE \E w \in Workers : ReserveCall(w) /\ Reserve(MyCall(w))
      <3>1. PICK w \in Workers : ReserveCall(w) /\ Reserve(MyCall(w))
        BY <2>3
      <3>2. MyCall(w) \in CallIds
        BY <3>1, WorkerShape DEF ReserveCall, At, InCall
      <3>3. UNCHANGED <<sent, spent>>
        BY <3>1 DEF ReserveCall, history
      <3> QED
        BY <1>1, <2>1, <3>1, <3>2, <3>3, MoneyReserved DEF ResearchInv
    <2>4. CASE UNCHANGED <<budget, call, sent, spent>>
      BY <2>1, <2>4, MoneyStill
    <2>5. ASSUME NEW w \in Workers, WorkerStep(w) \/ Raise(w) \/ Crash(w) \/ Renew(w),
                 ~Settle(w), ~(ReserveCall(w) /\ Reserve(MyCall(w)))
          PROVE  UNCHANGED <<budget, call, sent, spent>>
      BY <1>3, <2>5
      DEF WorkerStep, Claim, GiveUp, Enter, ReserveCall, Store, Check, Route, Tools, Save, Publish,
          Report, Fail, Raise, Crash, Renew, ledger, history
    <2>6. CASE (\E j \in Jobs : Request(j) \/ Cancel(j)) \/ Tick \/ Midnight \/ UNCHANGED vars
      BY <2>4, <2>6 DEF Request, Cancel, Tick, Midnight, vars, ledger, history
    <2> QED
      BY <2>2, <2>3, <2>4, <2>5, <2>6 DEF Next
  <1> QED
    BY <1>2, <1>3

LEMMA MoneyInvAlways == Spec => [](ResearchInv /\ MoneyInv)
PROOF
  <1>1. Init => ResearchInv /\ MoneyInv
    BY ResearchInvInit, MoneyInvInit
  <1>2. ResearchInv /\ MoneyInv /\ [Next]_vars => (ResearchInv /\ MoneyInv)'
    BY ResearchInvNext, MoneyInvNext
  <1> QED
    BY <1>1, <1>2, PTL DEF Spec

(***************************************************************************)
(* Every period's counter is the sum over the calls that were charged to   *)
(* it, of the allocation or of the settled cost, for any number of runs,   *)
(* days and calls (UsageLedger.reserve and complete).                      *)
(***************************************************************************)
THEOREM BudgetAddsUp == Spec => []BudgetIsTheSum
PROOF
  <1>1. MoneyInv => BudgetIsTheSum
    BY DEF MoneyInv
  <1> QED
    BY <1>1, MoneyInvAlways, PTL

(***************************************************************************)
(* What the provider charged stays within every limit, each call counted   *)
(* up to its allocation, whatever was lost between the request and its     *)
(* settlement: until it is settled a call holds its whole allocation       *)
(* (UsageLedger.reserve), and no crash gives that back.                    *)
(***************************************************************************)
THEOREM ChargesWithinLimits == Spec => []SpendWithinLimits
PROOF
  <1>1. ResearchInv /\ MoneyInv => SpendWithinLimits
    <2> SUFFICES ASSUME ResearchInv, MoneyInv, NEW p \in Periods
                 PROVE  SumOf(Kept, Charged(p)) <= Limit(p)
      BY DEF SpendWithinLimits
    <2> DEFINE S == Charged(p)
    <2>1. IsFiniteSet(S) /\ SumOf(Held, S) <= Limit(p) /\ Limit(p) \in Int
      BY ChargedFinite, LimitsNat DEF MoneyInv, HeldWithinLimits
    <2>2. \A c \in S : Kept[c] \in Int /\ Held[c] \in Int /\ Kept[c] <= Held[c]
      BY Amounts DEF ResearchInv, MoneyInv, Charged
    <2> HIDE DEF S
    <2>3. SumOf(Kept, S) <= SumOf(Held, S)
      BY <2>1, <2>2, SumMonotone
    <2>4. SumOf(Kept, S) \in Int /\ SumOf(Held, S) \in Int
      BY <2>1, <2>2, SumInt
    <2>5. SumOf(Kept, S) <= Limit(p)
      BY <2>1, <2>3, <2>4
    <2> QED
      BY <2>5 DEF S
  <1> QED
    BY <1>1, MoneyInvAlways, PTL

\* The artifacts of the store are of calls and runs.
ArtifactsNamed == answer \subseteq CallIds /\ published \subseteq Jobs

LEMMA ArtifactsNamedNext == ResearchInv /\ ArtifactsNamed /\ [Next]_vars => ArtifactsNamed'
PROOF
  <1> SUFFICES ASSUME ResearchInv, ArtifactsNamed, [Next]_vars PROVE ArtifactsNamed'
    OBVIOUS
  <1>1. CASE UNCHANGED <<answer, published>>
    BY <1>1 DEF ArtifactsNamed
  <1>2. ASSUME NEW w \in Workers, Store(w)
        PROVE  ArtifactsNamed'
    <2>1. MyCall(w) \in CallIds
      BY <1>2, WorkerShape DEF Store, At, InCall
    <2> QED
      BY <1>2, <2>1 DEF Store, ArtifactsNamed
  <1>3. ASSUME NEW w \in Workers, Publish(w)
        PROVE  ArtifactsNamed'
    <2>1. worker[w].job \in Jobs
      BY <1>3, WorkerShape DEF Publish, At
    <2> QED
      BY <1>3, <2>1 DEF Publish, ArtifactsNamed
  <1>4. CASE (\E j \in Jobs : Request(j) \/ Cancel(j)) \/ Tick \/ Midnight \/ UNCHANGED vars
    BY <1>1, <1>4 DEF Request, Cancel, Tick, Midnight, store, vars
  <1>5. ASSUME NEW w \in Workers,
               \/ WorkerStep(w) /\ ~Store(w) /\ ~Publish(w)
               \/ Raise(w) \/ Crash(w) \/ Renew(w)
        PROVE  UNCHANGED <<answer, published>>
    BY <1>5 DEF WorkerStep, Claim, GiveUp, Enter, ReserveCall, Send, Settle, Check, Route,
                Tools, Save, Report, Fail, Raise, Crash, Renew, store
  <1> QED
    BY <1>1, <1>2, <1>3, <1>4, <1>5 DEF Next

(***************************************************************************)
(* The job table, the ledger, the store and the memory of every worker     *)
(* keep their types; in particular no counter of a period goes below zero, *)
(* however late and however cheap the calls are that complete settles.     *)
(***************************************************************************)
THEOREM ResearchTypeCorrect == Spec => []TypeOK
PROOF
  <1>1. Init => ArtifactsNamed
    BY DEF Init, ArtifactsNamed
  <1>2. ResearchInv /\ MoneyInv /\ ArtifactsNamed => TypeOK
    <2> SUFFICES ASSUME ResearchInv, MoneyInv, ArtifactsNamed PROVE TypeOK
      OBVIOUS
    <2>1. ASSUME NEW p \in Periods PROVE budget[p] \in Nat
      <3> DEFINE S == Charged(p)
      <3>1. IsFiniteSet(S) /\ \A c \in S : Charge[c] \in Nat
        BY ChargedFinite, Amounts DEF ResearchInv, MoneyInv, Charged
      <3>2. budget[p] = SumOf(Charge, S)
        BY DEF MoneyInv, BudgetIsTheSum
      <3> HIDE DEF S
      <3> QED
        BY <3>1, <3>2, SumNat
    <2>2. budget \in [Periods -> Nat]
      BY <2>1 DEF MoneyInv
    <2>3. spent \in [CallIds -> Nat]
      BY DEF MoneyInv, CostsKnown
    <2> QED
      BY <2>2, <2>3 DEF ResearchInv, Types, ArtifactsNamed, TypeOK
  <1> QED
    BY <1>1, <1>2, ArtifactsNamedNext, MoneyInvAlways, PTL DEF Spec
=============================================================================
