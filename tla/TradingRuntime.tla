--------------------------- MODULE TradingRuntime ---------------------------
(***************************************************************************)
(* The event loop of a paper deployment: TradingRuntime.process            *)
(* (execution/runtime.py under src/qt) with the history that               *)
(* NativeEventStrategy (strategies/native_bridge.py) keeps, on top of the  *)
(* order management of execution/oms.py.                                   *)
(*                                                                         *)
(* A runtime receives a bar, claims the account's lease, finishes the step *)
(* at the head of the deployment, lets the strategy decide, saves the step *)
(* (its orders and the strategy's state) and only then carries it out.     *)
(* Several runtimes may be started for one deployment, each may be stalled *)
(* anywhere, crash and come back as a new instance; nothing but the lease  *)
(* and the head row serialises them.                                       *)
(*                                                                         *)
(* What the strategy decides is a choice: a bar gives at most one order    *)
(* (native_live_multileg_intent_not_supported).  Inside reserve and submit *)
(* only the steps that this loop can tell apart are kept; module OMS has   *)
(* the rest.                                                               *)
(***************************************************************************)
EXTENDS Integers, FiniteSets

CONSTANTS
    Events,      \* the received bars, numbered in the order of receipt
    Bar,         \* the bar an event is about
    Deciding,    \* the events on which the strategy may give an order
    Sells,       \* the events whose order sells
    Expiring,    \* the events whose order may pass its valid_until
    Runtimes,    \* processes
    NoEvent

ASSUME RuntimeAssumption ==
    /\ Events \subseteq Nat \ {0} /\ IsFiniteSet(Events)
    /\ Bar \in [Events -> Nat]
    /\ Deciding \subseteq Events /\ Sells \subseteq Events /\ Expiring \subseteq Events
    /\ {"free", "dead"} \intersect Runtimes = {}
    /\ NoEvent \notin Events

VARIABLES
    step,      \* trading_step artifacts
    complete,  \* events with a trading_step_complete artifact
    head,      \* runtime_health row of the deployment: the last step
    order,     \* status of the order of an event
    late,      \* orders past their valid_until
    sent,      \* history: how often an order was given to the adapter
    mode,      \* accounts.mode
    lease,     \* the live lease of the account: its holder, or "free", or
               \* "dead" when its holder's instance is gone
    rt         \* the memory of each runtime

table == <<step, complete, head>>
account == <<order, late, sent, mode>>
vars == <<step, complete, head, order, late, sent, mode, lease, rt>>

NoStep == [saved |-> FALSE, rows |-> {}, intent |-> FALSE]
Uncertain == {"SUBMITTING", "UNKNOWN"}
OrderStatus == {"none", "RESERVED", "DONE", "UNSENT"} \union Uncertain
Modes == {"ACTIVE", "REDUCE_ONLY", "HALTED"}
Places == {"idle", "claimed", "execute", "submit", "sending", "answer", "finish",
           "decide", "checkpoint", "halted"}

\* A new instance: no token, no head, an empty strategy.
Fresh == [pc |-> "idle", token |-> "none", restored |-> FALSE, head |-> NoEvent, rows |-> {},
          event |-> NoEvent, step |-> NoEvent, again |-> FALSE, intent |-> FALSE]

\* token: of no claim, of the account's live claim, or of an earlier one.
Memory == [pc : Places, token : {"none", "held", "lost"}, restored : BOOLEAN,
           head : Events \union {NoEvent}, rows : SUBSET Events,
           event : Events \union {NoEvent},   \* the event in process
           step : Events \union {NoEvent},    \* the step that is carried out
           again : BOOLEAN,                   \* the event is decided after it
           intent : BOOLEAN]                  \* the strategy gave an order

\* The type invariant.
TypeOK ==
    /\ step \in [Events -> [saved : BOOLEAN, rows : SUBSET Events, intent : BOOLEAN]]
    /\ complete \subseteq Events
    /\ head \in Events \union {NoEvent}
    /\ order \in [Events -> OrderStatus]
    /\ late \subseteq Events
    /\ sent \in [Events -> Nat]
    /\ mode \in Modes
    /\ lease \in Runtimes \union {"free", "dead"}
    /\ rt \in [Runtimes -> Memory]

Init ==
    /\ step = [e \in Events |-> NoStep]
    /\ complete = {}
    /\ head = NoEvent
    /\ order = [e \in Events |-> "none"]
    /\ late = {}
    /\ sent = [e \in Events |-> 0]
    /\ mode = "ACTIVE"
    /\ lease = "free"
    /\ rt = [r \in Runtimes |-> Fresh]

Saved == {e \in Events : step[e].saved}
At(r, pc) == rt[r].pc = pc
Goto(r, pc) == rt' = [rt EXCEPT ![r].pc = pc]
Step(r) == rt[r].step

\* Variant: the token is known, the expiry is not looked at.
HasLeaseOnce(r) == rt[r].token # "none"

\* TradingRuntime._lease and OMS._lease.
HasLease(r) == lease = r /\ rt[r].token = "held"

\* The account takes the order of the step (OMS._submit, RiskGuard.check).
ModeAllows(e) == mode = "ACTIVE" \/ (mode = "REDUCE_ONLY" /\ e \in Sells)
OthersResolved(e) == \A f \in Events \ {e} : order[f] \notin Uncertain

\* _halt: no more events in this instance, and the account stops.
Halt(r) == rt' = [rt EXCEPT ![r] = [Fresh EXCEPT !.pc = "halted"]] /\ mode' = "HALTED"

\* process returns; the attributes of the instance stay.
Idle(m) == [Fresh EXCEPT !.token = m.token, !.restored = m.restored,
                         !.head = m.head, !.rows = m.rows]
\* It answers "blocked" and waits for the next event.
Block(r) == rt' = [rt EXCEPT ![r] = Idle(@)]

\* The step is done; a recovered one is followed by the event itself.
AfterStep(r) ==
    rt' = [rt EXCEPT ![r] = IF @.again THEN [@ EXCEPT !.pc = "decide"] ELSE Idle(@)]

-----------------------------------------------------------------------------
(***************************************************************************)
(* process, up to the strategy.                                            *)
(***************************************************************************)

\* Stale or untrusted market data halt the account before any claim.
Distrust(r) ==
    /\ At(r, "idle")
    /\ Halt(r)
    /\ UNCHANGED <<table, order, late, sent, lease>>

\* Variant: a token that changed is taken over.
ReceiveWithAnyToken(r, e) ==
    /\ At(r, "idle")
    /\ lease \in {"free", r}
    /\ lease' = r
    /\ rt' = [rt EXCEPT ![r] = [@ EXCEPT !.pc = "claimed", !.event = e, !.token = "held"]]
    /\ UNCHANGED <<table, account>>

\* OMS.claim_account renews the claim of this instance or takes an expired
\* one with a new token; a token that changed blocks the instance for good.
Receive(r, e) ==
    /\ At(r, "idle")
    /\ lease \in {"free", r}
    /\ lease' = r
    /\ IF rt[r].token = "lost"
       THEN UNCHANGED rt
       ELSE rt' = [rt EXCEPT ![r] = [@ EXCEPT !.pc = "claimed", !.event = e, !.token = "held"]]
    /\ UNCHANGED <<table, account>>

\* Variant: the head gives the strategy's state, its step is taken for done.
SyncStateOnly(r) ==
    /\ At(r, "claimed")
    /\ \A e \in Events : order[e] \notin Uncertain
    /\ rt' = [rt EXCEPT ![r] =
         [@ EXCEPT !.restored = TRUE,
                   !.head = IF rt[r].restored THEN rt[r].head ELSE head,
                   !.rows = IF rt[r].restored THEN rt[r].rows
                            ELSE IF head = NoEvent THEN {} ELSE step[head].rows,
                   !.step = head,
                   !.again = TRUE,
                   !.pc = "decide"]]
    /\ UNCHANGED <<table, account, lease>>

\* The account is reconciled, which fails while an order is uncertain; a new
\* instance restores the strategy from the head; the head step comes first.
Sync(r) ==
    /\ At(r, "claimed")
    /\ \A e \in Events : order[e] \notin Uncertain
    /\ rt' = [rt EXCEPT ![r] =
         [@ EXCEPT !.restored = TRUE,
                   !.head = IF rt[r].restored THEN rt[r].head ELSE head,
                   !.rows = IF rt[r].restored THEN rt[r].rows
                            ELSE IF head = NoEvent THEN {} ELSE step[head].rows,
                   !.step = head,
                   !.again = TRUE,
                   !.pc = IF head = NoEvent THEN "decide" ELSE "execute"]]
    /\ UNCHANGED <<table, account, lease>>

-----------------------------------------------------------------------------
(***************************************************************************)
(* _execute.                                                               *)
(***************************************************************************)

Duplicate(r) ==
    /\ At(r, "execute") /\ Step(r) \in complete
    /\ AfterStep(r)
    /\ UNCHANGED <<table, account, lease>>

\* No order, or one that expired before it was ever reserved.
NothingToSend(r) ==
    /\ At(r, "execute") /\ Step(r) \notin complete
    /\ ~step[Step(r)].intent \/ (order[Step(r)] = "none" /\ Step(r) \in late)
    /\ Goto(r, "finish")
    /\ UNCHANGED <<table, account, lease>>

ToReserve(r) ==
    /\ At(r, "execute") /\ Step(r) \notin complete /\ step[Step(r)].intent
    /\ order[Step(r)] = "none" => Step(r) \notin late

\* OMS.reserve, which asks for no lease: a known order is left as it is.
Reserve(r) ==
    /\ ToReserve(r) /\ ModeAllows(Step(r))
    /\ order' = [order EXCEPT ![Step(r)] = IF @ = "none" THEN "RESERVED" ELSE @]
    /\ Goto(r, "submit")
    /\ UNCHANGED <<table, late, sent, mode, lease>>

\* RiskBudgetExceededError: the step ends as "blocked", a known order or not.
ReserveBlocked(r) ==
    /\ ToReserve(r)
    /\ \/ ~ModeAllows(Step(r)) /\ UNCHANGED mode
       \/ ModeAllows(Step(r)) /\ order[Step(r)] = "none" /\ mode' = "REDUCE_ONLY"
    /\ Goto(r, "finish")
    /\ UNCHANGED <<table, order, late, sent, lease>>

\* OMS.submit up to the durable SUBMITTING.
Submit(r) ==
    LET e == Step(r) IN
    /\ At(r, "submit")
    /\ \/ /\ ~HasLease(r)
          /\ order[e] = "RESERVED" => e \in late \/ ModeAllows(e)
          /\ Block(r) /\ UNCHANGED <<order, mode>>
       \/ /\ HasLease(r) /\ order[e] = "RESERVED" /\ e \notin late
          /\ ModeAllows(e) /\ OthersResolved(e)
          /\ order' = [order EXCEPT ![e] = "SUBMITTING"]
          /\ Goto(r, "sending") /\ UNCHANGED mode
       \/ /\ HasLease(r) /\ order[e] = "RESERVED" /\ e \in late
          /\ order' = [order EXCEPT ![e] = "UNSENT"]
          /\ Goto(r, "finish") /\ UNCHANGED mode
       \/ /\ HasLease(r) /\ order[e] \in {"DONE", "UNSENT"}
          /\ Goto(r, "finish") /\ UNCHANGED <<order, mode>>
       \/ HasLease(r) /\ order[e] \in Uncertain /\ Halt(r) /\ UNCHANGED order
    /\ UNCHANGED <<table, late, sent, lease>>

\* The recheck before the side effect, and the side effect.
Send(r) ==
    LET e == Step(r) IN
    /\ At(r, "sending")
    /\ \/ /\ ~HasLease(r)
          /\ order' = [order EXCEPT ![e] = IF @ = "SUBMITTING" THEN "UNKNOWN" ELSE @]
          /\ Halt(r) /\ UNCHANGED sent
       \/ /\ HasLease(r) /\ (~ModeAllows(e) \/ e \in late)
          /\ order' = [order EXCEPT ![e] = "UNSENT"]
          /\ mode' = IF e \in late THEN "HALTED" ELSE mode
          /\ Goto(r, "finish") /\ UNCHANGED sent
       \/ /\ HasLease(r) /\ ModeAllows(e) /\ e \notin late
          /\ sent' = [sent EXCEPT ![e] = @ + 1]
          /\ Goto(r, "answer") /\ UNCHANGED <<order, mode>>
    /\ UNCHANGED <<table, late, lease>>

\* The answer: recorded under the lease, or the order stays SUBMITTING; no
\* answer makes it UNKNOWN, lease or not.
Answer(r) ==
    LET e == Step(r) IN
    /\ At(r, "answer")
    /\ \/ /\ HasLease(r)
          /\ order' = [order EXCEPT ![e] = "DONE"]
          /\ Goto(r, "finish") /\ UNCHANGED mode
       \/ ~HasLease(r) /\ Block(r) /\ UNCHANGED <<order, mode>>
       \/ /\ order' = [order EXCEPT ![e] = IF @ = "SUBMITTING" THEN "UNKNOWN" ELSE @]
          /\ Halt(r)
    /\ UNCHANGED <<table, late, sent, lease>>

\* _put_fenced of trading_step_complete.
Finish(r) ==
    /\ At(r, "finish")
    /\ IF HasLease(r)
       THEN complete' = complete \union {Step(r)} /\ AfterStep(r)
       ELSE Block(r) /\ UNCHANGED complete
    /\ UNCHANGED <<step, head, account, lease>>

-----------------------------------------------------------------------------
(***************************************************************************)
(* process, from the strategy on.                                          *)
(***************************************************************************)

\* The event was saved before: its step is carried out again.
Replay(r) ==
    /\ At(r, "decide") /\ rt[r].event \in Saved
    /\ rt' = [rt EXCEPT ![r] = [@ EXCEPT !.step = rt[r].event, !.again = FALSE, !.pc = "execute"]]
    /\ UNCHANGED <<table, account, lease>>

\* NativeEventStrategy.on_event: a bar that is not newer than the history is
\* skipped, the next one is appended and may give an order, a gap is an error.
Known(r) == {Bar[f] : f \in rt[r].rows}
Skipped(r, e) == \E b \in Known(r) : Bar[e] <= b
Follows(r, e) == Known(r) = {} \/ (Bar[e] - 1 \in Known(r) /\ ~Skipped(r, e))

\* on_event changes the strategy in memory; _intents then reads the position
\* under the lease, and refuses to size an order while one is uncertain.
Decide(r) ==
    LET e == rt[r].event IN
    /\ At(r, "decide") /\ e \notin Saved
    /\ rt[r].step # NoEvent => e > rt[r].step
    /\ \/ /\ Skipped(r, e)
          /\ rt' = [rt EXCEPT ![r] = [@ EXCEPT !.intent = FALSE, !.pc = "checkpoint"]]
       \/ /\ Follows(r, e)
          /\ rt' = [rt EXCEPT ![r] =
                [@ EXCEPT !.rows = rt[r].rows \union {e}, !.intent = FALSE, !.pc = "checkpoint"]]
       \/ /\ Follows(r, e) /\ e \in Deciding
          /\ \A f \in Events : order[f] \notin Uncertain
          /\ LET m == [rt[r] EXCEPT !.rows = rt[r].rows \union {e}] IN
             rt' = [rt EXCEPT ![r] = IF HasLease(r)
                                     THEN [m EXCEPT !.intent = TRUE, !.pc = "checkpoint"]
                                     ELSE Idle(m)]
    /\ UNCHANGED <<table, account, lease>>

\* Variant: the head row is not compared.
CheckpointUncompared(r) ==
    LET e == rt[r].event IN
    /\ At(r, "checkpoint")
    /\ step' = [step EXCEPT ![e] =
           [saved |-> TRUE, rows |-> rt[r].rows, intent |-> rt[r].intent]]
    /\ head' = e
    /\ rt' = [rt EXCEPT ![r] =
           [@ EXCEPT !.head = e, !.step = e, !.again = FALSE, !.pc = "execute"]]
    /\ UNCHANGED <<complete, account, lease>>

\* _checkpoint: under the lease and onto the head this instance knows.
Checkpoint(r) ==
    LET e == rt[r].event IN
    /\ At(r, "checkpoint")
    /\ IF HasLease(r) /\ head = rt[r].head
       THEN /\ step' = [step EXCEPT ![e] =
                   [saved |-> TRUE, rows |-> rt[r].rows, intent |-> rt[r].intent]]
            /\ head' = e
            /\ rt' = [rt EXCEPT ![r] =
                   [@ EXCEPT !.head = e, !.step = e, !.again = FALSE, !.pc = "execute"]]
       ELSE Block(r) /\ UNCHANGED <<step, head>>
    /\ UNCHANGED <<complete, account, lease>>

\* Any ValueError, KeyError, SQLAlchemyError or other Conflict of process: an
\* event older than the head, a gap in the bars, a mode or a market that
\* refuses, a reconciliation that is not complete.
Fail(r) ==
    /\ rt[r].pc \in {"claimed", "execute", "submit", "finish", "decide", "checkpoint"}
    /\ Halt(r)
    /\ UNCHANGED <<table, order, late, sent, lease>>

\* The process ends anywhere and starts as a new instance with a new owner.
Restart(r) ==
    /\ rt[r] # Fresh
    /\ rt' = [rt EXCEPT ![r] = Fresh]
    /\ lease' = IF lease = r THEN "dead" ELSE lease
    /\ UNCHANGED <<table, account>>

-----------------------------------------------------------------------------
(***************************************************************************)
(* Everybody else.                                                         *)
(***************************************************************************)

LeaseExpires ==
    /\ lease # "free"
    /\ lease' = "free"
    /\ rt' = [r \in Runtimes |->
          IF HasLease(r) THEN [rt[r] EXCEPT !.token = "lost"] ELSE rt[r]]
    /\ UNCHANGED <<table, account>>

\* valid_until of the order of event e passes.
Expire(e) ==
    /\ e \in Expiring \ late
    /\ late' = late \union {e}
    /\ UNCHANGED <<table, order, sent, mode, lease, rt>>

\* The reconciliation job learns what became of an order that was sent.
Resolve(e) ==
    /\ order[e] \in Uncertain /\ sent[e] > 0
    /\ order' = [order EXCEPT ![e] = "DONE"]
    /\ UNCHANGED <<table, late, sent, mode, lease, rt>>

\* The watchdog tightens the mode; the operator reactivates a resolved account.
Watchdog ==
    /\ mode' \in {"REDUCE_ONLY", "HALTED"}
    /\ mode = "HALTED" => mode' = "HALTED"
    /\ UNCHANGED <<table, order, late, sent, lease, rt>>

Reactivate ==
    /\ \A e \in Events : order[e] \notin Uncertain
    /\ mode' = "ACTIVE"
    /\ UNCHANGED <<table, order, late, sent, lease, rt>>

Execute(r) ==
    Duplicate(r) \/ NothingToSend(r) \/ Reserve(r) \/ ReserveBlocked(r) \/ Submit(r)
    \/ Send(r) \/ Answer(r) \/ Finish(r)

Process(r) ==
    Sync(r) \/ Execute(r) \/ Replay(r) \/ Decide(r) \/ Checkpoint(r)

Next ==
    \/ \E r \in Runtimes :
          \/ \E e \in Events : Receive(r, e)
          \/ Process(r) \/ Distrust(r) \/ Fail(r) \/ Restart(r)
    \/ \E e \in Events : Expire(e) \/ Resolve(e)
    \/ Watchdog \/ Reactivate \/ LeaseExpires

Spec == Init /\ [][Next]_vars

-----------------------------------------------------------------------------
(***************************************************************************)
(* Properties.                                                             *)
(***************************************************************************)

\* Every bar in a saved strategy state was received in a saved step, and the
\* state of a later step has it too: a process that lost its lease, or whose
\* checkpoint failed after on_event, brings no bar into the history that is
\* not on record, and loses none (the lease and the head in _checkpoint, the
\* token in process).
HistoryOnRecord ==
    \A e \in Saved :
        /\ step[e].rows \subseteq Saved
        /\ \A f \in Saved : f <= e /\ f \in step[f].rows => f \in step[e].rows

\* At most one step of a deployment is under way, the one at the head: a new
\* decision is never saved over an unfinished one ("recovery completed the
\* prior checkpoint first", tests/test_trading_runtime.py).
OnlyHeadUnfinished == \A e \in Saved : e # head => e \in complete

\* A bar gives one order only, although every process and every connection
\* receives it as an event of its own.
OneOrderPerBar ==
    \A e, f \in Saved :
        step[e].intent /\ step[f].intent /\ Bar[e] = Bar[f] => e = f

\* An order is sent at most once, and only as its step had decided it before:
\* the step is on record (the module's "before any venue effect").
SentAsSaved == \A e \in Events : sent[e] > 0 => sent[e] = 1 /\ step[e].saved /\ step[e].intent

\* What is given to the adapter is the order of the last decision: a process
\* that was stalled does not send after a later bar was decided.
SendsAtHead == [][\A e \in Events : sent'[e] # sent[e] => e = head]_vars

-----------------------------------------------------------------------------
\* docs/production-v4-implementation.md, item 4 of the trading rules: the
\* strategy's state, the checkpoint and the original orders are recovered
\* together.  A step that was recovered leaves no order behind.
CompletedLeavesNoReservation == \A e \in complete : order[e] # "RESERVED"
=============================================================================
