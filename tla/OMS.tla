-------------------------------- MODULE OMS --------------------------------
(***************************************************************************)
(* The order management system (src/qt/execution/oms.py): processes that   *)
(* call reserve, submit, cancel, query and reconcile on one account, the   *)
(* execution lease between them, and the venue they talk to.               *)
(*                                                                         *)
(* Every repository transaction takes the account row lock first and is    *)
(* one action.  Between the transactions of one call the process keeps     *)
(* only what its record in "at" and "view" holds; other processes, the     *)
(* venue, the watchdog and the operator run in between, the lease may      *)
(* expire, and the process may crash.                                      *)
(*                                                                         *)
(* The venue and the network are not part of the repository.  They are     *)
(* modelled from the ExecutionAdapter contract: a request arrives once,    *)
(* late or never; an answer is truthful, but may be lost; what a query or  *)
(* reconcile returns was true when it was read.                            *)
(***************************************************************************)
EXTENDS TradingAccount

CONSTANTS
    Procs,          \* processes that hold an OMS object
    Calls,          \* the calls clients make in this instance
    MayExpire,      \* orders whose validity may end in this instance
    Settlements,    \* settlement statuses the venue reports
    OperatorModes,  \* modes the operator sets
    None            \* no order, no lease holder

ASSUME OMSAssumption ==
    /\ IsFiniteSet(Procs)
    /\ Calls \subseteq {"submit", "cancel", "query", "reconcile", "operator",
                        "watchdog", "release", "crash"}
    /\ MayExpire \subseteq Orders
    /\ Settlements \subseteq SettlementStatus
    /\ OperatorModes \subseteq Modes
    /\ None \notin Orders \union Procs

VARIABLES
    lease,      \* accounts.lease_token and lease_until_ns
    at,         \* where each process is in its current call
    view,       \* what a process read from the venue and has not applied yet
    venue,      \* the venue's record of each order
    wire,       \* submissions on their way to the venue
    cancelReq,  \* cancellations on their way to the venue
    sends       \* history: how often each order was given to the adapter

account == <<mode, wallet, orderRows, expired, heads>>
external == <<venue, wire, cancelReq, sends>>
vars == <<account, lease, at, view, external>>

Idle == [pc |-> "idle", order |-> None, answer |-> "none", todo |-> {}]
Unknown == [state |-> "NONE", filled |-> 0]
NoView == [of |-> [i \in Orders |-> Unknown], old |-> {}, gone |-> {}, after |-> {}]

PC == {"idle", "reserve", "claim", "recheck", "send", "await", "settle", "doubt",
       "canceling", "settleCancel", "ingest", "queried", "stop"}
Answers == {"none", "accepted", "confirmed", "rejected", "unknown",
            "SUBMITTING", "CANCEL_PENDING", "any"}
VenueState == {"NONE", "OPEN", "FILLED", "CANCELED", "REJECTED"}
Ended == {"FILLED", "CANCELED", "REJECTED"}
VenueOrder == [state : VenueState, filled : Nat]

TypeOK ==
    /\ TypeOKAccount
    /\ lease \in [holder : Procs \union {None}, live : BOOLEAN]
    /\ at \in [Procs -> [pc : PC, order : Orders \union {None},
                         answer : Answers, todo : SUBSET Orders]]
    /\ view \in [Procs -> [of : [Orders -> VenueOrder], old : SUBSET Orders,
                           gone : SUBSET Orders, after : SUBSET Procs]]
    /\ venue \in [Orders -> VenueOrder]
    /\ wire \subseteq Orders
    /\ cancelReq \subseteq Orders
    /\ sends \in [Orders -> Nat]

Init ==
    /\ InitAccount
    /\ lease = [holder |-> None, live |-> FALSE]
    /\ at = [p \in Procs |-> Idle]
    /\ view = [p \in Procs |-> NoView]
    /\ venue = [i \in Orders |-> Unknown]
    /\ wire = {}
    /\ cancelReq = {}
    /\ sends = [i \in Orders |-> 0]

-----------------------------------------------------------------------------
(* Processes and their views.                                              *)

Free(p) == at[p].pc = "idle"
At(p, pc) == at[p].pc = pc
Go(p, pc, i, a) == at' = [at EXCEPT ![p] = [pc |-> pc, order |-> i, answer |-> a, todo |-> {}]]
Finish(p) == at' = [at EXCEPT ![p] = Idle]

\* OMS._lease: the token of process p is the row's and has not expired.
HasLease(p) == lease.live /\ lease.holder = p

Reading(p) == at[p].pc \in {"ingest", "queried"}

\* updated_ns of order i is set: what others read of it is older now.
Touch(i) ==
    view' = [q \in Procs |-> IF Reading(q) THEN [view[q] EXCEPT !.old = @ \union {i}]
                             ELSE view[q]]

\* Process p read the venue just now, after every other process that holds a view.
Look(p) ==
    view' = [q \in Procs |-> IF q = p THEN [NoView EXCEPT !.of = venue]
                             ELSE IF Reading(q) THEN [view[q] EXCEPT !.after = @ \union {p}]
                             ELSE view[q]]

\* Process p forgets its view.
Forget(p) == view' = [q \in Procs |-> IF q = p THEN NoView
                                      ELSE [view[q] EXCEPT !.after = @ \ {p}]]

-----------------------------------------------------------------------------
(* claim_account, and the expiry of the lease.                             *)

ClaimLease(p) ==
    /\ Free(p)
    /\ lease.live => lease.holder = p
    /\ lease' = [holder |-> p, live |-> TRUE]
    /\ UNCHANGED <<account, at, view, external>>

LeaseExpires ==
    /\ lease.live
    /\ lease' = [lease EXCEPT !.live = FALSE]
    /\ UNCHANGED <<account, at, view, external>>

-----------------------------------------------------------------------------
(* reserve: a risk check, then _reserve in a transaction of its own.       *)

\* The risk check of reserve and submit; the call goes on at pc when it passes.
Checked(p, i, v, old, pc) ==
    /\ Current(i)
    /\ mode' = Report(v, old)
    /\ IF Discarded(v) \/ mode' = "HALTED" \/ (mode' # "ACTIVE" /\ i \in Buys)
       THEN UNCHANGED at
       ELSE Go(p, pc, i, "none")
    /\ UNCHANGED <<wallet, orderRows, expired, heads, lease, view, external>>

CheckReserve(p, i, v, old) ==
    /\ Free(p)
    /\ status[i] = "NEW"
    /\ Checked(p, i, v, old, "reserve")

Reserve(p, v, old) ==
    LET i == at[p].order IN
    /\ At(p, "reserve")
    /\ status[i] = "NEW"
    /\ Current(i) /\ i \notin expired /\ v # "stale"
    /\ RiskAccepted(i, v, old)
    /\ OthersResolved(i) /\ ModeAllows(i) /\ ~NegativeWallet
    /\ Affordable(i)
    /\ ReserveRow(i)
    /\ Finish(p)
    /\ UNCHANGED <<mode, expired, heads, lease, view, external>>

\* RiskBudgetExceededError: reserve and submit latch a stop before they raise.
ReserveOverBudget(p, v, old) ==
    LET i == at[p].order IN
    /\ At(p, "reserve")
    /\ status[i] = "NEW"
    /\ Current(i) /\ i \notin expired /\ v # "stale"
    /\ RiskExceeded(i, v, old)
    /\ Go(p, "stop", i, "none")
    /\ UNCHANGED <<account, lease, view, external>>

\* Any other refusal of _reserve: limits, versions, precision, mode, cash.
ReserveRefused(p) ==
    /\ At(p, "reserve")
    /\ Finish(p)
    /\ UNCHANGED <<account, lease, view, external>>

StopNewRisk(p) ==
    /\ At(p, "stop")
    /\ mode' = Stopped("REDUCE_ONLY")
    /\ Finish(p)
    /\ UNCHANGED <<wallet, orderRows, expired, heads, lease, view, external>>

-----------------------------------------------------------------------------
(* submit: risk check, claim, recheck, send, and the result.               *)

\* An intent that expired or was submitted before (a retry) goes to _submit
\* without a risk check.
CheckSubmit(p, i, v, old) ==
    /\ "submit" \in Calls
    /\ Free(p)
    /\ status[i] # "NEW"
    /\ IF status[i] = "RESERVED" /\ i \notin expired
       THEN Checked(p, i, v, old, "claim")
       ELSE /\ Go(p, "claim", i, "none")
            /\ UNCHANGED <<account, lease, view, external>>

\* submit finds no market it can trust, neither published nor marked.
NoTrustedMarket(p, i) ==
    /\ "submit" \in Calls
    /\ Free(p)
    /\ status[i] = "RESERVED" /\ i \notin expired
    /\ mode' = Stopped("HALTED")
    /\ UNCHANGED <<wallet, orderRows, expired, heads, lease, at, view, external>>

\* Variant: after a crash the submission is simply repeated.
ClaimableAgain(i) == status[i] \in {"RESERVED", "SUBMITTING"}

\* _submit reads the row again under the account lock.
Claimable(i) == status[i] = "RESERVED"

MaySubmit(p) == HasLease(p) /\ Current(at[p].order) /\ Claimable(at[p].order)

\* The compare-and-swap to SUBMITTING; a shadow deployment ends here instead.
ClaimOrder(p, v, old) ==
    LET i == at[p].order IN
    /\ At(p, "claim")
    /\ MaySubmit(p)
    /\ i \notin expired
    /\ ModeAllows(i) /\ RiskAccepted(i, v, old) /\ OthersResolved(i)
    /\ IF Dep[i] \in Shadow
       THEN /\ EndUnsent(i, "CANCELED")
            /\ Finish(p)
       ELSE /\ status' = [status EXCEPT ![i] = "SUBMITTING"]
            /\ Go(p, "recheck", i, "none")
            /\ UNCHANGED <<wallet, filled, res, settlement, trades, unsent>>
    /\ Touch(i)
    /\ UNCHANGED <<mode, expired, heads, lease, external>>

ClaimExpired(p) ==
    LET i == at[p].order IN
    /\ At(p, "claim")
    /\ MaySubmit(p)
    /\ i \in expired
    /\ EndUnsent(i, "EXPIRED")
    /\ Finish(p)
    /\ Touch(i)
    /\ UNCHANGED <<mode, expired, heads, lease, external>>

ClaimOverBudget(p, v, old) ==
    LET i == at[p].order IN
    /\ At(p, "claim")
    /\ MaySubmit(p)
    /\ i \notin expired /\ ModeAllows(i)
    /\ RiskExceeded(i, v, old)
    /\ Go(p, "stop", i, "none")
    /\ UNCHANGED <<account, lease, view, external>>

\* The lease, the head, the row, the mode or another order stands in the way.
ClaimRefused(p, v) ==
    LET i == at[p].order IN
    /\ At(p, "claim")
    /\ \/ ~MaySubmit(p)
       \/ /\ i \notin expired
          /\ ~ModeAllows(i) \/ (i \in Buys /\ Discarded(v)) \/ ~OthersResolved(i)
    /\ Finish(p)
    /\ UNCHANGED <<account, lease, view, external>>

\* Variant: the abort always writes the weaker stop.
AbortModeReduceOnly(i, v, old) == "REDUCE_ONLY"

(***************************************************************************)
(* abort_mode of the last preflight: an order that is not current or a     *)
(* market that cannot be trusted halts; a risk stop allows reductions.     *)
(***************************************************************************)
AbortMode(i, v, old) ==
    IF v = "stale" \/ i \in expired THEN "HALTED"
    ELSE IF RiskExceeded(i, v, old) THEN Stopped("REDUCE_ONLY")
    ELSE mode

Preflight(i, v, old) ==
    /\ v # "stale" /\ i \notin expired
    /\ ModeAllows(i)
    /\ RiskAccepted(i, v, old)

\* The last check before the side effect: fencing, head, row and risk again.
Recheck(p, v, old) ==
    LET i == at[p].order IN
    /\ At(p, "recheck")
    /\ IF ~HasLease(p) \/ ~Current(i)
       THEN /\ Go(p, "doubt", i, "SUBMITTING")
            /\ UNCHANGED <<mode, orderRows, wallet, view>>
       ELSE IF status[i] # "SUBMITTING"
       THEN /\ Finish(p)
            /\ UNCHANGED <<mode, orderRows, wallet, view>>
       ELSE IF Preflight(i, v, old)
       THEN /\ Go(p, "send", i, "none")
            /\ UNCHANGED <<mode, orderRows, wallet, view>>
       ELSE /\ EndUnsent(i, "CANCELED")
            /\ mode' = AbortMode(i, v, old)
            /\ Finish(p)
            /\ Touch(i)
    /\ UNCHANGED <<expired, heads, lease, external>>

\* adapter.submit: the request leaves the process.
SendOrder(p) ==
    LET i == at[p].order IN
    /\ At(p, "send")
    /\ wire' = wire \union {i}
    /\ sends' = [sends EXCEPT ![i] = @ + 1]
    /\ Go(p, "await", i, "none")
    /\ UNCHANGED <<account, lease, view, venue, cancelReq>>

\* The adapter raised before or after the request left, or the wait timed out.
SubmitRaises(p) ==
    /\ At(p, "send") \/ At(p, "await")
    /\ Go(p, "doubt", at[p].order, "SUBMITTING")
    /\ UNCHANGED <<account, lease, view, external>>

Accepts(i, a) ==
    \/ a = "accepted" /\ venue[i].state \notin {"NONE", "REJECTED"}
    \/ a = "rejected" /\ venue[i].state = "REJECTED"
    \/ a = "unknown"

SubmitAnswered(p, a) ==
    /\ At(p, "await")
    /\ Accepts(at[p].order, a)
    /\ Go(p, "settle", at[p].order, a)
    /\ UNCHANGED <<account, lease, view, external>>

\* The result is recorded under the lease, and only on a row nobody advanced.
RecordSubmit(p) ==
    LET i == at[p].order
        a == at[p].answer
    IN
    /\ At(p, "settle")
    /\ Finish(p)
    /\ IF HasLease(p) /\ status[i] = "SUBMITTING"
       THEN /\ IF a = "rejected"
               THEN Release(i, "REJECTED")
               ELSE /\ status' = [status EXCEPT ![i] = IF a = "accepted" THEN "ACKNOWLEDGED"
                                                       ELSE "UNKNOWN"]
                    /\ UNCHANGED <<res, reserved>>
            /\ mode' = IF a = "unknown" THEN "HALTED" ELSE mode
            /\ UNCHANGED <<quote, base, filled, settlement, trades, unsent>>
            /\ Touch(i)
       ELSE UNCHANGED <<mode, wallet, orderRows, view>>
    /\ UNCHANGED <<expired, heads, lease, external>>

\* OMS._uncertain; the row may have been resolved or closed meanwhile.
MarkUncertain(p) ==
    LET i == at[p].order
        expected == at[p].answer
    IN
    /\ At(p, "doubt")
    /\ Finish(p)
    /\ IF \/ status[i] \in Terminal
          \/ expected # "any" /\ status[i] \notin {expected, "UNKNOWN"}
       THEN UNCHANGED <<mode, status, view>>
       ELSE /\ status' = [status EXCEPT ![i] = "UNKNOWN"]
            /\ mode' = "HALTED"
            /\ Touch(i)
    /\ UNCHANGED <<wallet, filled, res, settlement, trades, unsent, expired, heads,
                   lease, external>>

-----------------------------------------------------------------------------
(* cancel                                                                  *)

\* An order that was not sent ends here; an open one asks the venue.
StartCancel(p, i) ==
    /\ "cancel" \in Calls
    /\ Free(p)
    /\ HasLease(p)
    /\ \/ /\ status[i] = "RESERVED"
          /\ EndUnsent(i, "CANCELED")
          /\ UNCHANGED <<at, cancelReq>>
       \/ /\ status[i] \in {"ACKNOWLEDGED", "PARTIALLY_FILLED"}
          /\ status' = [status EXCEPT ![i] = "CANCEL_PENDING"]
          /\ cancelReq' = cancelReq \union {i}
          /\ Go(p, "canceling", i, "none")
          /\ UNCHANGED <<wallet, filled, res, settlement, trades, unsent>>
    /\ Touch(i)
    /\ UNCHANGED <<mode, expired, heads, lease, venue, wire, sends>>

\* "rejected": the venue dealt with the request and the order did not end by it.
CancelAnswered(p, a) ==
    LET i == at[p].order IN
    /\ At(p, "canceling")
    /\ \/ a = "confirmed" /\ venue[i].state = "CANCELED"
       \/ a = "rejected" /\ i \notin cancelReq /\ venue[i].state # "CANCELED"
       \/ a = "unknown"
    /\ Go(p, "settleCancel", i, a)
    /\ UNCHANGED <<account, lease, view, external>>

CancelRaises(p) ==
    /\ At(p, "canceling")
    /\ Go(p, "doubt", at[p].order, "CANCEL_PENDING")
    /\ UNCHANGED <<account, lease, view, external>>

\* Variant: every answer but a refusal counts as a confirmation.
ConfirmedUnlessRejected(a) == a # "rejected"

Confirmed(a) == a = "confirmed"

RecordCancel(p) ==
    LET i == at[p].order
        a == at[p].answer
    IN
    /\ At(p, "settleCancel")
    /\ Finish(p)
    /\ IF ~HasLease(p) \/ status[i] # "CANCEL_PENDING"
       THEN UNCHANGED <<wallet, orderRows, view>>
       ELSE IF Confirmed(a)
       THEN /\ Release(i, "CANCELED")
            /\ UNCHANGED <<quote, base, filled, settlement, trades, unsent>>
            /\ Touch(i)
       ELSE /\ status' = [status EXCEPT ![i] =
                             IF a # "rejected" THEN @
                             ELSE IF filled[i] > 0 THEN "PARTIALLY_FILLED" ELSE "ACKNOWLEDGED"]
            /\ UNCHANGED <<wallet, filled, res, settlement, trades, unsent, view>>
    /\ UNCHANGED <<mode, expired, heads, lease, external>>

-----------------------------------------------------------------------------
(* reconcile and query                                                     *)

Known(x) == x.state # "NONE"

\* reconcile reads all fills and orders of the account; it needs no lease.
StartReconcile(p) ==
    /\ "reconcile" \in Calls
    /\ Free(p)
    /\ \E i \in Orders : Known(venue[i])
    /\ at' = [at EXCEPT ![p] = [pc |-> "ingest", order |-> None, answer |-> "none",
                                todo |-> {i \in Orders : Known(venue[i])}]]
    /\ Look(p)
    /\ UNCHANGED <<account, lease, external>>

\* The fills of the batch, before its first order snapshot.
IngestFill(p, i, k, s) ==
    /\ At(p, "ingest")
    /\ at[p].todo = {j \in Orders : Known(view[p].of[j])}
    /\ k \in 1..view[p].of[i].filled
    /\ ApplyFill(i, k, s)
    /\ IF Ingested(i, k) THEN UNCHANGED view ELSE Touch(i)
    /\ UNCHANGED <<expired, heads, lease, at, external>>

\* query reads one order; a venue that does not know it raises.
StartQuery(p, i) ==
    /\ "query" \in Calls
    /\ Free(p)
    /\ status[i] # "NEW"
    /\ \/ /\ Known(venue[i])
          /\ at' = [at EXCEPT ![p] = [pc |-> "queried", order |-> i, answer |-> "none",
                                      todo |-> {i}]]
          /\ Look(p)
       \/ /\ Go(p, "doubt", i, "any")
          /\ UNCHANGED view
    /\ UNCHANGED <<account, lease, external>>

\* The status the venue reports for an order it knows.
Reported(x) ==
    IF x.state # "OPEN" THEN x.state
    ELSE IF x.filled = 0 THEN "ACKNOWLEDGED" ELSE "PARTIALLY_FILLED"

\* stale_order_snapshot_ignored
StaleView(p, i) ==
    \/ i \in view[p].gone
    \/ view[p].of[i].filled < filled[i] /\ i \in view[p].old

\* Variant: an order whose outcome is unknown cannot be resolved either.
SnapshotRefusedWhenUnknown(i, x) ==
    \/ status[i] \in {"RESERVED", "UNKNOWN"}
    \/ x.filled # filled[i]
    \/ status[i] \in Terminal /\ Reported(x) # status[i]

\* The snapshot contradicts the row: _snapshot raises.
SnapshotRefused(i, x) ==
    \/ status[i] = "RESERVED"
    \/ x.filled # filled[i]
    \/ status[i] \in Terminal /\ Reported(x) # status[i]

\* An open order does not prove that its cancellation failed.
KeepsCancelPending(i, x) == status[i] = "CANCEL_PENDING" /\ Reported(x) \notin Terminal

\* The caller after order i of its view was dealt with.
PassOver(p, i) ==
    IF at[p].todo = {i} THEN Finish(p)
    ELSE at' = [at EXCEPT ![p].todo = @ \ {i}]

(***************************************************************************)
(* _snapshot of order i from the view of process p.  An error ends a       *)
(* reconcile; it makes query mark the order UNKNOWN.                       *)
(***************************************************************************)
ApplySnapshot(p, i, s) ==
    LET x == view[p].of[i]
        st == Reported(x)
    IN
    /\ At(p, "queried") \/ (/\ At(p, "ingest")
                            /\ \A j \in Orders : \A k \in 1..view[p].of[j].filled : Ingested(j, k))
    /\ i \in at[p].todo
    /\ IF StaleView(p, i) \/ (~SnapshotRefused(i, x) /\ KeepsCancelPending(i, x))
       THEN /\ PassOver(p, i)
            /\ IF at[p].todo = {i} THEN Forget(p) ELSE UNCHANGED view
            /\ UNCHANGED <<mode, wallet, orderRows>>
       ELSE IF SnapshotRefused(i, x)
       THEN /\ IF At(p, "queried") THEN Go(p, "doubt", i, "any") ELSE Finish(p)
            /\ Forget(p)
            /\ UNCHANGED <<mode, wallet, orderRows>>
       ELSE /\ IF st \in Terminal THEN Release(i, st)
               ELSE /\ status' = [status EXCEPT ![i] = st]
                    /\ UNCHANGED <<res, reserved>>
            /\ settlement' = [settlement EXCEPT ![i] = Settlement(i, s, TRUE)]
            /\ mode' = IF s \in Broken THEN "HALTED" ELSE mode
            /\ UNCHANGED <<quote, base, filled, trades, unsent>>
            /\ PassOver(p, i)
            /\ view' = [q \in Procs |->
                  IF q = p THEN IF at[p].todo = {i} THEN NoView
                                ELSE [view[p] EXCEPT !.old = @ \union {i}]
                  ELSE IF ~Reading(q) THEN view[q]
                  ELSE [view[q] EXCEPT
                          !.old = @ \union {i},
                          !.gone = IF p \in view[q].after THEN @ \union {i} ELSE @,
                          !.after = IF at[p].todo = {i} THEN @ \ {p} ELSE @]]
    /\ UNCHANGED <<expired, heads, lease, external>>

-----------------------------------------------------------------------------
(* The venue and the network (external).                                   *)

VenueReceives(i) ==
    /\ i \in wire
    /\ wire' = wire \ {i}
    /\ \E s \in {"OPEN", "REJECTED"} : venue' = [venue EXCEPT ![i].state = s]
    /\ UNCHANGED <<account, lease, at, view, cancelReq, sends>>

SubmissionLost(i) ==
    /\ i \in wire
    /\ wire' = wire \ {i}
    /\ UNCHANGED <<account, lease, at, view, venue, cancelReq, sends>>

VenueFills(i) ==
    LET f == venue[i].filled + 1 IN
    /\ venue[i].state = "OPEN"
    /\ venue' = [venue EXCEPT ![i] = [state |-> IF f = Qty[i] THEN "FILLED" ELSE "OPEN",
                                      filled |-> f]]
    /\ UNCHANGED <<account, lease, at, view, wire, cancelReq, sends>>

\* The rest of an IOC order, or the venue ends the order by itself.
VenueEnds(i) ==
    /\ venue[i].state = "OPEN"
    /\ venue' = [venue EXCEPT ![i].state = "CANCELED"]
    /\ UNCHANGED <<account, lease, at, view, wire, cancelReq, sends>>

\* The cancellation arrives and is carried out or refused, or it is lost.
CancelArrives(i) ==
    /\ i \in cancelReq
    /\ cancelReq' = cancelReq \ {i}
    /\ \/ venue' = [venue EXCEPT ![i].state = IF @ = "OPEN" THEN "CANCELED" ELSE @]
       \/ UNCHANGED venue
    /\ UNCHANGED <<account, lease, at, view, wire, sends>>

-----------------------------------------------------------------------------
(* Crash: the call and the lease token in memory are gone.                 *)

Crash(p) ==
    /\ "crash" \in Calls
    /\ ~Free(p)
    /\ Finish(p)
    /\ Forget(p)
    /\ lease' = IF lease.holder = p THEN [lease EXCEPT !.holder = None] ELSE lease
    /\ UNCHANGED <<account, external>>

-----------------------------------------------------------------------------
Submitting(p) ==
    \/ \E v \in Verdicts, old \in BOOLEAN :
          \/ Reserve(p, v, old) \/ ReserveOverBudget(p, v, old)
          \/ ClaimOrder(p, v, old) \/ ClaimOverBudget(p, v, old)
          \/ Recheck(p, v, old)
          \/ \E i \in Orders : CheckReserve(p, i, v, old) \/ CheckSubmit(p, i, v, old)
    \/ \E i \in Orders : NoTrustedMarket(p, i)
    \/ \E v \in Verdicts : ClaimRefused(p, v)
    \/ ReserveRefused(p) \/ StopNewRisk(p) \/ ClaimExpired(p)
    \/ SendOrder(p) \/ SubmitRaises(p) \/ RecordSubmit(p)
    \/ \E a \in {"accepted", "rejected", "unknown"} : SubmitAnswered(p, a)

Canceling(p) ==
    \/ \E i \in Orders : StartCancel(p, i)
    \/ \E a \in {"confirmed", "rejected", "unknown"} : CancelAnswered(p, a)
    \/ CancelRaises(p) \/ RecordCancel(p)

Reconciling(p) ==
    \/ StartReconcile(p)
    \/ \E i \in Orders : StartQuery(p, i)
    \/ \E i \in Orders, s \in Settlements :
          \/ ApplySnapshot(p, i, s)
          \/ \E k \in 1..Qty[i] : IngestFill(p, i, k, s)

Process(p) ==
    ClaimLease(p) \/ Submitting(p) \/ Canceling(p) \/ Reconciling(p)
       \/ MarkUncertain(p) \/ Crash(p)

Venue ==
    \E i \in Orders :
        \/ VenueReceives(i) \/ SubmissionLost(i) \/ VenueFills(i)
        \/ VenueEnds(i) \/ CancelArrives(i)

\* The operator, the watchdog, the release registry and the clock.
Elsewhere ==
    /\ \/ \E m \in OperatorModes : "operator" \in Calls /\ SetMode(m)
       \/ "watchdog" \in Calls /\ WatchdogStop
       \/ \E v \in Verdicts, old \in BOOLEAN : "watchdog" \in Calls /\ RiskCheck(v, old)
       \/ "release" \in Calls /\ (Deactivate \/ \E d \in Deployments : Activate(d))
       \/ \E i \in MayExpire : Expire(i)
    /\ UNCHANGED <<lease, at, view, external>>

Next == (\E p \in Procs : Process(p)) \/ Venue \/ Elsewhere \/ LeaseExpires

Spec == Init /\ [][Next]_vars

(***************************************************************************)
(* What must not stop forever.  A call that waits for the venue has a      *)
(* timeout, so it ends (weak fairness).  The trading loop reconciles       *)
(* before it acts on an event and the control worker on a timer, so a      *)
(* reconciliation is started again and again and its steps get through     *)
(* against crashes and other calls (strong fairness).  It does not matter  *)
(* which process gets through: each condition is about all of them         *)
(* together.  The venue does not have to do anything.                      *)
(***************************************************************************)
Ends(p) == Submitting(p) \/ Canceling(p) \/ MarkUncertain(p)
Applies(p, i) == \E s \in Settlements : ApplySnapshot(p, i, s)
Learns(p, i) ==
    \E k \in 1..Qty[i], s \in Settlements : ~Ingested(i, k) /\ IngestFill(p, i, k, s)

Fairness ==
    /\ WF_vars(\E p \in Procs : ~Free(p) /\ Ends(p))
    /\ SF_vars(\E p \in Procs : StartReconcile(p))
    /\ \A i \in Orders :
          /\ SF_vars(\E p \in Procs : Applies(p, i))
          /\ SF_vars(\E p \in Procs : Learns(p, i))

FairSpec == Spec /\ Fairness

-----------------------------------------------------------------------------
(* Sending.                                                                *)

\* An intent is given to the adapter at most once, whatever crashes, lease
\* changes, timeouts and repeated submit calls come between (oms.py submits
\* "RESERVED" rows only and never returns a row to it).
AtMostOneSend == \A i \in Orders : sends[i] <= 1

\* An order whose log says that it was never sent (expired, aborted, shadow or
\* canceled unsent) was not sent and no process is about to send it: this is
\* what lets apply_fill call a fill of it impossible.
NeverSentStays ==
    \A i \in unsent :
        /\ sends[i] = 0
        /\ \A p \in Procs : at[p].pc \in {"send", "await", "settle"} => at[p].order # i

\* While one process stands between its claim and the side effect no other
\* process of the account does, although the lease may have changed hands: the
\* guard is the row in SUBMITTING, not the lease.
OneSenderPerAccount ==
    \A p, q \in Procs :
        /\ at[p].pc \in {"recheck", "send"}
        /\ at[q].pc \in {"recheck", "send"}
        => p = q

(***************************************************************************)
(* Closing.                                                                *)
(***************************************************************************)

\* An order that was sent is closed here only when it has ended at the venue
\* and nothing of it is under way: a timeout, a lost answer or an open snapshot
\* never releases it (cancel, _submit, _snapshot).
ClosedAtVenue ==
    \A i \in Orders :
        /\ status[i] \in Terminal
        /\ sends[i] > 0
        => venue[i].state \in Ended /\ i \notin wire

\* A closed order stays as it is; only a late fill that completes it makes it
\* FILLED.
TerminalFinal ==
    [][\A i \in Orders :
          status[i] \in Terminal =>
             status'[i] = status[i] \/ (status'[i] = "FILLED" /\ filled'[i] = Qty[i])]_vars

-----------------------------------------------------------------------------
(* Money.                                                                  *)

\* accounts.reserved_quote is the sum over the orders, an open order holds what
\* is not filled of it, a closed order holds nothing (reserve, apply_fill and
\* _release keep the two tables together).
BudgetHeld ==
    /\ reserved = SumOf(res, Buys)
    /\ \A i \in Orders :
          res[i] = IF status[i] \in Terminal \union {"NEW"} THEN 0 ELSE Qty[i] - filled[i]

\* The wallet is what the fills of table fills make it, each trade counted once
\* however many reconciliations deliver it, and no order is filled further than
\* the venue filled it.
LedgerMatchesFills ==
    /\ \A i \in Orders :
          /\ filled[i] = Cardinality(trades[i])
          /\ filled[i] <= venue[i].filled
    /\ base = Inventory + SumOf(filled, Buys) - SumOf(filled, Sells)
    /\ quote = Capital - Inventory - SumOf(filled, Buys) + SumOf(filled, Sells)
                  - SumOf([i \in Orders |-> filled[i] * Extra[i]], Orders)

\* Cash or inventory no longer covers what is reserved from it.
Short == quote < reserved \/ base < SumOf(res, Sells) \/ quote < 0

\* Only a fill brings an account into a shortfall, one that arrives after its
\* order was canceled and the money was reserved again, and it halts the
\* account in the same transaction; no reservation does it.
ShortfallHalts == [][~Short /\ Short' => mode' = "HALTED"]_vars

-----------------------------------------------------------------------------
(* Modes.                                                                  *)

\* Nothing but the operator makes a mode weaker: the risk evaluation, the
\* preflight of a submission and the watchdog run concurrently and each writes
\* the mode it computed.
StopsLatch ==
    [][\/ mode' = mode
       \/ mode' = "HALTED"
       \/ mode' = "REDUCE_ONLY" /\ mode # "HALTED"
       \/ "operator" \in Calls /\ mode' \in OperatorModes /\ UNCHANGED at]_vars

\* An ACTIVE account has no order with an unknown outcome, no failed or
\* reorganised settlement and no negative balance.
ActiveIsHealthy ==
    mode = "ACTIVE" =>
        /\ \A i \in Orders : status[i] # "UNKNOWN" /\ settlement[i] \notin Broken
        /\ ~NegativeWallet

-----------------------------------------------------------------------------
(* Deployments.                                                            *)

\* Every open order was made under the active head: a head is only replaced or
\* switched off when no order is open, and a stale head cannot reserve.
OpenOrdersBelongToHead ==
    \A i \in Orders : status[i] \notin Terminal \union {"NEW"} => Current(i)

-----------------------------------------------------------------------------
(* Liveness.                                                               *)

\* An order with an unknown outcome that reached the venue is resolved.
UnknownResolved ==
    \A i \in Orders :
        status[i] = "UNKNOWN" /\ Known(venue[i]) ~> status[i] # "UNKNOWN"

-----------------------------------------------------------------------------
(* What a document says and the code does not do; the README tells how it  *)
(* is violated.                                                            *)

\* docs/production-v4-implementation.md, item 4 of the trading rules: an old
\* lease cannot write or send.
SendUnderLease == [][\A p \in Procs : SendOrder(p) => HasLease(p)]_vars
=============================================================================
