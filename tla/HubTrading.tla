----------------------------- MODULE HubTrading -----------------------------
(***************************************************************************)
(* TradingService of the agent hub (agent_hub/trading.py under src/qt)     *)
(* with a live adapter: submit, reconcile and set_risk_mode over the       *)
(* SQLite tables hub_trade_orders, hub_trade_accounts,                     *)
(* hub_trade_positions and hub_trade_kill of one tenant.                   *)
(*                                                                         *)
(* A caller (an API request, or a worker that brings a lease guard) walks  *)
(* through submit in separate transactions with the network in between;    *)
(* reconcile lists, asks the venue and records in separate steps as well;  *)
(* either may die anywhere.  Nothing serialises them but the transactions. *)
(* A lease guard may fail whenever it is asked.                            *)
(*                                                                         *)
(* Prices are 1 and a filled order costs Fee, so that cost basis, realised *)
(* profit, the exposure limit and the quote checks are left out.  All of   *)
(* it happens on one UTC day, the day of the budget max_daily_quote.       *)
(***************************************************************************)
EXTENDS Integers, FiniteSets, Sums

CONSTANTS
    Orders,        \* idempotency keys
    Callers,       \* concurrent calls of submit
    Reconcilers,   \* concurrent calls of reconcile
    Binance,       \* the orders of this venue; the others are Polymarket's
    Buys,          \* the orders on side BUY; the others sell
    Qty,           \* quantity of each order
    Fee, StartCash, MaxOrder, MaxDaily,
    ExitAllowed,   \* frozen_allows_protective_exit
    Modes,         \* the risk modes the owner sets
    NoOrder

RiskModes == {"active", "reduce_only", "frozen"}

ASSUME HubTradingAssumption ==
    /\ IsFiniteSet(Orders) /\ Binance \subseteq Orders /\ Buys \subseteq Orders
    /\ Qty \in [Orders -> Nat \ {0}]
    /\ Fee \in Nat /\ StartCash \in Nat /\ MaxOrder \in Nat /\ MaxDaily \in Nat
    /\ ExitAllowed \in BOOLEAN
    /\ Modes \subseteq RiskModes
    /\ NoOrder \notin Orders

VARIABLES
    mode,     \* hub_trade_kill
    order,    \* hub_trade_orders, per key
    cash,     \* hub_trade_accounts, per venue
    held,     \* hub_trade_positions, per venue (one instrument each)
    venue,    \* what the venue knows of each order; posts is a history
    caller,   \* the memory of each call of submit
    auditor   \* the memory of each call of reconcile

book == <<order, cash, held>>
vars == <<mode, order, cash, held, venue, caller, auditor>>

\* PARTIALLY_FILLED is handled as NEW is, and CANCELED as EXPIRED.
Open == {"PREPARING", "SUBMITTING", "UNKNOWN", "NEW", "SETTLEMENT_PENDING"}
Terminal == {"FILLED", "EXPIRED", "REJECTED"}
Venues == {"binance", "polymarket"}
Market(k) == IF k \in Binance THEN "binance" ELSE "polymarket"

OrderRow == [status : Open \union Terminal \union {"ABSENT"}, accounted : BOOLEAN,
             filled : Nat, reserved : Nat, known : BOOLEAN]
Absent == [status |-> "ABSENT", accounted |-> FALSE, filled |-> 0, reserved |-> 0,
           known |-> FALSE]

\* What an adapter returns; "NONE" is lookup's None and an exception alike.
Result == [status : Open \union Terminal \union {"NONE"}, filled : Nat]
NoResult == [status |-> "NONE", filled |-> 0]
Refusal == [status |-> "REJECTED", filled |-> 0]
Final(k, n) == [status |-> IF n = Qty[k] THEN "FILLED" ELSE "EXPIRED", filled |-> n]

FeeOf(n) == IF n > 0 THEN Fee ELSE 0
Reserve(k) == Qty[k] + Fee

IdleCaller == [pc |-> "idle", key |-> NoOrder, result |-> NoResult]
IdleAuditor == [pc |-> "idle", todo |-> {}, ids |-> {}, key |-> NoOrder, result |-> NoResult]

\* The type invariant.
TypeOK ==
    /\ mode \in RiskModes
    /\ order \in [Orders -> OrderRow]
    /\ cash \in [Venues -> Int] /\ held \in [Venues -> Int]
    /\ venue \in [Orders -> [state : {"none", "refused", "executed"}, filled : Nat,
                             posts : Nat]]
    /\ caller \in [Callers ->
          [pc : {"idle", "quoted", "prepared", "armed", "sending", "answered",
                 "blocked", "failed"},
           key : Orders \union {NoOrder}, result : Result]]
    /\ auditor \in [Reconcilers ->
          [pc : {"idle", "listed", "asked"}, todo : SUBSET Orders, ids : SUBSET Orders,
           key : Orders \union {NoOrder}, result : Result]]

Init ==
    /\ mode = "active"
    /\ order = [k \in Orders |-> Absent]
    /\ cash = [v \in Venues |-> StartCash]
    /\ held = [v \in Venues |-> 0]
    /\ venue = [k \in Orders |-> [state |-> "none", filled |-> 0, posts |-> 0]]
    /\ caller = [c \in Callers |-> IdleCaller]
    /\ auditor = [r \in Reconcilers |-> IdleAuditor]

-----------------------------------------------------------------------------
(***************************************************************************)
(* The rules of the book.                                                  *)
(***************************************************************************)

\* _check_risk_mode.
ModeAllows(k) ==
    \/ mode = "active"
    \/ mode = "reduce_only" /\ k \notin Buys
    \/ mode = "frozen" /\ ExitAllowed /\ k \notin Buys

\* Variant: an order whose outcome is unknown no longer blocks the tenant.
UnresolvedButKnown == {k \in Orders : order[k].status \in Open \ {"UNKNOWN"}}
Unresolved == {k \in Orders : order[k].status \in Open}

\* The new risk of the day: BUY orders, open or closed.
DayRisk ==
    SumOf([k \in Orders |-> order[k].reserved], {k \in Buys : order[k].status # "ABSENT"})

\* _risk.
RiskAllows(k) ==
    /\ ModeAllows(k)
    /\ Unresolved = {}
    /\ Reserve(k) <= MaxOrder
    /\ IF k \in Buys
       THEN DayRisk + Reserve(k) <= MaxDaily /\ cash[Market(k)] >= Reserve(k)
       ELSE held[Market(k)] >= Qty[k]

\* The checks of _finish on the books; it raises TradingError otherwise.
Fits(k, n) ==
    IF k \in Buys THEN cash[Market(k)] >= n + FeeOf(n) ELSE held[Market(k)] >= n

\* _save: everything but the reserved column.
SaveStatus(k, s) ==
    /\ order' = [order EXCEPT ![k].status = s]
    /\ UNCHANGED <<cash, held>>

Pay(k, n) ==
    /\ cash' = [cash EXCEPT ![Market(k)] =
                   IF k \in Buys THEN @ - (n + FeeOf(n)) ELSE @ + n - FeeOf(n)]
    /\ held' = [held EXCEPT ![Market(k)] = IF k \in Buys THEN @ + n ELSE @ - n]

\* Variant: a result is booked although the order was accounted before.
FinishAgain(k, r) ==
    \/ /\ r.status \in Open
       /\ order' = [order EXCEPT ![k].status = r.status, ![k].known = TRUE]
       /\ UNCHANGED <<cash, held>>
    \/ /\ r.status \in Terminal
       /\ Fits(k, r.filled)
       /\ Pay(k, r.filled)
       /\ order' = [order EXCEPT ![k] = [@ EXCEPT !.status = r.status, !.accounted = TRUE,
                        !.filled = r.filled, !.reserved = r.filled + FeeOf(r.filled)]]

\* Variant: closing an order gives its budget back.
FinishRefunding(k, r) ==
    \/ order[k].accounted /\ UNCHANGED book
    \/ /\ ~order[k].accounted /\ r.status \in Open
       /\ order' = [order EXCEPT ![k].status = r.status, ![k].known = TRUE]
       /\ UNCHANGED <<cash, held>>
    \/ /\ ~order[k].accounted /\ r.status \in Terminal
       /\ Fits(k, r.filled)
       /\ Pay(k, r.filled)
       /\ order' = [order EXCEPT ![k] = [@ EXCEPT !.status = r.status, !.accounted = TRUE,
                        !.filled = r.filled, !.reserved = 0]]

\* _finish: an accounted order stays as it is, an open result is only saved,
\* a final one is booked and turns the reservation into what was spent.
Finish(k, r) ==
    \/ order[k].accounted /\ UNCHANGED book
    \/ /\ ~order[k].accounted /\ r.status \in Open
       /\ order' = [order EXCEPT ![k].status = r.status, ![k].known = TRUE]
       /\ UNCHANGED <<cash, held>>
    \/ /\ ~order[k].accounted /\ r.status \in Terminal
       /\ Fits(k, r.filled)
       /\ Pay(k, r.filled)
       /\ order' = [order EXCEPT ![k] = [@ EXCEPT !.status = r.status, !.accounted = TRUE,
                        !.filled = r.filled, !.reserved = r.filled + FeeOf(r.filled)]]

Drifts(k, r) == ~order[k].accounted /\ r.status \in Terminal /\ ~Fits(k, r.filled)

-----------------------------------------------------------------------------
(***************************************************************************)
(* submit.                                                                 *)
(***************************************************************************)

\* Variant: a row that was never confirmed is taken as permission to go on.
RequestOrResume(c, k) ==
    /\ caller[c].pc = "idle"
    /\ order[k].status \in {"ABSENT", "PREPARING", "UNKNOWN"}
    /\ caller' = [caller EXCEPT ![c] =
           [IdleCaller EXCEPT !.key = k,
               !.pc = IF order[k].status = "ABSENT" THEN "quoted" ELSE "prepared"]]
    /\ UNCHANGED <<mode, book, venue, auditor>>

\* A known key is answered with its row.  Otherwise quote and balances are
\* read, outside any transaction.
Request(c, k) ==
    /\ caller[c].pc = "idle"
    /\ order[k].status = "ABSENT"
    /\ caller' = [caller EXCEPT ![c] =
           [IdleCaller EXCEPT !.pc = "quoted", !.key = k]]
    /\ UNCHANGED <<mode, book, venue, auditor>>

\* The reservation is durable before anything is sent.
Prepare(c) ==
    LET k == caller[c].key IN
    /\ caller[c].pc = "quoted"
    /\ order[k].status = "ABSENT"
    /\ RiskAllows(k)
    /\ order' = [order EXCEPT ![k] =
           [Absent EXCEPT !.status = "PREPARING", !.reserved = Reserve(k)]]
    /\ caller' = [caller EXCEPT ![c].pc = "prepared"]
    /\ UNCHANGED <<mode, cash, held, venue, auditor>>

\* Another call was first, the risk rules refuse, or the lease guard does.
Refuse(c) ==
    /\ caller[c].pc = "quoted"
    /\ caller' = [caller EXCEPT ![c] = IdleCaller]
    /\ UNCHANGED <<mode, book, venue, auditor>>

\* The second transaction looks at the risk mode again; it writes its own
\* record over whatever reconcile made of the row meanwhile.
Arm(c) ==
    LET k == caller[c].key IN
    /\ caller[c].pc = "prepared"
    /\ \/ /\ ModeAllows(k)
          /\ SaveStatus(k, "SUBMITTING")
          /\ caller' = [caller EXCEPT ![c].pc = "armed"]
       \/ /\ ~ModeAllows(k)
          /\ Finish(k, Refusal)
          /\ caller' = [caller EXCEPT ![c] = IdleCaller]
    /\ UNCHANGED <<mode, venue, auditor>>

\* send_guard, which the adapter calls last before the POST: a lease that
\* is lost blocks as the risk mode does.
Guard(c) ==
    /\ caller[c].pc = "armed"
    /\ \E verdict \in {"sending", "blocked"} :
        /\ verdict = "sending" => ModeAllows(caller[c].key)
        /\ caller' = [caller EXCEPT ![c].pc = verdict]
    /\ UNCHANGED <<mode, book, venue, auditor>>

\* The adapter fails before the POST: filters, clock, age of the quote.
Unready(c) ==
    /\ caller[c].pc = "armed"
    /\ caller' = [caller EXCEPT ![c].pc = "failed"]
    /\ UNCHANGED <<mode, book, venue, auditor>>

\* What the POST is answered with, NoResult standing for an exception.
\* Polymarket settles later; Binance may say the order is still new.
Answers(k, n) ==
    {NoResult} \union IF k \in Binance THEN {Final(k, n), [status |-> "NEW", filled |-> 0]}
                      ELSE {[status |-> "SETTLEMENT_PENDING", filled |-> 0]}

Answered(c, r) ==
    caller' = [caller EXCEPT ![c].pc = IF r = NoResult THEN "failed" ELSE "answered",
                             ![c].result = r]

\* The one POST: lost on the way, refused, or executed up to some quantity
\* (IOC and FAK leave nothing resting), each with or without an answer.
Post(c) ==
    LET k == caller[c].key IN
    /\ caller[c].pc = "sending"
    /\ \/ /\ Answered(c, NoResult)
          /\ UNCHANGED venue
       \/ /\ venue[k].state = "none"
          /\ \/ /\ venue' = [venue EXCEPT ![k] =
                      [state |-> "refused", filled |-> 0, posts |-> @.posts + 1]]
                /\ \E r \in {NoResult, Refusal} : Answered(c, r)
             \/ \E n \in 0..Qty[k] :
                /\ venue' = [venue EXCEPT ![k] =
                      [state |-> "executed", filled |-> n, posts |-> @.posts + 1]]
                /\ \E r \in Answers(k, n) : Answered(c, r)
       \/ /\ venue[k].state # "none"
          /\ venue' = [venue EXCEPT ![k].posts = @ + 1]
          /\ Answered(c, NoResult)
    /\ UNCHANGED <<mode, book, auditor>>

\* The answer is booked, or its booking fails and the outcome is unknown.
Book(c) ==
    LET k == caller[c].key
        r == caller[c].result IN
    /\ caller[c].pc = "answered"
    /\ \/ /\ Finish(k, r)
          /\ caller' = [caller EXCEPT ![c] = IdleCaller]
       \/ /\ Drifts(k, r)
          /\ caller' = [caller EXCEPT ![c].pc = "failed"]
          /\ UNCHANGED book
    /\ UNCHANGED <<mode, venue, auditor>>

\* except (LeaseLostError, _SendBlockedError): nothing was sent.
Block(c) ==
    /\ caller[c].pc = "blocked"
    /\ Finish(caller[c].key, Refusal)
    /\ caller' = [caller EXCEPT ![c] = IdleCaller]
    /\ UNCHANGED <<mode, venue, auditor>>

\* Variant: an exception is taken for a refusal.
DoubtAsRefusal(c) ==
    /\ caller[c].pc = "failed"
    /\ Finish(caller[c].key, Refusal)
    /\ caller' = [caller EXCEPT ![c] = IdleCaller]
    /\ UNCHANGED <<mode, venue, auditor>>

\* except Exception: the outcome is unknown unless somebody accounted it.
Doubt(c) ==
    LET k == caller[c].key IN
    /\ caller[c].pc = "failed"
    /\ \/ order[k].accounted /\ UNCHANGED book
       \/ ~order[k].accounted /\ SaveStatus(k, "UNKNOWN")
    /\ caller' = [caller EXCEPT ![c] = IdleCaller]
    /\ UNCHANGED <<mode, venue, auditor>>

\* The process dies; the row stays as the last transaction left it.
Die(c) ==
    /\ caller[c].pc # "idle"
    /\ caller' = [caller EXCEPT ![c] = IdleCaller]
    /\ UNCHANGED <<mode, book, venue, auditor>>

-----------------------------------------------------------------------------
(***************************************************************************)
(* reconcile.  The rows are listed once; every lookup goes out with the    *)
(* row as listed, so a Polymarket order whose exchange_id was not stored   *)
(* by then is not found.                                                   *)
(***************************************************************************)

\* Variant: an order already marked UNKNOWN is left to the operator.
ListNotUnknown(r) ==
    LET todo == {k \in Unresolved : order[k].status # "UNKNOWN"} IN
    /\ auditor[r].pc = "idle"
    /\ todo # {}
    /\ auditor' = [auditor EXCEPT ![r] = [IdleAuditor EXCEPT
           !.pc = "listed", !.todo = todo, !.ids = {k \in todo : order[k].known}]]
    /\ UNCHANGED <<mode, book, venue, caller>>

List(r) ==
    /\ auditor[r].pc = "idle"
    /\ Unresolved # {}
    /\ auditor' = [auditor EXCEPT ![r] = [IdleAuditor EXCEPT
           !.pc = "listed", !.todo = Unresolved, !.ids = {k \in Unresolved : order[k].known}]]
    /\ UNCHANGED <<mode, book, venue, caller>>

Visible(r, k) == venue[k].state = "executed" /\ (k \in Binance \/ k \in auditor[r].ids)

Ask(r, k, result) ==
    /\ auditor[r].pc = "listed"
    /\ k \in auditor[r].todo
    /\ auditor' = [auditor EXCEPT ![r] = [@ EXCEPT !.pc = "asked", !.key = k, !.result = result]]
    /\ UNCHANGED <<mode, book, venue, caller>>

\* adapter.lookup: the confirmed outcome, ...
Find(r, k) == Visible(r, k) /\ Ask(r, k, Final(k, venue[k].filled))
\* ... a Binance order not yet final, ...
FindPending(r, k) ==
    Visible(r, k) /\ k \in Binance /\ Ask(r, k, [status |-> "NEW", filled |-> 0])
\* ... or nothing: not found, not confirmed, or an exception.
Miss(r, k) == Ask(r, k, NoResult)

Rest(r) == auditor[r].todo \ {auditor[r].key}
Proceed(r) == auditor' = [auditor EXCEPT ![r] =
    IF Rest(r) = {} THEN IdleAuditor ELSE [@ EXCEPT !.pc = "listed", !.todo = Rest(r)]]

\* Each answer is recorded in a transaction of its own, on the row of now.
Record(r) ==
    LET k == auditor[r].key
        answer == auditor[r].result IN
    /\ auditor[r].pc = "asked"
    /\ \/ order[k].accounted /\ UNCHANGED book
       \/ ~order[k].accounted /\ answer # NoResult /\ Finish(k, answer)
       \/ ~order[k].accounted /\ (answer = NoResult \/ Drifts(k, answer)) /\ SaveStatus(k, "UNKNOWN")
    /\ Proceed(r)
    /\ UNCHANGED <<mode, venue, caller>>

Abandon(r) ==
    /\ auditor[r].pc # "idle"
    /\ auditor' = [auditor EXCEPT ![r] = IdleAuditor]
    /\ UNCHANGED <<mode, book, venue, caller>>

-----------------------------------------------------------------------------
\* set_risk_mode.
SetRiskMode(m) ==
    /\ mode' = m
    /\ UNCHANGED <<book, venue, caller, auditor>>

Submit(c) ==
    \/ \E k \in Orders : Request(c, k)
    \/ Prepare(c) \/ Refuse(c) \/ Arm(c) \/ Guard(c) \/ Unready(c) \/ Post(c)
    \/ Book(c) \/ Block(c) \/ Doubt(c)

Lookup(r) == \E k \in Orders : Find(r, k) \/ FindPending(r, k) \/ Miss(r, k)
Reconcile(r) == List(r) \/ Lookup(r) \/ Record(r)

Next ==
    \/ \E c \in Callers : Submit(c) \/ Die(c)
    \/ \E r \in Reconcilers : Reconcile(r) \/ Abandon(r)
    \/ \E m \in Modes : SetRiskMode(m)

Spec == Init /\ [][Next]_vars

\* The monitor job repeats reconcile for good; a lookup that can succeed is
\* answered one day, and recorded by a monitor that does not die just then.
Found(r) == \E k \in Orders : Find(r, k)
RecordFound(r) == auditor[r].result.status \in Terminal /\ Record(r)
Fairness ==
    \A r \in Reconcilers :
        /\ WF_vars(List(r)) /\ WF_vars(Lookup(r)) /\ WF_vars(Record(r))
        /\ SF_vars(Found(r)) /\ SF_vars(RecordFound(r))
FairSpec == Spec /\ Fairness

-----------------------------------------------------------------------------
(***************************************************************************)
(* Properties.                                                             *)
(***************************************************************************)

\* An order is sent once: two calls with one key, a crash after the
\* reservation, an UNKNOWN row and a late restart never POST it again
\* ("the only send" of submit; "never permission to send again").
SentOnce == \A k \in Orders : venue[k].posts <= 1

\* What the venue executed of each order, and the fees for it.
Executed == [k \in Orders |-> venue[k].filled]
FeesPaid == [k \in Orders |-> FeeOf(venue[k].filled)]
\* The orders of S whose result the books of v contain.
Accounted(v, S) == {k \in S : order[k].accounted /\ Market(k) = v}

\* The books are the start plus every accounted order, booked once, with the
\* fill the venue executed, whoever brought it: the caller, or reconcile
\* with an answer that had grown old.
BooksMatchVenue ==
    \A v \in Venues :
        /\ held[v] = SumOf(Executed, Accounted(v, Buys)) - SumOf(Executed, Accounted(v, Orders \ Buys))
        /\ cash[v] = StartCash - held[v] - SumOf(FeesPaid, Accounted(v, Orders))

\* A row that says REJECTED is of an order the venue does not execute: a
\* lost lease, a frozen tenant and an exception are told apart.
RejectedNeverFilled ==
    \A k \in Orders : order[k].status = "REJECTED" => venue[k].state # "executed"

\* What the BUY orders of the day really cost at the venue stays within the
\* daily limit, also while fills are missing in the books and however orders
\* expire, fill in part or are resolved late.
DayRiskWithinLimit ==
    SumOf([k \in Orders |-> venue[k].filled + FeeOf(venue[k].filled)], Buys) <= MaxDaily

\* While the outcome of one order is open no other order can be at the venue
\* unaccounted: at most one fill is missing in the books.
OneFillMissing ==
    Cardinality({k \in Orders : venue[k].state = "executed" /\ ~order[k].accounted}) <= 1

\* What was accounted is final: no late answer, timeout or lookup reopens or
\* changes the row.
AccountedIsFinal ==
    [][\A k \in Orders : order[k].accounted => order'[k] = order[k]]_vars

\* An executed order that the venue can be asked about: on Binance by the
\* client id, on Polymarket once its exchange_id is stored.
Missing == {k \in Orders : /\ venue[k].state = "executed" /\ ~order[k].accounted
                           /\ k \in Binance \/ order[k].known}

\* Its fill reaches the books in the end, although the caller died, got no
\* answer or gave up: the tenant is not blocked for good.
ExecutedIsAccounted == Missing # {} ~> Missing = {}
=============================================================================
