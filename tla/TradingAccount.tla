--------------------------- MODULE TradingAccount ---------------------------
(***************************************************************************)
(* One trading account of the OMS: the rows of accounts, orders, fills and *)
(* the journal (src/qt/execution/oms.py), the risk evaluation over them    *)
(* (src/qt/operations/risk.py) and the deployment head                     *)
(* (src/qt/operations/releases.py).                                        *)
(*                                                                         *)
(* The module has the state and what one database transaction does to it;  *)
(* who calls the transactions, and when, is module OMS.                    *)
(*                                                                         *)
(* Money.  Every order trades units of one base asset at a price of one    *)
(* quote unit, so quantity, notional and reservation are the same number.  *)
(* A fill that is worse than the order's terms (price beyond the limit or  *)
(* a fee beyond the schedule) costs Extra more.  Fees within the schedule, *)
(* decimal rounding, daily entry budget and position limits are left out:  *)
(* the limits only refuse a reservation, which Reserve may do at any time. *)
(***************************************************************************)
EXTENDS Integers, FiniteSets, Sums

CONSTANTS
    Buys,         \* intents that buy
    Sells,        \* intents that sell owned inventory
    Qty,          \* ordered quantity of each intent
    Extra,        \* what each unit costs beyond the order's terms
    Deployments,  \* deployment manifests of the account
    Dep,          \* the deployment each intent was made under
    Shadow,       \* the deployments in shadow mode
    Capital,      \* accounts.capital
    Inventory     \* base units bought before the orders of the model

Orders == Buys \union Sells

ASSUME AccountAssumption ==
    /\ Buys \intersect Sells = {}
    /\ IsFiniteSet(Orders)
    /\ Qty \in [Orders -> Nat \ {0}]
    /\ Extra \in [Orders -> Nat]
    /\ Dep \in [Orders -> Deployments]
    /\ Shadow \subseteq Deployments
    /\ Capital \in Nat
    /\ Inventory \in 0..Capital

VARIABLES
    mode,        \* accounts.mode
    reserved,    \* accounts.reserved_quote
    quote,       \* wallet bucket of the quote asset
    base,        \* wallet bucket of the base asset
    status,      \* orders.status; "NEW" before the row exists
    filled,      \* orders.filled_quantity
    res,         \* orders.reserved_quote of a buy, reserved_base of a sell
    settlement,  \* orders.settlement_status
    trades,      \* the venue trade numbers in table fills
    unsent,      \* orders with an event that proves they were never sent
    expired,     \* orders whose valid_until_ns has passed
    head,        \* deployment_heads of the account
    past         \* every deployment that was ever activated

wallet == <<reserved, quote, base>>
orderRows == <<status, filled, res, settlement, trades, unsent>>
heads == <<head, past>>

Modes == {"ACTIVE", "REDUCE_ONLY", "HALTED", "EMERGENCY_EXIT"}
Terminal == {"FILLED", "REJECTED", "CANCELED", "EXPIRED"}
Uncertain == {"SUBMITTING", "UNKNOWN", "CANCEL_PENDING"}
OrderStatus == {"NEW", "RESERVED", "ACKNOWLEDGED", "PARTIALLY_FILLED"}
                  \union Terminal \union Uncertain
SettlementStatus == {"NOT_REQUIRED", "PENDING", "CONFIRMED", "FAILED", "REORGED"}
Broken == {"FAILED", "REORGED"}
Settled == {"NOT_REQUIRED", "CONFIRMED"}

TypeOKAccount ==
    /\ mode \in Modes
    /\ reserved \in Nat /\ quote \in Int /\ base \in Int
    /\ status \in [Orders -> OrderStatus]
    /\ filled \in [Orders -> Nat]
    /\ res \in [Orders -> Nat]
    /\ settlement \in [Orders -> SettlementStatus]
    /\ trades \in [Orders -> SUBSET (Nat \ {0})]
    /\ unsent \subseteq Orders
    /\ expired \subseteq Orders
    /\ head \in [dep : Deployments, active : BOOLEAN]
    /\ past \subseteq Deployments

InitAccount ==
    /\ mode = "ACTIVE"
    /\ reserved = 0
    /\ quote = Capital - Inventory
    /\ base = Inventory
    /\ status = [i \in Orders |-> "NEW"]
    /\ filled = [i \in Orders |-> 0]
    /\ res = [i \in Orders |-> 0]
    /\ settlement = [i \in Orders |-> "NOT_REQUIRED"]
    /\ trades = [i \in Orders |-> {}]
    /\ unsent = {}
    /\ expired = {}
    /\ \E d \in Deployments : head = [dep |-> d, active |-> TRUE] /\ past = {d}

-----------------------------------------------------------------------------
(* What the transactions read.                                             *)

\* ensure_active_deployment for the deployment of order i.
Current(i) == head.active /\ head.dep = Dep[i]

\* Neither _reserve nor _submit let a stopped account take new risk.
ModeAllows(i) == mode = "ACTIVE" \/ (mode # "HALTED" /\ i \in Sells)

NegativeWallet == quote < 0 \/ base < 0
Unsettled == \E i \in Orders : settlement[i] \notin Settled

\* Variant: the guard overlooks an order that is still being sent.
OthersResolvedUnlessSubmitting(i) ==
    \A j \in Orders \ {i} : status[j] \notin Uncertain \ {"SUBMITTING"}

\* No other order of the account has an outcome that is not known.
OthersResolved(i) == \A j \in Orders \ {i} : status[j] \notin Uncertain

(***************************************************************************)
(* RiskGuard.evaluate_locked.  The market and the limits are the verdict   *)
(* v: "breach" is a loss or exposure limit, "superseded" a market older    *)
(* than the last mark, "stale" a market that _verify refuses as well, and  *)
(* "mismatch" what only the evaluation refuses (policy or clock changed).  *)
(* old says whether an order that is being submitted or cancelled has been *)
(* so for five seconds.                                                    *)
(***************************************************************************)
Verdicts == {"good", "breach", "superseded", "stale", "mismatch"}

Discarded(v) == v = "superseded" /\ ~NegativeWallet

Report(v, old) ==
    LET stuck == IF old THEN Uncertain ELSE {"UNKNOWN"}
        health == \/ quote < reserved
                  \/ \E i \in Orders : status[i] \in stuck
                  \/ Unsettled
    IN  IF Discarded(v) THEN mode
        ELSE IF v \in {"stale", "mismatch"} \/ NegativeWallet \/ health \/ mode = "HALTED"
        THEN "HALTED"
        ELSE IF v = "breach" THEN "REDUCE_ONLY" ELSE mode

\* RiskGuard.ensure_new_risk_locked, which only buys have to pass.
RiskAccepted(i, v, old) == i \in Buys => ~Discarded(v) /\ Report(v, old) = "ACTIVE"
RiskExceeded(i, v, old) == i \in Buys /\ ~Discarded(v) /\ Report(v, old) # "ACTIVE"

\* RiskGuard.stop: a halted account stays halted.
Stopped(m) == IF mode = "HALTED" THEN "HALTED" ELSE m

-----------------------------------------------------------------------------
(* What the transactions write.                                            *)

\* Variant: the account keeps the order's reservation.
ReleaseOrderOnly(i, s) ==
    /\ status' = [status EXCEPT ![i] = s]
    /\ res' = [res EXCEPT ![i] = 0]
    /\ UNCHANGED reserved

\* OMS._release
Release(i, s) ==
    /\ status' = [status EXCEPT ![i] = s]
    /\ res' = [res EXCEPT ![i] = 0]
    /\ reserved' = IF i \in Buys THEN reserved - res[i] ELSE reserved

\* The order ends here with an event that says it was never sent.
EndUnsent(i, s) ==
    /\ Release(i, s)
    /\ unsent' = unsent \union {i}
    /\ UNCHANGED <<quote, base, filled, settlement, trades>>

(***************************************************************************)
(* OMS._settlement: what the settlement status of order i becomes.  A      *)
(* failure or reorganisation is only cleared by an authoritative           *)
(* confirmation.                                                           *)
(***************************************************************************)
Settlement(i, incoming, authoritative) ==
    IF \/ incoming = "NOT_REQUIRED"
       \/ settlement[i] = "CONFIRMED" /\ incoming = "PENDING"
       \/ /\ settlement[i] \in Broken
          /\ incoming \notin Broken
          /\ ~(authoritative /\ incoming = "CONFIRMED")
    THEN settlement[i]
    ELSE incoming

\* The part of _reserve that writes: the order row and the account's total.
ReserveRow(i) ==
    /\ status' = [status EXCEPT ![i] = "RESERVED"]
    /\ res' = [res EXCEPT ![i] = Qty[i]]
    /\ reserved' = IF i \in Buys THEN reserved + Qty[i] ELSE reserved
    /\ UNCHANGED <<quote, base, filled, settlement, trades, unsent>>

\* _reserve finds unreserved cash or owned inventory for the whole order.
Affordable(i) ==
    IF i \in Buys THEN quote - reserved >= Qty[i]
    ELSE base - SumOf(res, Sells) >= Qty[i]

\* Variant: the trade identity is not looked up.
NeverIngested(i, k) == FALSE

\* The trade is in table fills already.
Ingested(i, k) == k \in trades[i]

\* Variant: a late fill reopens an order that was closed.
ReopenedStatus(i, f) ==
    IF f = Qty[i] THEN "FILLED"
    ELSE IF status[i] = "CANCEL_PENDING" THEN status[i]
    ELSE "PARTIALLY_FILLED"

\* Status of order i when its fills add up to f.
FillStatus(i, f) ==
    IF f = Qty[i] THEN "FILLED"
    ELSE IF status[i] \in Terminal \union {"CANCEL_PENDING"} THEN status[i]
    ELSE "PARTIALLY_FILLED"

\* What stays reserved for the rest of order i.
FillReservation(i, f) == IF status[i] \in Terminal THEN 0 ELSE Qty[i] - f

\* Variant: only the wallet is looked at, not what is reserved from it.
BreachIgnoringReservations(i) ==
    quote' < 0 \/ base' < 0 \/ Extra[i] > 0

\* The tests that halt the account after a fill of order i.
Breach(i) ==
    \/ quote' < 0 \/ base' < 0
    \/ quote' < reserved'
    \/ base' < SumOf(res', Sells)
    \/ Extra[i] > 0

(***************************************************************************)
(* OMS.apply_fill for trade k of order i with settlement status s.  A      *)
(* known trade can only change the settlement.                             *)
(***************************************************************************)
ApplyFill(i, k, s) ==
    LET f == filled[i] + 1
        left == FillReservation(i, f)
        units == IF i \in Buys THEN 1 ELSE -1
    IN
    /\ settlement' = [settlement EXCEPT ![i] = Settlement(i, s, FALSE)]
    /\ IF Ingested(i, k)
       THEN /\ mode' = IF s \in Broken THEN "HALTED" ELSE mode
            /\ UNCHANGED <<wallet, status, filled, res, trades, unsent>>
       ELSE /\ status[i] # "RESERVED" /\ i \notin unsent /\ f <= Qty[i]
            /\ trades' = [trades EXCEPT ![i] = @ \union {k}]
            /\ filled' = [filled EXCEPT ![i] = f]
            /\ res' = [res EXCEPT ![i] = left]
            /\ status' = [status EXCEPT ![i] = FillStatus(i, f)]
            /\ base' = base + units
            /\ quote' = quote - units - Extra[i]
            /\ reserved' = IF i \in Buys THEN reserved - res[i] + left ELSE reserved
            /\ mode' = IF Breach(i) \/ s \in Broken THEN "HALTED" ELSE mode
            /\ UNCHANGED unsent

-----------------------------------------------------------------------------
(* The deployment head.                                                    *)

\* Variant: an order that was only reserved does not stand in the way.
FlatExceptReserved ==
    /\ \A i \in Orders : status[i] \in Terminal \union {"NEW", "RESERVED"}
    /\ ~Unsettled
    /\ base = 0 /\ quote >= 0

\* DeploymentRegistry._flat
Flat ==
    /\ \A i \in Orders : status[i] \in Terminal \union {"NEW"}
    /\ ~Unsettled
    /\ reserved = 0 /\ base = 0 /\ quote >= 0

\* DeploymentRegistry.activate, for a manifest nobody has activated before.
Activate(d) ==
    /\ d \notin past
    /\ Flat
    /\ head' = [dep |-> d, active |-> TRUE]
    /\ past' = past \union {d}
    /\ UNCHANGED <<mode, wallet, orderRows, expired>>

\* DeploymentRegistry.deactivate
Deactivate ==
    /\ head.active
    /\ Flat
    /\ head' = [head EXCEPT !.active = FALSE]
    /\ UNCHANGED <<mode, wallet, orderRows, expired, past>>

\* Variant: the account is reactivated whatever its settlements are.
SetModeUnsettled(m) ==
    /\ m = "ACTIVE" => ~NegativeWallet /\ \A i \in Orders : status[i] \notin Uncertain
    /\ mode' = m
    /\ UNCHANGED <<wallet, orderRows, expired, heads>>

(***************************************************************************)
(* OMS.set_mode, the operator's switch (and the runtime's, to HALTED).     *)
(***************************************************************************)
SetMode(m) ==
    /\ m = "ACTIVE" => /\ ~NegativeWallet
                       /\ \A i \in Orders : status[i] \notin Uncertain
                       /\ ~Unsettled
    /\ mode' = m
    /\ UNCHANGED <<wallet, orderRows, expired, heads>>

\* The clock passes valid_until_ns of order i.
Expire(i) ==
    /\ i \notin expired
    /\ expired' = expired \union {i}
    /\ UNCHANGED <<mode, wallet, orderRows, heads>>

(***************************************************************************)
(* RiskGuard.check on its own, as the watchdog runs it.                    *)
(***************************************************************************)
RiskCheck(v, old) ==
    /\ head.active
    /\ mode' = Report(v, old)
    /\ UNCHANGED <<wallet, orderRows, expired, heads>>

(***************************************************************************)
(* Watchdog._stop: a lost lease, a missing heartbeat, a stale market or a  *)
(* failing check halts the account of the active deployment.               *)
(***************************************************************************)
WatchdogStop ==
    /\ head.active
    /\ mode' = Stopped("HALTED")
    /\ UNCHANGED <<wallet, orderRows, expired, heads>>
=============================================================================
