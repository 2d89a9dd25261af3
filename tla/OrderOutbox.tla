---------------------------- MODULE OrderOutbox ----------------------------
(***************************************************************************)
(* What the order management promises about the effects of an account's    *)
(* orders, without leases, locks, answers or reconciliation:               *)
(*                                                                         *)
(*   - an order is held (its budget is kept) before it is given away,      *)
(*   - it is given to the venue at most once, and only while it is held,   *)
(*   - it is settled, which frees its budget, only when it was never given *)
(*     away or has ended at the venue,                                     *)
(*   - two orders are never being given away at the same time,             *)
(*   - the venue ends only what it was given, and a settled order is never *)
(*     taken up again.                                                     *)
(***************************************************************************)
CONSTANT Orders

VARIABLES
    stage,    \* "fresh", "held", "leaving" or "settled"
    given,    \* orders that were given to the venue
    ended     \* orders that ended at the venue

vars == <<stage, given, ended>>

Stages == {"fresh", "held", "leaving", "settled"}

Init ==
    /\ stage = [i \in Orders |-> "fresh"]
    /\ given = {}
    /\ ended = {}

Hold(i) ==
    /\ stage[i] = "fresh"
    /\ stage' = [stage EXCEPT ![i] = "held"]
    /\ UNCHANGED <<given, ended>>

\* The decision to give the order away is durable before the effect.
Prepare(i) ==
    /\ stage[i] = "held"
    /\ i \notin given
    /\ \A j \in Orders : stage[j] # "leaving"
    /\ stage' = [stage EXCEPT ![i] = "leaving"]
    /\ UNCHANGED <<given, ended>>

Give(i) ==
    /\ stage[i] = "leaving"
    /\ i \notin given
    /\ stage' = [stage EXCEPT ![i] = "held"]
    /\ given' = given \union {i}
    /\ UNCHANGED ended

\* A crash, a lost lease or a failing adapter: the order is kept.
Abandon(i) ==
    /\ stage[i] = "leaving"
    /\ stage' = [stage EXCEPT ![i] = "held"]
    /\ UNCHANGED <<given, ended>>

\* The venue rejects, fills or cancels the order.
End(i) ==
    /\ i \in given
    /\ ended' = ended \union {i}
    /\ UNCHANGED <<stage, given>>

Settle(i) ==
    /\ stage[i] \in {"held", "leaving"}
    /\ i \in given => i \in ended
    /\ stage' = [stage EXCEPT ![i] = "settled"]
    /\ UNCHANGED <<given, ended>>

Next == \E i \in Orders :
           \/ Hold(i) \/ Prepare(i) \/ Give(i) \/ Abandon(i)
           \/ End(i) \/ Settle(i)

Spec == Init /\ [][Next]_vars
=============================================================================
