--------------------------- MODULE OMSRefinement ---------------------------
(***************************************************************************)
(* OMS implements OrderOutbox.  The order rows, the processes and the      *)
(* venue of OMS are seen as the three variables of the promise.            *)
(***************************************************************************)
EXTENDS OMS

\* The process that claimed order i has not yet given it to the adapter.
Leaving(i) == \E p \in Procs : at[p].pc \in {"recheck", "send"} /\ at[p].order = i

StageOf(i) ==
    IF status[i] = "NEW" THEN "fresh"
    ELSE IF status[i] \in Terminal THEN "settled"
    ELSE IF Leaving(i) THEN "leaving" ELSE "held"

Outbox == INSTANCE OrderOutbox WITH
              stage <- [i \in Orders |-> StageOf(i)],
              given <- {i \in Orders : sends[i] > 0},
              ended <- {i \in Orders : venue[i].state \in Ended}

\* Whatever the processes, leases, answers and crashes do, what happens to the
\* orders of an account is a behaviour of the outbox: decided before it is done,
\* done once, one at a time, and settled only by an end at the venue.
ImplementsOutbox == Outbox!Spec
=============================================================================
