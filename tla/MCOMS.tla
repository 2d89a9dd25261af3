------------------------------- MODULE MCOMS -------------------------------
(***************************************************************************)
(* Small instances of OMS.  The configurations choose the orders, the      *)
(* processes and the calls; the functions on orders are defined here.      *)
(***************************************************************************)
EXTENDS OMSRefinement, TLC

CONSTANTS
    Size,     \* quantity of every order
    Worse,    \* orders whose fills are worse than their terms
    Later,    \* orders made under a second deployment
    Rehearsed \* orders made under a third one

\* The values of the constants that are functions.
MCQty == [i \in Orders |-> Size]
MCExtra == [i \in Orders |-> IF i \in Worse THEN 1 ELSE 0]
MCDep == [i \in Orders |-> CASE i \in Later -> "d2" [] i \in Rehearsed -> "d3" [] OTHER -> "d1"]

\* Processes are interchangeable.
Symmetry == Permutations(Procs)
=============================================================================
