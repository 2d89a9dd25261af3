-------------------------- MODULE MCTradingRuntime --------------------------
(***************************************************************************)
(* The instance of TradingRuntime that TLC checks: a first bar, and a      *)
(* second one that both processes receive, each with a receipt of its own. *)
(***************************************************************************)
EXTENDS TradingRuntime, TLC

MCBar == [e \in Events |-> IF e = 1 THEN 1 ELSE 2]
Symmetry == Permutations(Runtimes)
=============================================================================
