--------------------------- MODULE MCCommandQueue ---------------------------
(***************************************************************************)
(* Instance of CommandQueue for TLC.  Commands are interchangeable and so  *)
(* are the workers; symmetry is used by the safety run only.               *)
(***************************************************************************)
EXTENDS CommandQueue, TLC

Symmetry == Permutations(Commands) \union Permutations(Workers)
=============================================================================
