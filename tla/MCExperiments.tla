--------------------------- MODULE MCExperiments ---------------------------
(***************************************************************************)
(* Instance of Experiments for TLC: two trials and two keys, one of which  *)
(* may ask for either trial, so that a key can be reused and a trial can   *)
(* be asked for twice.                                                     *)
(***************************************************************************)
EXTENDS Experiments, TLC

CONSTANTS t1, t2, k1, k2

MCTrials == {t1, t2}
MCJobs == {k1, k2}
MCRequests == {<<t1, k1>>, <<t1, k2>>, <<t2, k2>>}
MCCancellable == {k2}
=============================================================================
