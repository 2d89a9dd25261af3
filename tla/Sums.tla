-------------------------------- MODULE Sums --------------------------------
(***************************************************************************)
(* The sum of a column over a set of rows: the SUM() of the repositories'  *)
(* queries, and what the totals kept beside the rows are compared with.    *)
(***************************************************************************)
EXTENDS FiniteSetsExt

\* r is the column, S the keys of the rows.
SumOf(r, S) == MapThenSumSet(LAMBDA i : r[i], S)
=============================================================================
