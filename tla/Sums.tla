-------------------------------- MODULE Sums --------------------------------
(***************************************************************************)
(* Totals: row counts of files, tasks and partitions.                      *)
(***************************************************************************)
EXTENDS Integers, FiniteSets, FiniteSetsExt

\* The sum of the values of a function with a finite domain.
SumOf(f) == MapThenSumSet(LAMBDA x : f[x], DOMAIN f)
=============================================================================
