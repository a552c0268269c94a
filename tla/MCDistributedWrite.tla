------------------------- MODULE MCDistributedWrite -------------------------
(***************************************************************************)
(* Instances of DistributedWrite for TLC.                                  *)
(***************************************************************************)
EXTENDS DistributedWrite, TLC

CONSTANTS o1, o2, t1, t2, append, keyed

\* Input rows per operation and logical task.
TwoTasks   == o1 :> (t1 :> 1 @@ t2 :> 2)
OneTask    == o1 :> (t1 :> 2) @@ o2 :> (t1 :> 1)
OneIsEmpty == o1 :> (t1 :> 2) @@ o2 :> (t1 :> 0)
=============================================================================
