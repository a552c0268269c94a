---------------------------- MODULE MCWorkerTask ----------------------------
(***************************************************************************)
(* Instances of WorkerTask for TLC.                                        *)
(***************************************************************************)
EXTENDS WorkerTask, TLC

CONSTANTS w1, w2, p1, p2

\* A chunk within one partition and one that is split over two.
TwoChunks == {p1 :> 1 @@ p2 :> 0, p1 :> 1 @@ p2 :> 1}
=============================================================================
