------------------------- MODULE MCDistributedScan -------------------------
(***************************************************************************)
(* Instances of DistributedScan: what ATTACH and AT may ask for, and two   *)
(* scans, one of which has a filter.                                       *)
(***************************************************************************)
EXTENDS DistributedScan, TLC

Pin(kind, n) == [kind |-> kind, n |-> n]

MCAttachPins == {NoPin, Pin("id", 1)}
MCAtPins     == {NoPin, Pin("id", 2), Pin("time", 1)}

\* Tasks are interchangeable.
MCSymmetry == Permutations(Tasks)

\* The filter of q2 matches split 2, and Paimon skips split 1.
MCMatch == [q \in Scans |-> IF q = "q2" THEN {2} ELSE Splits]
MCSkips == [q \in Scans |-> IF q = "q2" THEN {1} ELSE {}]
=============================================================================
