--------------------------- MODULE MCCatalogCache ---------------------------
(***************************************************************************)
(* Instances of CatalogCache, in which the threads are interchangeable.    *)
(***************************************************************************)
EXTENDS CatalogCache, TLC

Symmetry == Permutations(Threads)

=============================================================================
