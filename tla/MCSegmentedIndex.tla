-------------------------- MODULE MCSegmentedIndex --------------------------
(***************************************************************************)
(* SegmentedIndex on small instances.                                      *)
(***************************************************************************)
EXTENDS SegmentedIndexRootProofs

Symmetry == Permutations(Indexers)

=============================================================================
