--------------------------- MODULE MCRecursiveRcu ---------------------------
(* Instances of RecursiveRcu for TLC. *)
EXTENDS RecursiveRcu, TLC

MCVals == 0..5
MCRefs == 0..12
MCFns == {Plus1, Same}

Symmetry == Permutations(Threads)
=============================================================================
