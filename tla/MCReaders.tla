------------------------------ MODULE MCReaders ------------------------------
(* Two storages, for TLC.                                                   *)
EXTENDS Readers, TLC

CONSTANTS p, q, v, w

Swapped == Permutations({p, q})
=============================================================================
