------------------------- MODULE MCFileTransaction -------------------------
(* FileTransaction on small instances, for TLC. *)
EXTENDS FileTransaction, TLC

Symmetry == Permutations(Paths) \cup Permutations(Contents)
=============================================================================
