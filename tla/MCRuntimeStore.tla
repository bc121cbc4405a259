--------------------------- MODULE MCRuntimeStore ---------------------------
(* RuntimeStore on small instances, for TLC. *)
EXTENDS RuntimeStore, TLC

StoreSymmetry == Permutations(Threads) \cup Permutations(Turns) \cup Permutations(Keys)
=============================================================================
