---------------------------- MODULE MCObjectStore ----------------------------
(* A small instance of ObjectStore. *)
EXTENDS ObjectStore, TLC

Symmetry == Permutations(Keys) \cup Permutations(Threads)
=============================================================================
