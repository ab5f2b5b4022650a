-------------------------- MODULE MCFileObjectStore --------------------------
(* Small instances of FileObjectStore. *)
EXTENDS FileObjectStore, TLC

WrapperSymmetry == Permutations(Wrappers)
=============================================================================
