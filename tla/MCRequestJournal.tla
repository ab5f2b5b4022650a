--------------------------- MODULE MCRequestJournal ---------------------------
(* Small instances of RequestJournal. *)
EXTENDS RequestJournal, TLC

EventSymmetry == Permutations(Events)
=============================================================================
