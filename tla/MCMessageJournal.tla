--------------------------- MODULE MCMessageJournal ---------------------------
(* A small instance of MessageJournal. *)
EXTENDS MessageJournal

CONSTANTS e1, e2, e3
=============================================================================
