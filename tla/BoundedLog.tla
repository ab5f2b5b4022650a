------------------------------ MODULE BoundedLog ------------------------------
(***************************************************************************)
(* What a request journal with a limit promises: the newest MaxEntries     *)
(* events, newest first.  An event is lost only to a newer one, except     *)
(* that an eviction which is no longer due may take the oldest.            *)
(***************************************************************************)
EXTENDS Naturals, Sequences

CONSTANTS Events, MaxEntries

VARIABLES
  log,    \* the events listed, newest first
  overdue \* an eviction has been decided on that is no longer due

vars == <<log, overdue>>

Newest(s) == IF Len(s) > MaxEntries THEN SubSeq(s, 1, MaxEntries) ELSE s

Init == log = <<>> /\ ~overdue

Record(e) ==
  /\ \A i \in 1 .. Len(log) : log[i] # e
  /\ log' = Newest(<<e>> \o log)

LoseOldest ==
  /\ overdue
  /\ log # <<>>
  /\ log' = SubSeq(log, 1, Len(log) - 1)

Next ==
  /\ (\E e \in Events : Record(e)) \/ LoseOldest \/ UNCHANGED log
  /\ overdue' \in BOOLEAN

Spec == Init /\ [][Next]_vars
=============================================================================
