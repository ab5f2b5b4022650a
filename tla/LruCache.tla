------------------------------- MODULE LruCache -------------------------------
(***************************************************************************)
(* What an in-memory object store promises one client: at most MaxItems    *)
(* keys, of which a new one displaces the least recently used.             *)
(***************************************************************************)
EXTENDS Naturals, SequencesExt

CONSTANTS Keys, MaxItems

VARIABLES
  order, \* the keys stored, the least recently used first
  last   \* the call that ended last

vars == <<order, last>>

Stored(k) == \E i \in 1 .. Len(order) : order[i] = k

\* A key is stored once.
Without(k) ==
  IF Stored(k) THEN RemoveAt(order, CHOOSE i \in 1 .. Len(order) : order[i] = k) ELSE order

Newest(s) == IF Len(s) > MaxItems THEN SubSeq(s, Len(s) - MaxItems + 1, Len(s)) ELSE s

Init == order = <<>> /\ last = <<>>

\* put, or compute with a result
Put(k) == order' = Newest(Append(Without(k), k)) /\ last' = <<"put", k>>

Get(k) ==
  /\ order' = IF Stored(k) THEN Append(Without(k), k) ELSE order
  /\ last' = <<"get", k>>

\* remove, or compute without a result
Discard(k) == order' = Without(k) /\ last' = <<"remove", k>>

Clear(k) == order' = <<>> /\ last' = <<"clear", k>>

Next == \E k \in Keys : Put(k) \/ Get(k) \/ Discard(k) \/ Clear(k)
=============================================================================
