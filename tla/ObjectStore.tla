------------------------------ MODULE ObjectStore ------------------------------
(***************************************************************************)
(* store/InMemoryObjectStore: a ConcurrentHashMap of the objects and a     *)
(* ConcurrentLinkedQueue of their keys in the order of use, from which     *)
(* resize evicts.  The two change one after the other and no lock is taken.*)
(***************************************************************************)
EXTENDS Naturals, SequencesExt

CONSTANTS
  Keys,
  Threads,
  MaxItems,
  MaxCalls, \* bound: calls begun
  None

ASSUME ObjectStoreAssumption ==
  /\ IsFiniteSet(Threads)
  /\ MaxItems \in Nat \ {0}
  /\ MaxCalls \in Nat
  /\ None \notin Keys

VARIABLES
  cache,     \* keys in the map
  queue,     \* keyUseOrder: nodes [key, nr], one for each offer
  offers,    \* offers made
  call,      \* the call each thread is in
  begun,     \* calls begun
  last,      \* history: the call that ended last
  start,     \* history: the keys in use order when the last call began
  calm,      \* history: no calls have overlapped since the store was last sound
  contended  \* history: keys that two calls have had in hand at once since then

storeVars == <<cache, queue, offers>>
vars == <<storeVars, call, begun, last, start, calm, contended>>

CallOf(op, k, at) == [op |-> op, key |-> k, at |-> at, seen |-> 0, n |-> 0, victim |-> None]

Idle == CallOf("none", None, "")

UseOrder(q) == [i \in 1 .. Len(q) |-> q[i].key]

\* The nodes are in the order in which they were offered, and a call knows the
\* key it is evicting for as long as it evicts it.
TypeOK ==
  /\ cache \subseteq Keys
  /\ offers \in Nat
  /\ queue \in Seq([key : Keys, nr : 1 .. offers])
  /\ \A i, j \in 1 .. Len(queue) : i < j => queue[i].nr < queue[j].nr
  /\ call \in [Threads ->
       [op : {"none", "put", "get", "remove", "clear"}, key : Keys \cup {None},
        at : {"", "unuse", "offer", "size", "poll", "evict", "unuseVictim", "forget", "clear"},
        seen : 0 .. offers, n : 0 .. offers, victim : Keys \cup {None}]]
  /\ \A t \in Threads :
       /\ (call[t].op = "none") <=> (call[t] = Idle)
       /\ (call[t].victim # None) <=> (call[t].at \in {"evict", "unuseVictim"})
  /\ begun \in 0 .. MaxCalls
  /\ contended \subseteq Keys

Init ==
  /\ cache = {}
  /\ queue = <<>>
  /\ offers = 0
  /\ call = [t \in Threads |-> Idle]
  /\ begun = 0
  /\ last = <<>>
  /\ start = <<>>
  /\ calm = TRUE
  /\ contended = {}

-----------------------------------------------------------------------------

Begin(t, op, k, at) ==
  /\ call[t] = Idle
  /\ begun < MaxCalls
  /\ begun' = begun + 1
  /\ call' = [call EXCEPT ![t] = CallOf(op, k, at)]
  /\ start' = UseOrder(queue)
  /\ UNCHANGED <<queue, offers, last>>

\* put, and compute when its function has a result.
Put(t, k) ==
  /\ Begin(t, "put", k, "unuse")
  /\ cache' = cache \cup {k}

Get(t, k) ==
  /\ k \in cache
  /\ Begin(t, "get", k, "unuse")
  /\ UNCHANGED cache

\* remove, and compute when its function has none.
Discard(t, k) ==
  /\ Begin(t, "remove", k, "forget")
  /\ cache' = cache \ {k}

\* The key of clear is of no meaning.
Clear(t, k) ==
  /\ Begin(t, "clear", k, "clear")
  /\ cache' = {}

At(t, label) == call[t].at = label

Goto(t, label) ==
  /\ call' = [call EXCEPT ![t].at = label]
  /\ UNCHANGED <<begun, last, start>>

EndCall(t) ==
  /\ call' = [call EXCEPT ![t] = Idle]
  /\ last' = <<call[t].op, call[t].key>>
  /\ UNCHANGED <<begun, start>>

\* Queue.remove takes out the first node with the key, if there is one.
Unqueue(k) ==
  \/ \E i \in 1 .. Len(queue) :
       /\ queue[i].key = k
       /\ \A j \in 1 .. i - 1 : queue[j].key # k
       /\ queue' = RemoveAt(queue, i)
  \/ (\A i \in 1 .. Len(queue) : queue[i].key # k) /\ UNCHANGED queue

\* touch: remove and offer
\* Mutant: the key is only offered again.
TouchRemovesNothing(t) == At(t, "unuse") /\ Goto(t, "offer") /\ UNCHANGED storeVars

TouchRemoves(t) ==
  /\ At(t, "unuse")
  /\ Unqueue(call[t].key)
  /\ Goto(t, "offer")
  /\ UNCHANGED <<cache, offers>>

TouchOffers(t) ==
  /\ At(t, "offer")
  /\ offers' = offers + 1
  /\ queue' = Append(queue, [key |-> call[t].key, nr |-> offers'])
  /\ IF call[t].op = "put" THEN Goto(t, "size") ELSE EndCall(t)
  /\ UNCHANGED cache

\* resize: size() walks the queue, and meets what is offered in the meantime.
Ahead(t) == {i \in 1 .. Len(queue) : queue[i].nr > call[t].seen}

SizeVisits(t) ==
  /\ At(t, "size")
  /\ \E i \in Ahead(t) :
       /\ \A j \in Ahead(t) : i <= j
       /\ call' = [call EXCEPT ![t].seen = queue[i].nr, ![t].n = @ + 1]
  /\ UNCHANGED <<storeVars, begun, last, start>>

\* Mutant: one item too many.
TooManyOver(t) == call[t].n > MaxItems + 1

TooMany(t) == call[t].n > MaxItems

SizeKnown(t) ==
  /\ At(t, "size")
  /\ Ahead(t) = {}
  /\ IF TooMany(t) THEN Goto(t, "poll") ELSE EndCall(t)
  /\ UNCHANGED storeVars

\* poll gives null when others have emptied the queue meanwhile, and removing
\* a null key from the map is a NullPointerException: the call fails.
Poll(t) ==
  /\ At(t, "poll")
  /\ IF queue = <<>>
     THEN EndCall(t) /\ UNCHANGED queue
     ELSE /\ queue' = Tail(queue)
          /\ call' = [call EXCEPT ![t].at = "evict", ![t].victim = Head(queue).key]
          /\ UNCHANGED <<begun, last, start>>
  /\ UNCHANGED <<cache, offers>>

Evict(t) ==
  /\ At(t, "evict")
  /\ cache' = cache \ {call[t].victim}
  /\ Goto(t, "unuseVictim")
  /\ UNCHANGED <<queue, offers>>

\* Mutant: the key polled is not forgotten.
EvictedUseKept(t) ==
  /\ At(t, "unuseVictim")
  /\ Unqueue(call[t].victim)
  /\ call' = [call EXCEPT ![t].at = "size", ![t].seen = 0, ![t].n = 0]
  /\ UNCHANGED <<cache, offers, begun, last, start>>

EvictedUse(t) ==
  /\ At(t, "unuseVictim")
  /\ Unqueue(call[t].victim)
  /\ call' = [call EXCEPT ![t].at = "size", ![t].victim = None, ![t].seen = 0, ![t].n = 0]
  /\ UNCHANGED <<cache, offers, begun, last, start>>

\* Mutant: a removed key stays in the queue.
ForgetNothing(t) == At(t, "forget") /\ EndCall(t) /\ UNCHANGED storeVars

Forget(t) ==
  /\ At(t, "forget")
  /\ Unqueue(call[t].key)
  /\ EndCall(t)
  /\ UNCHANGED <<cache, offers>>

\* keyUseOrder.clear polls until there is nothing left.
ClearPolls(t) ==
  /\ At(t, "clear")
  /\ IF queue = <<>>
     THEN EndCall(t) /\ UNCHANGED queue
     ELSE queue' = Tail(queue) /\ UNCHANGED <<call, begun, last, start>>
  /\ UNCHANGED <<cache, offers>>

-----------------------------------------------------------------------------
(* History                                                                 *)

AtRest == \A t \in Threads : call[t] = Idle

Sound ==
  /\ AtRest
  /\ Len(queue) <= MaxItems
  /\ Len(queue) = Cardinality(cache)
  /\ cache = ToSet(UseOrder(queue))

Hands(t) ==
  IF call[t].op = "clear" THEN Keys ELSE {call[t].key, call[t].victim} \ {None}

Shared == {k \in Keys : \E t, u \in Threads : t # u /\ k \in Hands(t) \cap Hands(u)}

Alone == Cardinality({t \in Threads : call[t] # Idle}) <= 1

Track ==
  /\ calm' = (Sound' \/ (calm /\ Alone'))
  /\ contended' = IF Sound' THEN {} ELSE contended \cup Shared'

-----------------------------------------------------------------------------

Call(t) ==
  \E k \in Keys : Put(t, k) \/ Get(t, k) \/ Discard(t, k) \/ Clear(t, k)

Work(t) ==
  \/ TouchRemoves(t) \/ TouchOffers(t)
  \/ SizeVisits(t) \/ SizeKnown(t)
  \/ Poll(t) \/ Evict(t) \/ EvictedUse(t)
  \/ Forget(t) \/ ClearPolls(t)

Next == (\E t \in Threads : Call(t) \/ Work(t)) /\ Track

Spec == Init /\ [][Next]_vars

-----------------------------------------------------------------------------
(* Properties                                                              *)

Order == IF AtRest THEN UseOrder(queue) ELSE start

Lru == INSTANCE LruCache WITH order <- Order

\* InMemoryObjectStoreTest.removesLeastRecentlyAccessedWhenPuttingInExcessOfLimit:
\* a call that overlaps with no other leaves the keys of an LRU cache, however
\* calls overlapped before the store was last sound.
AloneIsLru == Lru!Init /\ [][(calm /\ calm') => [Lru!Next]_Lru!vars]_vars

\* Between calls a key is in the map if and only if it is in the queue, once,
\* so that it can be evicted, unless two calls have had it in hand at once.
KeysAreQueued ==
  AtRest =>
    \A k \in Keys \ contended :
      (IF k \in cache THEN 1 ELSE 0)
        = Cardinality({i \in 1 .. Len(queue) : queue[i].key = k})

\* Between calls the store is over its limit by no more keys than there are
\* other threads, not counting those that two calls have had in hand at once.
ExcessIsBounded ==
  AtRest => Cardinality(cache \ contended) <= MaxItems + Cardinality(Threads) - 1
=============================================================================
