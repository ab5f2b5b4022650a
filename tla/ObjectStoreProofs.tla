--------------------------- MODULE ObjectStoreProofs ---------------------------
(***************************************************************************)
(* Proofs about ObjectStore, for any number of threads, keys and calls and *)
(* any limit: how the map and the queue agree on a key that one call at a  *)
(* time has in hand, how far overlapping calls exceed the limit, and that  *)
(* calls which do not overlap implement LruCache.                          *)
(***************************************************************************)
EXTENDS ObjectStore, FiniteSetTheorems, SequenceTheorems, TLAPS

-----------------------------------------------------------------------------
(* The invariants                                                          *)

\* The nodes of the queue, and whether one is there for a key.
Nodes == ToSet(queue)
Queued(k) == \E m \in Nodes : m.key = k

\* A call is at the steps of its operation, with a key, and has not counted
\* more nodes than were offered.
CallInv ==
  \A t \in Threads :
    /\ call[t].op # "none" => call[t].key \in Keys
    /\ call[t].op = "put" => call[t].at \in {"unuse", "offer", "size", "poll", "evict", "unuseVictim"}
    /\ call[t].op = "get" => call[t].at \in {"unuse", "offer"}
    /\ call[t].op = "remove" => call[t].at = "forget"
    /\ call[t].op = "clear" => call[t].at = "clear"
    /\ call[t].n <= call[t].seen
    /\ call[t].at \in {"unuse", "offer"} => call[t].seen = 0

\* The call of t is between its change of the map for k and that of the queue.
Works(t, k) ==
  \/ call[t].op = "clear"
  \/ call[t].key = k /\ call[t].at \in {"unuse", "offer", "forget"}
  \/ call[t].victim = k

\* What is true of k then.
Midway(t, k) ==
  /\ call[t].op \in {"put", "get"} /\ call[t].at \in {"unuse", "offer"} => k \in cache
  /\ call[t].op = "get" /\ call[t].at = "unuse" => Queued(k)
  /\ call[t].at \in {"offer", "evict", "unuseVictim"} => ~Queued(k)
  /\ call[t].at \in {"forget", "clear", "unuseVictim"} => k \notin cache

OneNode(k) == \A m, p \in Nodes : m.key = k /\ p.key = k => m = p

\* A key that one call at a time has in hand: it has one node at most, and is
\* in the map if and only if it has one, except while a call works on it.
InOrder(k) ==
  /\ \A t, u \in Threads : k \in Hands(t) /\ k \in Hands(u) => t = u
  /\ OneNode(k)
  /\ (\A t \in Threads : ~Works(t, k)) => (k \in cache <=> Queued(k))
  /\ \A t \in Threads : Works(t, k) => Midway(t, k)

KeyInv == \A k \in Keys \ contended : InOrder(k)

\* The nodes that a walk has left behind are among those it has counted.
Behind(t) == {r \in 1 .. call[t].seen : \E m \in Nodes : m.nr = r}

WalkInv ==
  \A t \in Threads : call[t].at = "size" => Cardinality(Behind(t)) <= call[t].n

\* The keys that are in the queue, or come back to it when a get ends.
InUse ==
  {k \in Keys \ contended :
     Queued(k) \/ \E t \in Threads : call[t].op = "get" /\ call[t].at = "offer" /\ call[t].key = k}

\* No put ends before it has met a queue that is short enough.
ExcessInv ==
  (\A t \in Threads : call[t].op # "put") =>
    Cardinality(InUse) <= MaxItems + Cardinality(Threads) - 1

IInv == TypeOK /\ CallInv /\ KeyInv /\ WalkInv /\ ExcessInv

-----------------------------------------------------------------------------
(* What the operations of the queue do to its nodes                        *)

Node == [key : Keys, nr : 1 .. offers]

Increasing(q) == \A i, j \in 1 .. Len(q) : i < j => q[i].nr < q[j].nr

LEMMA RemoveAtProperties ==
  ASSUME NEW S, NEW s \in Seq(S), NEW k \in DOMAIN s
  PROVE  /\ RemoveAt(s, k) \in Seq(S)
         /\ Len(RemoveAt(s, k)) = Len(s) - 1
         /\ \A i \in 1 .. Len(s) - 1 : RemoveAt(s, k)[i] = IF i < k THEN s[i] ELSE s[i + 1]
<1> DEFINE l == SubSeq(s, 1, k - 1)
           r == SubSeq(s, k + 1, Len(s))
           t == l \o r
<1>1. DOMAIN s = 1 .. Len(s) /\ Len(s) \in Nat /\ k \in 1 .. Len(s)
  OBVIOUS
<1>2. /\ l \in Seq(S) /\ Len(l) = k - 1 /\ \A i \in 1 .. k - 1 : l[i] = s[i]
  <2>1. \A i \in 1 .. k - 1 : s[i] \in S
    BY <1>1
  <2> QED BY <1>1, <2>1, SubSeqProperties
<1>3. /\ r \in Seq(S) /\ Len(r) = Len(s) - k
      /\ \A i \in 1 .. Len(s) - k : r[i] = s[k + i]
  <2>1. \A i \in k + 1 .. Len(s) : s[i] \in S
    BY <1>1
  <2>2. /\ r \in Seq(S)
        /\ Len(r) = IF k + 1 <= Len(s) THEN Len(s) - (k + 1) + 1 ELSE 0
        /\ \A i \in 1 .. Len(s) - (k + 1) + 1 : r[i] = s[k + 1 + i - 1]
    BY <1>1, <2>1, SubSeqProperties
  <2> QED BY <1>1, <2>2
<1> HIDE DEF l, r
<1>4. /\ t \in Seq(S)
      /\ Len(t) = Len(s) - 1
      /\ \A i \in 1 .. Len(s) - 1 : t[i] = IF i <= k - 1 THEN l[i] ELSE r[i - (k - 1)]
  <2>1. /\ l \o r \in Seq(S)
        /\ Len(l \o r) = Len(l) + Len(r)
        /\ \A i \in 1 .. Len(l) + Len(r) :
             (l \o r)[i] = IF i <= Len(l) THEN l[i] ELSE r[i - Len(l)]
    <3>1. l \in Seq(S) /\ r \in Seq(S)
      BY <1>2, <1>3
    <3> QED BY <3>1, ConcatProperties
  <2>2. Len(l) + Len(r) = Len(s) - 1 /\ Len(l) = k - 1
    BY <1>1, <1>2, <1>3
  <2> QED BY <2>1, <2>2
<1> HIDE DEF t
<1>5. \A i \in 1 .. Len(s) - 1 : t[i] = IF i < k THEN s[i] ELSE s[i + 1]
  <2> SUFFICES ASSUME NEW i \in 1 .. Len(s) - 1
               PROVE  t[i] = IF i < k THEN s[i] ELSE s[i + 1]
    OBVIOUS
  <2>1. CASE i < k
    <3>1. i \in 1 .. k - 1 /\ i <= k - 1
      BY <1>1, <2>1
    <3> QED BY <1>2, <1>4, <2>1, <3>1
  <2>2. CASE ~(i < k)
    <3>1. i - (k - 1) \in 1 .. Len(s) - k /\ ~(i <= k - 1) /\ k + (i - (k - 1)) = i + 1
      BY <1>1, <2>2
    <3> QED BY <1>3, <1>4, <2>2, <3>1
  <2> QED BY <2>1, <2>2
<1> QED BY <1>4, <1>5 DEF t, l, r, RemoveAt


LEMMA RemoveAtNodes ==
  ASSUME NEW q \in Seq(Node), Increasing(q), NEW k \in DOMAIN q, offers \in Nat
  PROVE  /\ RemoveAt(q, k) \in Seq(Node)
         /\ Increasing(RemoveAt(q, k))
         /\ ToSet(RemoveAt(q, k)) = ToSet(q) \ {q[k]}
<1> DEFINE t == RemoveAt(q, k)
           p(i) == IF i < k THEN i ELSE i + 1
<1>1. DOMAIN q = 1 .. Len(q) /\ Len(q) \in Nat /\ k \in 1 .. Len(q)
  OBVIOUS
<1>2. t \in Seq(Node) /\ Len(t) = Len(q) - 1 /\ DOMAIN t = 1 .. Len(q) - 1
  BY RemoveAtProperties
<1>3. \A i \in 1 .. Len(q) - 1 : t[i] = q[p(i)] /\ p(i) \in 1 .. Len(q) /\ p(i) # k
  BY <1>1, RemoveAtProperties
<1>4. \A i, j \in 1 .. Len(q) - 1 : i < j => p(i) < p(j)
  BY <1>1
<1>5. \A j \in 1 .. Len(q) : j # k => \E i \in 1 .. Len(q) - 1 : p(i) = j
  <2> SUFFICES ASSUME NEW j \in 1 .. Len(q), j # k
               PROVE  \E i \in 1 .. Len(q) - 1 : p(i) = j
    OBVIOUS
  <2>1. CASE j < k
    <3>1. j \in 1 .. Len(q) - 1 /\ p(j) = j
      BY <1>1, <2>1
    <3> QED BY <3>1
  <2>2. CASE j > k
    <3>1. j - 1 \in 1 .. Len(q) - 1 /\ p(j - 1) = j
      BY <1>1, <2>2
    <3> QED BY <3>1
  <2> QED BY <1>1, <2>1, <2>2
<1>6. \A i, j \in 1 .. Len(q) : i # j => q[i] # q[j]
  <2>1. \A i \in 1 .. Len(q) : q[i] \in Node
    BY <1>1
  <2>2. \A i \in 1 .. Len(q) : q[i].nr \in Nat
    BY <2>1 DEF Node
  <2> QED BY <1>1, <2>2 DEF Increasing
<1> HIDE DEF t, p
<1>7. Increasing(t)
  <2> SUFFICES ASSUME NEW i \in 1 .. Len(q) - 1, NEW j \in 1 .. Len(q) - 1, i < j
               PROVE  t[i].nr < t[j].nr
    BY <1>2 DEF Increasing
  <2> QED BY <1>3, <1>4 DEF Increasing
<1>8. ToSet(t) \subseteq ToSet(q) \ {q[k]}
  BY <1>1, <1>2, <1>3, <1>6 DEF ToSet
<1>9. ToSet(q) \ {q[k]} \subseteq ToSet(t)
  <2> SUFFICES ASSUME NEW j \in 1 .. Len(q), q[j] # q[k]
               PROVE  q[j] \in ToSet(t)
    BY <1>1 DEF ToSet
  <2>1. PICK i \in 1 .. Len(q) - 1 : p(i) = j
    BY <1>5
  <2> QED BY <1>2, <1>3, <2>1 DEF ToSet
<1> QED BY <1>2, <1>7, <1>8, <1>9 DEF t

LEMMA UnqueueNodes ==
  ASSUME TypeOK, NEW k, Unqueue(k)
  PROVE  /\ queue' \in Seq(Node)
         /\ Increasing(queue')
         /\ ToSet(queue') \subseteq Nodes
         /\ \A m \in Nodes : m.key # k => m \in ToSet(queue')
         /\ (\A m, p \in Nodes : m.key = k /\ p.key = k => m = p) =>
              \A m \in ToSet(queue') : m.key # k
<1>1. queue \in Seq(Node) /\ Increasing(queue) /\ offers \in Nat
  BY DEF TypeOK, Node, Increasing
<1>2. DOMAIN queue = 1 .. Len(queue)
  BY <1>1
<1>3. CASE \E i \in 1 .. Len(queue) : queue[i].key = k /\ queue' = RemoveAt(queue, i)
  <2> PICK i \in 1 .. Len(queue) : queue[i].key = k /\ queue' = RemoveAt(queue, i)
    BY <1>3
  <2>1. queue[i] \in Nodes
    BY <1>2 DEF Nodes, ToSet
  <2> QED BY <1>1, <1>2, <2>1, RemoveAtNodes DEF Nodes
<1>4. CASE (\A i \in 1 .. Len(queue) : queue[i].key # k) /\ UNCHANGED queue
  BY <1>1, <1>2, <1>4 DEF Nodes, ToSet
<1> QED BY <1>3, <1>4 DEF Unqueue

LEMMA TailNodes ==
  ASSUME TypeOK, queue # <<>>
  PROVE  /\ Tail(queue) \in Seq(Node)
         /\ Increasing(Tail(queue))
         /\ Head(queue) \in Nodes /\ Head(queue) \in Node
         /\ ToSet(Tail(queue)) = Nodes \ {Head(queue)}
<1>1. queue \in Seq(Node) /\ Increasing(queue) /\ offers \in Nat
  BY DEF TypeOK, Node, Increasing
<1>2. /\ Tail(queue) \in Seq(Node)
      /\ Len(Tail(queue)) = Len(queue) - 1
      /\ \A i \in 1 .. Len(queue) - 1 : Tail(queue)[i] = queue[i + 1]
      /\ Head(queue) = queue[1] /\ Head(queue) \in Node
  BY <1>1, HeadTailProperties
<1>3. /\ DOMAIN queue = 1 .. Len(queue) /\ Len(queue) \in Nat \ {0}
      /\ DOMAIN Tail(queue) = 1 .. Len(queue) - 1
  BY <1>1, <1>2, EmptySeq
<1>4. \A i \in 1 .. Len(queue) - 1 : i + 1 \in 1 .. Len(queue) /\ 1 < i + 1
  BY <1>3
<1>5. \A i \in 1 .. Len(queue) : i = 1 \/ (i - 1 \in 1 .. Len(queue) - 1 /\ Tail(queue)[i - 1] = queue[i])
  BY <1>2, <1>3
<1>6. \A i \in 1 .. Len(queue) : queue[i].nr \in Nat
  <2>1. \A i \in 1 .. Len(queue) : queue[i] \in Node
    BY <1>1, <1>3
  <2> QED BY <1>1, <2>1 DEF Node
<1>7. Increasing(Tail(queue))
  BY <1>1, <1>2, <1>3, <1>4 DEF Increasing
<1>8. Head(queue) \in Nodes
  BY <1>2, <1>3 DEF Nodes, ToSet
<1>9. ToSet(Tail(queue)) \subseteq Nodes \ {Head(queue)}
  <2>1. \A i \in 1 .. Len(queue) - 1 : queue[i + 1] # queue[1]
    BY <1>1, <1>3, <1>4, <1>6 DEF Increasing
  <2> QED BY <1>2, <1>3, <1>4, <2>1 DEF Nodes, ToSet
<1>10. Nodes \ {Head(queue)} \subseteq ToSet(Tail(queue))
  <2> SUFFICES ASSUME NEW i \in 1 .. Len(queue), queue[i] # Head(queue)
               PROVE  queue[i] \in ToSet(Tail(queue))
    BY <1>3 DEF Nodes, ToSet
  <2>1. i - 1 \in 1 .. Len(queue) - 1 /\ Tail(queue)[i - 1] = queue[i]
    BY <1>2, <1>5
  <2> QED BY <1>3, <2>1 DEF ToSet
<1> QED BY <1>2, <1>7, <1>8, <1>9, <1>10

LEMMA AppendNodes ==
  ASSUME TypeOK, NEW k \in Keys
  PROVE  LET q == Append(queue, [key |-> k, nr |-> offers + 1])
         IN  /\ q \in Seq([key : Keys, nr : 1 .. offers + 1])
             /\ Increasing(q)
             /\ ToSet(q) = Nodes \cup {[key |-> k, nr |-> offers + 1]}
<1> DEFINE m == [key |-> k, nr |-> offers + 1]
           q == Append(queue, m)
           N == [key : Keys, nr : 1 .. offers + 1]
<1>1. queue \in Seq(Node) /\ Increasing(queue) /\ offers \in Nat
  BY DEF TypeOK, Node, Increasing
<1>2. DOMAIN queue = 1 .. Len(queue) /\ Len(queue) \in Nat
  BY <1>1
<1>3. \A i \in 1 .. Len(queue) : queue[i].nr \in 1 .. offers
  <2>1. \A i \in 1 .. Len(queue) : queue[i] \in Node
    BY <1>1, <1>2
  <2> QED BY <2>1 DEF Node
<1>4. queue \in Seq(N)
  <2>1. Node \subseteq N
    BY <1>1 DEF Node
  <2> HIDE DEF N
  <2>2. \A i \in 1 .. Len(queue) : queue[i] \in Node
    BY <1>1, <1>2
  <2>3. \A i \in 1 .. Len(queue) : queue[i] \in N
    BY <2>1, <2>2
  <2>4. queue = [i \in 1 .. Len(queue) |-> queue[i]]
    BY <1>1, <1>2
  <2> QED BY <1>2, <2>3, <2>4, IsASeq
<1>5. m \in N
  BY <1>1
<1> HIDE DEF m, N
<1>6. /\ q \in Seq(N) /\ Len(q) = Len(queue) + 1 /\ DOMAIN q = 1 .. Len(queue) + 1
      /\ \A i \in 1 .. Len(queue) : q[i] = queue[i]
      /\ q[Len(queue) + 1] = m
  BY <1>4, <1>5, AppendProperties
<1> HIDE DEF q
<1>7. \A i \in 1 .. Len(queue) + 1 : i \in 1 .. Len(queue) \/ i = Len(queue) + 1
  BY <1>2
<1>8. m.nr = offers + 1
  BY DEF m
<1>9. Increasing(q)
  <2> SUFFICES ASSUME NEW i \in 1 .. Len(queue) + 1, NEW j \in 1 .. Len(queue) + 1, i < j
               PROVE  q[i].nr < q[j].nr
    BY <1>6 DEF Increasing
  <2>1. i \in 1 .. Len(queue)
    BY <1>2
  <2>2. CASE j \in 1 .. Len(queue)
    BY <1>1, <1>6, <2>1, <2>2 DEF Increasing
  <2>3. CASE j = Len(queue) + 1
    BY <1>1, <1>3, <1>6, <1>8, <2>1, <2>3
  <2> QED BY <1>7, <2>2, <2>3
<1>10. ToSet(q) \subseteq Nodes \cup {m}
  BY <1>2, <1>6, <1>7 DEF Nodes, ToSet
<1>11. Nodes \cup {m} \subseteq ToSet(q)
  <2>1. Len(queue) + 1 \in 1 .. Len(queue) + 1 /\ \A i \in 1 .. Len(queue) : i \in 1 .. Len(queue) + 1
    BY <1>2
  <2> QED BY <1>2, <1>6, <2>1 DEF Nodes, ToSet
<1> QED BY <1>6, <1>9, <1>10, <1>11 DEF q, m, N

-----------------------------------------------------------------------------
(* Types                                                                   *)

CallType ==
  [op : {"none", "put", "get", "remove", "clear"}, key : Keys \cup {None},
   at : {"", "unuse", "offer", "size", "poll", "evict", "unuseVictim", "forget", "clear"},
   seen : 0 .. offers, n : 0 .. offers, victim : Keys \cup {None}]

\* What TypeOK says of the queue, and of the rest.
QueueOK == offers \in Nat /\ queue \in Seq(Node) /\ Increasing(queue)

OneCallOK(t) ==
  /\ (call[t].op = "none") <=> (call[t] = Idle)
  /\ (call[t].victim # None) <=> (call[t].at \in {"evict", "unuseVictim"})
  /\ call[t].op # "none" => call[t].key \in Keys
  /\ call[t].op = "put" => call[t].at \in {"unuse", "offer", "size", "poll", "evict", "unuseVictim"}
  /\ call[t].op = "get" => call[t].at \in {"unuse", "offer"}
  /\ call[t].op = "remove" => call[t].at = "forget"
  /\ call[t].op = "clear" => call[t].at = "clear"
  /\ call[t].n <= call[t].seen
  /\ call[t].at \in {"unuse", "offer"} => call[t].seen = 0

CallsOK == call \in [Threads -> CallType] /\ \A t \in Threads : OneCallOK(t)

LEMMA TypeParts ==
  (TypeOK /\ CallInv) <=>
    QueueOK /\ CallsOK /\ cache \subseteq Keys /\ begun \in 0 .. MaxCalls /\ contended \subseteq Keys
BY DEF TypeOK, CallInv, QueueOK, CallsOK, OneCallOK, CallType, Node, Increasing

\* Only one call changes in a step.
LEMMA CallChange ==
  ASSUME CallsOK, NEW t \in Threads, offers \in Nat, offers' \in Nat, offers <= offers',
         NEW c \in CallType', call' = [call EXCEPT ![t] = c], OneCallOK(t)'
  PROVE  /\ CallsOK'
         /\ call'[t] = c
         /\ \A u \in Threads \ {t} : call'[u] = call[u]
<1>1. CallType \subseteq CallType'
  <2>1. 0 .. offers \subseteq 0 .. offers'
    OBVIOUS
  <2> QED BY <2>1 DEF CallType
<1>2. call \in [Threads -> CallType']
  BY <1>1 DEF CallsOK
<1>3. call' \in [Threads -> CallType'] /\ call'[t] = c /\ \A u \in Threads \ {t} : call'[u] = call[u]
  BY <1>2
<1>4. \A u \in Threads \ {t} : OneCallOK(u)'
  BY <1>3 DEF CallsOK, OneCallOK
<1> QED BY <1>3, <1>4 DEF CallsOK

\* What a step of t preserves.
Typed(t) ==
  /\ TypeOK'
  /\ CallInv'
  /\ \A u \in Threads \ {t} : call'[u] = call[u]

LEMMA TrackTyped ==
  ASSUME TypeOK, CallInv, NEW t \in Threads, Track,
         QueueOK', offers <= offers', cache' \subseteq Keys, begun' \in 0 .. MaxCalls,
         NEW c \in CallType', call' = [call EXCEPT ![t] = c], OneCallOK(t)'
  PROVE  Typed(t)
<1>1. QueueOK /\ CallsOK /\ contended \subseteq Keys
  BY TypeParts
<1>2. CallsOK' /\ \A u \in Threads \ {t} : call'[u] = call[u]
  BY <1>1, CallChange DEF QueueOK
<1>3. contended' \subseteq Keys
  BY <1>1 DEF Track, Shared
<1>4. (TypeOK /\ CallInv)' <=>
        (QueueOK /\ CallsOK /\ cache \subseteq Keys /\ begun \in 0 .. MaxCalls /\ contended \subseteq Keys)'
  BY DEF TypeOK, CallInv, QueueOK, CallsOK, OneCallOK, CallType, Node, Increasing
<1> QED BY <1>2, <1>3, <1>4 DEF Typed

LEMMA SameCallType ==
  ASSUME offers' = offers PROVE CallType' = CallType /\ Node' = Node
BY DEF CallType, Node

LEMMA BeginTyped ==
  ASSUME TypeOK, CallInv, NEW t \in Threads, NEW k \in Keys, Track,
         NEW op \in {"put", "get", "remove", "clear"}, NEW at,
         op \in {"put", "get"} => at = "unuse",
         op = "remove" => at = "forget",
         op = "clear" => at = "clear",
         Begin(t, op, k, at), cache' \subseteq Keys
  PROVE  /\ Typed(t)
         /\ call[t] = Idle /\ UNCHANGED <<queue, offers>>
         /\ call'[t].op = op /\ call'[t].key = k /\ call'[t].at = at /\ call'[t].victim = None
<1> DEFINE c == CallOf(op, k, at)
<1>1. QueueOK /\ CallsOK /\ begun \in 0 .. MaxCalls
  BY TypeParts
<1>2. call[t] = Idle /\ UNCHANGED <<queue, offers>> /\ begun' \in 0 .. MaxCalls
  BY <1>1, ObjectStoreAssumption DEF Begin
<1>3. c \in CallType'
  <2>1. 0 \in 0 .. offers'
    BY <1>1, <1>2 DEF QueueOK
  <2>2. at \in {"unuse", "forget", "clear"}
    OBVIOUS
  <2> QED BY <2>1, <2>2 DEF CallType, CallOf
<1>4. call' = [call EXCEPT ![t] = c] /\ call'[t] = c
  BY <1>1 DEF Begin, CallsOK
<1>5. OneCallOK(t)'
  <2>1. /\ c.op = op /\ c.at = at /\ c.key = k /\ c.victim = None /\ c.n = 0 /\ c.seen = 0
        /\ Idle.op = "none"
    BY DEF CallOf, Idle
  <2> HIDE DEF c
  <2>2. at \in {"unuse", "forget", "clear"}
    OBVIOUS
  <2> QED BY <1>4, <2>1, <2>2 DEF OneCallOK
<1>6. QueueOK' /\ offers <= offers'
  BY <1>1, <1>2, SameCallType DEF QueueOK, Increasing
<1> HIDE DEF c
<1>7. Typed(t)
  BY <1>2, <1>3, <1>4, <1>5, <1>6, TrackTyped
<1>8. c.op = op /\ c.key = k /\ c.at = at /\ c.victim = None
  BY DEF CallOf, c
<1> QED BY <1>2, <1>4, <1>7, <1>8

\* A step that only moves on within its call, or ends it.
LEMMA MoveTyped ==
  ASSUME TypeOK, CallInv, NEW t \in Threads, Track,
         QueueOK', offers <= offers', cache' \subseteq cache, begun' = begun,
         NEW label \in {"offer", "size", "poll", "unuseVictim"},
         Goto(t, label), call[t].op \in {"put", "get"},
         call[t].op = "get" => label = "offer",
         (call[t].victim # None) <=> (label = "unuseVictim"),
         label = "offer" => call[t].seen = 0
  PROVE  /\ Typed(t)
         /\ call'[t] = [call[t] EXCEPT !.at = label]
<1> DEFINE c == [call[t] EXCEPT !.at = label]
<1>1. QueueOK /\ CallsOK /\ cache \subseteq Keys /\ begun \in 0 .. MaxCalls
  BY TypeParts
<1>2. call[t] \in CallType /\ call[t] \in CallType'
  <2>1. 0 .. offers \subseteq 0 .. offers'
    BY <1>1 DEF QueueOK
  <2> QED BY <1>1, <2>1 DEF CallsOK, CallType
<1>3. c \in CallType'
  BY <1>2 DEF CallType
<1>4. call' = [call EXCEPT ![t] = c] /\ call'[t] = c
  BY <1>1 DEF Goto, CallsOK
<1>5. OneCallOK(t)'
  <2>1. /\ c.op = call[t].op /\ c.at = label /\ c.key = call[t].key /\ c.victim = call[t].victim
        /\ c.n = call[t].n /\ c.seen = call[t].seen /\ Idle.op = "none"
    BY <1>2 DEF CallType, CallOf, Idle
  <2>2. OneCallOK(t)
    BY <1>1 DEF CallsOK
  <2> HIDE DEF c
  <2>3. (c.op = "none") <=> (c = Idle)
    BY <2>1
  <2>4. (c.victim # None) <=> (c.at \in {"evict", "unuseVictim"})
    BY <2>1
  <2>5. /\ c.op = "put" => c.at \in {"unuse", "offer", "size", "poll", "evict", "unuseVictim"}
        /\ c.op = "get" => c.at \in {"unuse", "offer"}
        /\ c.op \notin {"remove", "clear"} /\ c.n <= c.seen /\ c.key \in Keys
        /\ c.at \in {"unuse", "offer"} => c.seen = 0
    BY <2>1, <2>2 DEF OneCallOK
  <2> QED BY <1>4, <2>3, <2>4, <2>5 DEF OneCallOK
<1> HIDE DEF c
<1>6. Typed(t)
  BY <1>1, <1>3, <1>4, <1>5, TrackTyped
<1> QED BY <1>4, <1>6 DEF c

LEMMA EndTyped ==
  ASSUME TypeOK, CallInv, NEW t \in Threads, Track,
         QueueOK', offers <= offers', cache' \subseteq cache, EndCall(t)
  PROVE  Typed(t) /\ call'[t] = Idle
<1>1. QueueOK /\ CallsOK /\ cache \subseteq Keys /\ begun \in 0 .. MaxCalls
  BY TypeParts
<1>2. Idle \in CallType'
  BY DEF CallType, Idle, CallOf, QueueOK
<1>3. call' = [call EXCEPT ![t] = Idle] /\ call'[t] = Idle
  BY <1>1 DEF EndCall, CallsOK
<1>4. OneCallOK(t)'
  <2>1. Idle.op = "none" /\ Idle.victim = None /\ Idle.at = "" /\ Idle.n = 0 /\ Idle.seen = 0
    BY DEF Idle, CallOf
  <2>2. (call'[t].op = "none") <=> (call'[t] = Idle)
    BY <1>3, <2>1
  <2>3. (call'[t].victim # None) <=> (call'[t].at \in {"evict", "unuseVictim"})
    BY <1>3, <2>1
  <2>4. call'[t].n = 0 /\ call'[t].seen = 0
    BY <1>3, <2>1
  <2>5. call'[t].n <= call'[t].seen
    BY <2>4
  <2>6. call'[t].op = "none" /\ call'[t].at = ""
    BY <1>3, <2>1
  <2> QED BY <2>2, <2>3, <2>5, <2>6 DEF OneCallOK
<1>5. Typed(t)
  BY <1>1, <1>2, <1>3, <1>4, TrackTyped DEF EndCall
<1> QED BY <1>3, <1>5

-----------------------------------------------------------------------------
(* What each step changes                                                  *)

\* The calls that the steps with several assignments leave.
LEMMA CallUpdates ==
  ASSUME NEW c \in CallType, NEW label \in {"evict", "size"}, NEW v \in Keys \cup {None},
         NEW s \in 0 .. offers, NEW m \in 0 .. offers
  PROVE  /\ [c EXCEPT !.seen = s, !.n = m] \in CallType
         /\ [c EXCEPT !.at = label, !.victim = v] \in CallType
         /\ [c EXCEPT !.at = label, !.victim = v, !.seen = s, !.n = m] \in CallType
<1> DEFINE d == [c EXCEPT !.at = label]
           e == [d EXCEPT !.victim = v]
           f == [e EXCEPT !.seen = s]
           g == [f EXCEPT !.n = m]
           h == [c EXCEPT !.seen = s]
           i == [h EXCEPT !.n = m]
<1>1. d \in CallType
  BY DEF CallType
<1> HIDE DEF d
<1>2. e \in CallType
  BY <1>1 DEF CallType
<1> HIDE DEF e
<1>3. f \in CallType
  BY <1>2 DEF CallType
<1> HIDE DEF f
<1>4. g \in CallType
  BY <1>3 DEF CallType
<1>5. h \in CallType
  BY DEF CallType
<1> HIDE DEF h
<1>6. i \in CallType
  BY <1>5 DEF CallType
<1> USE DEF d, e, f, h
<1>7. /\ [c EXCEPT !.seen = s, !.n = m] = i
      /\ [c EXCEPT !.at = label, !.victim = v] = e
      /\ [c EXCEPT !.at = label, !.victim = v, !.seen = s, !.n = m] = g
  OBVIOUS
<1> HIDE DEF e, g, i
<1> QED BY <1>2, <1>4, <1>6, <1>7

\* The steps there are in each operation.
LEMMA Labels ==
  ASSUME TypeOK, CallInv, NEW t \in Threads
  PROVE  /\ call[t] \in CallType /\ OneCallOK(t)
         /\ call[t].n \in Nat /\ call[t].seen \in Nat
         /\ call[t].at # "" => call[t].op # "none" /\ call[t].key \in Keys
         /\ call[t].at \in {"unuse", "offer"} =>
              call[t].op \in {"put", "get"} /\ call[t].victim = None /\ call[t].seen = 0
         /\ call[t].at \in {"size", "poll"} => call[t].op = "put" /\ call[t].victim = None
         /\ call[t].at \in {"evict", "unuseVictim"} => call[t].op = "put" /\ call[t].victim \in Keys
         /\ call[t].at = "forget" => call[t].op = "remove" /\ call[t].victim = None
         /\ call[t].at = "clear" => call[t].op = "clear" /\ call[t].victim = None
<1>1. CallsOK /\ offers \in Nat
  BY TypeParts DEF QueueOK
<1>2. call[t] \in CallType /\ OneCallOK(t)
  BY <1>1 DEF CallsOK
<1>3. call[t].op = "none" => call[t].at = "" /\ call[t].victim = None
  <2>1. Idle.at = "" /\ Idle.victim = None
    BY DEF Idle, CallOf
  <2> QED BY <1>2, <2>1 DEF OneCallOK
<1>4. call[t].n \in Nat /\ call[t].seen \in Nat /\ call[t].victim \in Keys \cup {None}
  <2>1. 0 .. offers \subseteq Nat
    BY <1>1
  <2>2. call[t].n \in 0 .. offers /\ call[t].seen \in 0 .. offers /\ call[t].victim \in Keys \cup {None}
    BY <1>2 DEF CallType
  <2> QED BY <2>1, <2>2
<1>5. call[t].op \in {"none", "put", "get", "remove", "clear"}
  BY <1>2 DEF CallType
<1>6. CASE call[t].op = "none"
  BY <1>2, <1>3, <1>4, <1>6
<1>7. CASE call[t].op = "put"
  BY <1>2, <1>4, <1>7 DEF OneCallOK
<1>8. CASE call[t].op = "get"
  BY <1>2, <1>4, <1>8 DEF OneCallOK
<1>9. CASE call[t].op = "remove"
  BY <1>2, <1>4, <1>9 DEF OneCallOK
<1>10. CASE call[t].op = "clear"
  BY <1>2, <1>4, <1>10 DEF OneCallOK
<1> QED BY <1>5, <1>6, <1>7, <1>8, <1>9, <1>10

LEMMA UnqueueTyped ==
  ASSUME TypeOK, NEW k, Unqueue(k), offers' = offers
  PROVE  QueueOK'
BY UnqueueNodes, SameCallType DEF QueueOK, TypeOK, Increasing

LEMMA TouchRemovesTyped ==
  ASSUME TypeOK, CallInv, NEW t \in Threads, Track, TouchRemoves(t)
  PROVE  /\ Typed(t)
         /\ call[t].op \in {"put", "get"} /\ call[t].key \in Keys /\ call[t].victim = None
         /\ call'[t] = [call[t] EXCEPT !.at = "offer"]
<1>1. call[t].op \in {"put", "get"} /\ call[t].key \in Keys /\ call[t].victim = None /\ call[t].seen = 0
  BY Labels DEF TouchRemoves, At
<1>2. QueueOK' /\ offers <= offers' /\ cache' \subseteq cache /\ begun' = begun
  <2>1. Unqueue(call[t].key) /\ offers' = offers /\ offers \in Nat
    BY DEF TouchRemoves, TypeOK
  <2> QED BY <2>1, UnqueueTyped DEF TouchRemoves, Goto
<1> QED BY <1>1, <1>2, MoveTyped DEF TouchRemoves

LEMMA TouchOffersTyped ==
  ASSUME TypeOK, CallInv, NEW t \in Threads, Track, TouchOffers(t)
  PROVE  /\ Typed(t)
         /\ call[t].op \in {"put", "get"} /\ call[t].key \in Keys /\ call[t].victim = None
         /\ call[t].seen = 0
         /\ ToSet(queue') = Nodes \cup {[key |-> call[t].key, nr |-> offers + 1]}
         /\ call[t].op = "put" => call'[t] = [call[t] EXCEPT !.at = "size"]
         /\ call[t].op = "get" => call'[t] = Idle
<1>1. /\ call[t].op \in {"put", "get"} /\ call[t].key \in Keys
      /\ call[t].victim = None /\ call[t].seen = 0 /\ offers \in Nat
  BY Labels DEF TouchOffers, At, TypeOK
<1>2. QueueOK' /\ ToSet(queue') = Nodes \cup {[key |-> call[t].key, nr |-> offers + 1]}
  <2>1. /\ queue' = Append(queue, [key |-> call[t].key, nr |-> offers + 1])
        /\ offers' = offers + 1
    BY DEF TouchOffers
  <2>2. /\ queue' \in Seq([key : Keys, nr : 1 .. offers']) /\ Increasing(queue')
        /\ ToSet(queue') = Nodes \cup {[key |-> call[t].key, nr |-> offers + 1]}
    BY <1>1, <2>1, AppendNodes
  <2>3. offers' \in Nat
    BY <1>1, <2>1
  <2> QED BY <2>2, <2>3 DEF QueueOK, Node, Increasing
<1>3. offers <= offers' /\ cache' \subseteq cache /\ begun' = begun
  BY <1>1 DEF TouchOffers, Goto, EndCall
<1>4. CASE call[t].op = "put"
  BY <1>1, <1>2, <1>3, <1>4, MoveTyped DEF TouchOffers
<1>5. CASE call[t].op = "get"
  BY <1>1, <1>2, <1>3, <1>5, EndTyped DEF TouchOffers
<1> QED BY <1>1, <1>2, <1>4, <1>5

LEMMA SizeVisitsTyped ==
  ASSUME TypeOK, CallInv, NEW t \in Threads, Track, SizeVisits(t)
  PROVE  /\ Typed(t)
         /\ call[t].op = "put" /\ call[t].key \in Keys /\ call[t].victim = None
         /\ call'[t].op = call[t].op /\ call'[t].key = call[t].key /\ call'[t].at = "size"
         /\ call'[t].victim = None
         /\ call'[t].n = call[t].n + 1
         /\ \E i \in Ahead(t) : call'[t].seen = queue[i].nr /\ \A j \in Ahead(t) : i <= j
<1>1. QueueOK /\ CallsOK /\ cache \subseteq Keys /\ begun \in 0 .. MaxCalls
  BY TypeParts
<1>2. call[t].op = "put" /\ call[t].key \in Keys /\ call[t].victim = None /\ OneCallOK(t) /\ call[t] \in CallType
  BY Labels DEF SizeVisits, At
<1> PICK i \in Ahead(t) :
      /\ \A j \in Ahead(t) : i <= j
      /\ call' = [call EXCEPT ![t].seen = queue[i].nr, ![t].n = @ + 1]
  BY DEF SizeVisits
<1> DEFINE c == [call[t] EXCEPT !.seen = queue[i].nr, !.n = @ + 1]
<1>3. i \in 1 .. Len(queue) /\ queue[i].nr > call[t].seen
  BY DEF Ahead
<1>4. queue[i].nr \in 1 .. offers
  <2>1. queue[i] \in Node
    BY <1>1, <1>3 DEF QueueOK
  <2> QED BY <2>1 DEF Node
<1>5. /\ c.op = "put" /\ c.key = call[t].key /\ c.at = "size" /\ c.victim = None
      /\ c.seen = queue[i].nr /\ c.n = call[t].n + 1
  BY <1>2 DEF CallType, SizeVisits, At
<1>6. call[t].n \in Nat /\ call[t].seen \in Nat /\ call[t].n <= call[t].seen
  BY Labels DEF OneCallOK
<1>7. c.n \in 0 .. offers /\ c.n <= c.seen
  BY <1>1, <1>3, <1>4, <1>5, <1>6 DEF QueueOK
<1>8. offers' = offers /\ queue' = queue /\ cache' = cache /\ begun' = begun
  BY DEF SizeVisits, storeVars
<1>9. c \in CallType'
  <2>1. queue[i].nr \in 0 .. offers /\ call[t].n + 1 \in 0 .. offers
    BY <1>4, <1>5, <1>7
  <2> QED BY <1>2, <1>8, <2>1, CallUpdates, SameCallType
<1>10. call' = [call EXCEPT ![t] = c] /\ call'[t] = c
  BY <1>1 DEF CallsOK, CallType
<1> HIDE DEF c
<1>11. OneCallOK(t)'
  <2>1. Idle.op = "none"
    BY DEF Idle, CallOf
  <2> QED BY <1>2, <1>5, <1>7, <1>10, <2>1 DEF OneCallOK
<1>12. Typed(t)
  <2>1. QueueOK' /\ offers <= offers'
    BY <1>1, <1>8, SameCallType DEF QueueOK, Increasing
  <2> QED BY <1>1, <1>8, <1>9, <1>10, <1>11, <2>1, TrackTyped
<1> QED BY <1>2, <1>5, <1>10, <1>12

LEMMA SizeKnownTyped ==
  ASSUME TypeOK, CallInv, NEW t \in Threads, Track, SizeKnown(t)
  PROVE  /\ Typed(t)
         /\ call[t].op = "put" /\ call[t].key \in Keys /\ call[t].victim = None
         /\ TooMany(t) => call'[t] = [call[t] EXCEPT !.at = "poll"]
         /\ ~TooMany(t) => call'[t] = Idle
<1>1. call[t].op = "put" /\ call[t].key \in Keys /\ call[t].victim = None /\ offers \in Nat
  BY Labels DEF SizeKnown, At, TypeOK
<1>2. QueueOK' /\ offers' = offers /\ cache' = cache
  <2>1. QueueOK /\ offers' = offers /\ queue' = queue /\ cache' = cache
    BY TypeParts DEF SizeKnown, storeVars
  <2> QED BY <2>1, SameCallType DEF QueueOK, Increasing
<1>3. CASE TooMany(t)
  <2>1. Goto(t, "poll") /\ begun' = begun /\ offers <= offers' /\ cache' \subseteq cache
    BY <1>1, <1>2, <1>3 DEF SizeKnown, Goto
  <2>2. Typed(t) /\ call'[t] = [call[t] EXCEPT !.at = "poll"]
    BY <1>1, <1>2, <2>1, MoveTyped
  <2> QED BY <1>1, <1>3, <2>2
<1>4. CASE ~TooMany(t)
  BY <1>1, <1>2, <1>4, EndTyped DEF SizeKnown
<1> QED BY <1>1, <1>3, <1>4

LEMMA PollTyped ==
  ASSUME TypeOK, CallInv, NEW t \in Threads, Track, Poll(t)
  PROVE  /\ Typed(t)
         /\ call[t].op = "put" /\ call[t].key \in Keys /\ call[t].victim = None
         /\ queue = <<>> => call'[t] = Idle
         /\ queue # <<>> =>
              /\ Head(queue) \in Nodes
              /\ ToSet(queue') = Nodes \ {Head(queue)}
              /\ call'[t].op = "put" /\ call'[t].key = call[t].key /\ call'[t].at = "evict"
              /\ call'[t].victim = Head(queue).key /\ Head(queue).key \in Keys
<1>1. /\ call[t].op = "put" /\ call[t].key \in Keys /\ call[t].victim = None
      /\ OneCallOK(t) /\ call[t] \in CallType
  BY Labels DEF Poll, At
<1>2. QueueOK /\ CallsOK /\ cache \subseteq Keys /\ begun \in 0 .. MaxCalls
  BY TypeParts
<1>3. offers' = offers /\ cache' = cache
  BY DEF Poll
<1>4. CASE queue = <<>>
  <2>1. QueueOK' /\ EndCall(t)
    <3>1. queue' = queue /\ EndCall(t)
      BY <1>4 DEF Poll
    <3> QED BY <1>2, <1>3, <3>1, SameCallType DEF QueueOK, Increasing
  <2> QED BY <1>1, <1>2, <1>3, <1>4, <2>1, EndTyped DEF QueueOK
<1>5. CASE queue # <<>>
  <2> DEFINE v == Head(queue).key
             c == [call[t] EXCEPT !.at = "evict", !.victim = v]
  <2>1. /\ Head(queue) \in Nodes /\ v \in Keys
        /\ queue' = Tail(queue) /\ ToSet(queue') = Nodes \ {Head(queue)}
        /\ Tail(queue) \in Seq(Node) /\ Increasing(Tail(queue))
    BY <1>5, TailNodes DEF Poll, Node
  <2>2. QueueOK'
    BY <1>2, <1>3, <2>1, SameCallType DEF QueueOK, Increasing
  <2>3. call' = [call EXCEPT ![t].at = "evict", ![t].victim = v] /\ begun' = begun
    BY <1>5 DEF Poll
  <2>4. call' = [call EXCEPT ![t] = c] /\ call'[t] = c
    BY <1>2, <2>3 DEF CallsOK, CallType
  <2>5. c \in CallType'
    <3>1. 0 \in 0 .. offers
      BY <1>2 DEF QueueOK
    <3> QED BY <1>1, <1>3, <2>1, <3>1, CallUpdates, SameCallType
  <2>6. /\ c.op = "put" /\ c.key = call[t].key /\ c.at = "evict" /\ c.victim = v
        /\ c.n = call[t].n /\ c.seen = call[t].seen
    BY <1>1 DEF CallType
  <2> HIDE DEF c, v
  <2>7. OneCallOK(t)'
    <3>1. Idle.op = "none"
      BY DEF Idle, CallOf
    <3>2. v # None
      BY <2>1, ObjectStoreAssumption
    <3> QED BY <1>1, <2>4, <2>6, <3>1, <3>2 DEF OneCallOK
  <2>8. Typed(t)
    <3>1. offers <= offers'
      BY <1>2, <1>3 DEF QueueOK
    <3> QED BY <1>2, <1>3, <2>2, <2>3, <2>4, <2>5, <2>7, <3>1, TrackTyped
  <2> QED BY <1>1, <1>5, <2>1, <2>4, <2>6, <2>8 DEF v
<1> QED BY <1>4, <1>5

LEMMA EvictTyped ==
  ASSUME TypeOK, CallInv, NEW t \in Threads, Track, Evict(t)
  PROVE  /\ Typed(t)
         /\ call[t].op = "put" /\ call[t].key \in Keys /\ call[t].victim \in Keys
         /\ call'[t] = [call[t] EXCEPT !.at = "unuseVictim"]
<1>1. call[t].op = "put" /\ call[t].key \in Keys /\ call[t].victim \in Keys /\ offers \in Nat
  BY Labels DEF Evict, At, TypeOK
<1>2. QueueOK' /\ offers' = offers /\ cache' \subseteq cache /\ begun' = begun
  <2>1. QueueOK /\ offers' = offers /\ queue' = queue /\ cache' \subseteq cache /\ begun' = begun
    BY TypeParts DEF Evict, Goto
  <2> QED BY <2>1, SameCallType DEF QueueOK, Increasing
<1>3. call[t].victim # None /\ offers <= offers' /\ Goto(t, "unuseVictim")
  BY <1>1, <1>2, ObjectStoreAssumption DEF Evict
<1>4. Typed(t) /\ call'[t] = [call[t] EXCEPT !.at = "unuseVictim"]
  BY <1>1, <1>2, <1>3, MoveTyped
<1> QED BY <1>1, <1>4

LEMMA EvictedUseTyped ==
  ASSUME TypeOK, CallInv, NEW t \in Threads, Track, EvictedUse(t)
  PROVE  /\ Typed(t)
         /\ call[t].op = "put" /\ call[t].key \in Keys /\ call[t].victim \in Keys
         /\ call'[t].op = "put" /\ call'[t].key = call[t].key /\ call'[t].at = "size"
         /\ call'[t].victim = None /\ call'[t].seen = 0 /\ call'[t].n = 0
<1>1. /\ call[t].op = "put" /\ call[t].key \in Keys /\ call[t].victim \in Keys
      /\ OneCallOK(t) /\ call[t] \in CallType
  BY Labels DEF EvictedUse, At
<1>2. QueueOK /\ CallsOK /\ cache \subseteq Keys /\ begun \in 0 .. MaxCalls
  BY TypeParts
<1>3. offers' = offers /\ cache' = cache /\ begun' = begun /\ QueueOK'
  BY UnqueueTyped DEF EvictedUse
<1> DEFINE c == [call[t] EXCEPT !.at = "size", !.victim = None, !.seen = 0, !.n = 0]
<1>4. call' = [call EXCEPT ![t] = c] /\ call'[t] = c
  <2>1. call' = [call EXCEPT ![t].at = "size", ![t].victim = None, ![t].seen = 0, ![t].n = 0]
    BY DEF EvictedUse
  <2> QED BY <1>2, <2>1 DEF CallsOK, CallType
<1>5. c \in CallType'
  <2>1. 0 \in 0 .. offers
    BY <1>2 DEF QueueOK
  <2> QED BY <1>1, <1>3, <2>1, CallUpdates, SameCallType
<1>6. /\ c.op = "put" /\ c.key = call[t].key /\ c.at = "size" /\ c.victim = None
      /\ c.n = 0 /\ c.seen = 0
  BY <1>1 DEF CallType
<1> HIDE DEF c
<1>7. OneCallOK(t)'
  <2>1. Idle.op = "none" /\ c.n <= c.seen
    BY <1>6 DEF Idle, CallOf
  <2> QED BY <1>1, <1>4, <1>6, <2>1 DEF OneCallOK
<1>8. Typed(t)
  <2>1. offers <= offers'
    BY <1>2, <1>3 DEF QueueOK
  <2> QED BY <1>2, <1>3, <1>4, <1>5, <1>7, <2>1, TrackTyped
<1> QED BY <1>1, <1>4, <1>6, <1>8

LEMMA ForgetTyped ==
  ASSUME TypeOK, CallInv, NEW t \in Threads, Track, Forget(t)
  PROVE  /\ Typed(t)
         /\ call[t].op = "remove" /\ call[t].key \in Keys /\ call[t].victim = None
         /\ call'[t] = Idle
<1>1. call[t].op = "remove" /\ call[t].key \in Keys /\ call[t].victim = None /\ offers \in Nat
  BY Labels DEF Forget, At, TypeOK
<1>2. QueueOK' /\ offers' = offers /\ cache' = cache
  BY UnqueueTyped DEF Forget
<1> QED BY <1>1, <1>2, EndTyped DEF Forget

LEMMA ClearPollsTyped ==
  ASSUME TypeOK, CallInv, NEW t \in Threads, Track, ClearPolls(t)
  PROVE  /\ Typed(t)
         /\ call[t].op = "clear" /\ call[t].key \in Keys /\ call[t].victim = None
         /\ queue = <<>> => call'[t] = Idle
         /\ queue # <<>> => /\ call' = call
                           /\ Head(queue) \in Nodes
                           /\ ToSet(queue') = Nodes \ {Head(queue)}
<1>1. /\ call[t].op = "clear" /\ call[t].key \in Keys /\ call[t].victim = None
      /\ OneCallOK(t) /\ call[t] \in CallType
  BY Labels DEF ClearPolls, At
<1>2. QueueOK /\ CallsOK /\ cache \subseteq Keys /\ begun \in 0 .. MaxCalls
  BY TypeParts
<1>3. offers' = offers /\ cache' = cache
  BY DEF ClearPolls
<1>4. CASE queue = <<>>
  <2>1. QueueOK' /\ EndCall(t)
    <3>1. queue' = queue /\ EndCall(t)
      BY <1>4 DEF ClearPolls
    <3> QED BY <1>2, <1>3, <3>1, SameCallType DEF QueueOK, Increasing
  <2> QED BY <1>1, <1>2, <1>3, <1>4, <2>1, EndTyped DEF QueueOK
<1>5. CASE queue # <<>>
  <2>1. /\ Head(queue) \in Nodes
        /\ queue' = Tail(queue) /\ ToSet(queue') = Nodes \ {Head(queue)}
        /\ Tail(queue) \in Seq(Node) /\ Increasing(Tail(queue))
    BY <1>5, TailNodes DEF ClearPolls
  <2>2. call' = call /\ begun' = begun
    BY <1>5 DEF ClearPolls
  <2>3. offers \in Nat /\ offers <= offers'
    BY <1>2, <1>3 DEF QueueOK
  <2>6. QueueOK'
    BY <1>3, <2>1, <2>3, SameCallType DEF QueueOK, Increasing
  <2>4. call' = [call EXCEPT ![t] = call[t]] /\ call[t] \in CallType' /\ OneCallOK(t)'
    BY <1>1, <1>2, <1>3, <2>2, SameCallType DEF CallsOK, OneCallOK
  <2> QED BY <1>1, <1>2, <1>3, <1>5, <2>1, <2>2, <2>3, <2>4, <2>6, TrackTyped
<1> QED BY <1>4, <1>5

-----------------------------------------------------------------------------
(* The keys in hand                                                        *)

LEMMA IdleFields ==
  /\ Idle.op = "none" /\ Idle.key = None /\ Idle.at = "" /\ Idle.victim = None
  /\ Idle.seen = 0 /\ Idle.n = 0
BY DEF Idle, CallOf

LEMMA InHand ==
  ASSUME NEW t, NEW k \in Keys
  PROVE  /\ k \in Hands(t) <=> call[t].op = "clear" \/ call[t].key = k \/ call[t].victim = k
         /\ k \in Hands(t)' <=> call'[t].op = "clear" \/ call'[t].key = k \/ call'[t].victim = k
         /\ Works(t, k) => k \in Hands(t)
         /\ Works(t, k)' => k \in Hands(t)'
<1>1. k # None
  BY ObjectStoreAssumption
<1> QED BY <1>1 DEF Hands, Works

\* How k is when t alone has it in hand.
Settled(t, k) ==
  /\ Works(t, k) => Midway(t, k)
  /\ ~Works(t, k) => (k \in cache <=> Queued(k))

Untouched(k) ==
  /\ k \in cache' <=> k \in cache
  /\ \A m : m.key = k => (m \in Nodes' <=> m \in Nodes)

\* A step of t changes no other key than those it has in hand, and leaves
\* these in order.
Keeps(t, k) ==
  /\ k \notin Hands(t) /\ k \notin Hands(t)' => Untouched(k)
  /\ k \in Hands(t) \/ k \in Hands(t)' =>
       (OneNode(k) /\ Settled(t, k) => OneNode(k)' /\ Settled(t, k)')

LEMMA KeyStep ==
  ASSUME NEW t \in Threads, \A u \in Threads \ {t} : call'[u] = call[u],
         NEW k \in Keys, InOrder(k), k \notin Shared', Keeps(t, k)
  PROVE  InOrder(k)'
<1>1. \A u, v \in Threads : k \in Hands(u)' /\ k \in Hands(v)' => u = v
  BY DEF Shared
<1>2. \A u \in Threads \ {t} : /\ k \in Hands(u)' <=> k \in Hands(u)
                             /\ Works(u, k)' <=> Works(u, k)
  BY DEF Hands, Works
<1>3. CASE k \notin Hands(t) /\ k \notin Hands(t)'
  <2>1. Untouched(k) /\ ~Works(t, k) /\ ~Works(t, k)'
    BY <1>3, InHand DEF Keeps
  <2>2. Queued(k)' <=> Queued(k)
    BY <2>1 DEF Untouched, Queued
  <2>3. OneNode(k)'
    BY <2>1 DEF Untouched, OneNode, InOrder
  <2>4. (\A u \in Threads : ~Works(u, k)') => ((k \in cache)' <=> Queued(k)')
    BY <1>2, <2>1, <2>2 DEF InOrder, Untouched
  <2>5. ASSUME NEW u \in Threads, Works(u, k)' PROVE Midway(u, k)'
    <3>3. u # t
      BY <2>1, <2>5 DEF Works
    <3>1. Works(u, k) /\ call'[u] = call[u]
      BY <2>5, <3>3 DEF Works
    <3>2. Midway(u, k)
      BY <3>1 DEF InOrder
    <3> QED BY <2>1, <2>2, <3>1, <3>2 DEF Midway, Untouched
  <2> QED BY <1>1, <2>3, <2>4, <2>5 DEF InOrder
<1>4. CASE k \in Hands(t) \/ k \in Hands(t)'
  <2>1. \A u \in Threads \ {t} : ~Works(u, k) /\ ~Works(u, k)'
    <3>1. ASSUME NEW u \in Threads \ {t}, k \in Hands(u) PROVE FALSE
      <4>1. k \notin Hands(t)
        BY <3>1 DEF InOrder
      <4>2. k \in Hands(u)' /\ k \in Hands(t)'
        BY <1>4, <3>1, <4>1 DEF Hands
      <4> QED BY <1>1, <4>2
    <3> QED BY <1>2, <3>1, InHand
  <2>2. OneNode(k) /\ Settled(t, k)
    BY <2>1 DEF InOrder, Settled
  <2>3. OneNode(k)' /\ Settled(t, k)'
    BY <1>4, <2>2 DEF Keeps
  <2> QED BY <1>1, <2>1, <2>3 DEF InOrder, Settled
<1> QED BY <1>3, <1>4

\* A store that is sound has each of its keys in the queue once.
LEMMA SoundKeys ==
  ASSUME TypeOK, Sound, NEW k \in Keys
  PROVE  InOrder(k)
<1> DEFINE q == UseOrder(queue)
<1>1. /\ Len(queue) \in Nat /\ DOMAIN queue = 1 .. Len(queue)
      /\ Len(queue) = Cardinality(cache) /\ cache = ToSet(q)
  <2>1. queue \in Seq(Node)
    BY DEF TypeOK, Node
  <2>2. Len(queue) \in Nat /\ DOMAIN queue = 1 .. Len(queue)
    BY <2>1
  <2> QED BY <2>2 DEF Sound
<1>2. DOMAIN q = 1 .. Len(queue) /\ \A i \in 1 .. Len(queue) : q[i] = queue[i].key
  BY DEF UseOrder
<1>3. cache = {queue[i].key : i \in 1 .. Len(queue)}
  BY <1>1, <1>2 DEF ToSet
<1>4. OneNode(k)
  <2>1. q \in Surjection(1 .. Len(queue), cache)
    BY <1>2, <1>3 DEF Surjection, UseOrder
  <2>2. IsFiniteSet(1 .. Len(queue)) /\ Cardinality(1 .. Len(queue)) = Len(queue)
    BY <1>1, FS_Interval
  <2>3. q \in Injection(1 .. Len(queue), cache)
    BY <1>1, <2>1, <2>2, FS_Surjection
  <2>4. \A i, j \in 1 .. Len(queue) : queue[i].key = queue[j].key => i = j
    BY <1>2, <2>3 DEF Injection, IsInjective
  <2> QED BY <1>1, <2>4 DEF OneNode, Nodes, ToSet
<1>5. k \in cache <=> Queued(k)
  BY <1>1, <1>3 DEF Queued, Nodes, ToSet
<1>6. ASSUME NEW t \in Threads PROVE k \notin Hands(t) /\ ~Works(t, k)
  <2>1. call[t] = Idle /\ Idle.op = "none" /\ Idle.key = None /\ Idle.at = "" /\ Idle.victim = None
    BY DEF Sound, AtRest, Idle, CallOf
  <2>2. k # None
    BY ObjectStoreAssumption
  <2> QED BY <2>1, <2>2, InHand
<1> QED BY <1>4, <1>5, <1>6 DEF InOrder

LEMMA SoundKeysInOrder == TypeOK /\ Sound => \A k \in Keys : InOrder(k)
BY SoundKeys

-----------------------------------------------------------------------------
(* Each step keeps the keys in hand in order                               *)

LEMMA PutKeeps ==
  ASSUME TypeOK, CallInv, NEW t \in Threads, NEW k0 \in Keys, Track, Put(t, k0), NEW k \in Keys
  PROVE  Typed(t) /\ Keeps(t, k)
<1>1. cache' = cache \cup {k0} /\ cache \subseteq Keys /\ cache' \subseteq Keys /\ Begin(t, "put", k0, "unuse")
  BY DEF Put, TypeOK
<1>2. /\ Typed(t) /\ call[t] = Idle /\ UNCHANGED <<queue, offers>>
      /\ call'[t].op = "put" /\ call'[t].key = k0 /\ call'[t].at = "unuse" /\ call'[t].victim = None
  BY <1>1, BeginTyped
<1>3. Idle.op = "none" /\ Idle.key = None /\ Idle.at = "" /\ Idle.victim = None
  BY IdleFields
<1>4. k # None /\ k0 # None /\ Nodes' = Nodes
  BY <1>2, ObjectStoreAssumption DEF Nodes
<1>5. CASE k = k0
  <2>1. k \in Hands(t)' /\ Works(t, k)' /\ Midway(t, k)' /\ (OneNode(k) => OneNode(k)')
    BY <1>1, <1>2, <1>4, <1>5, InHand DEF Works, Midway, OneNode
  <2> QED BY <1>2, <2>1 DEF Keeps, Settled
<1>6. CASE k # k0
  <2>1. k \notin Hands(t) /\ k \notin Hands(t)' /\ Untouched(k)
    BY <1>1, <1>2, <1>3, <1>4, <1>6, InHand DEF Untouched
  <2> QED BY <1>2, <2>1 DEF Keeps
<1> QED BY <1>5, <1>6

LEMMA GetKeeps ==
  ASSUME TypeOK, CallInv, NEW t \in Threads, NEW k0 \in Keys, Track, Get(t, k0), NEW k \in Keys
  PROVE  Typed(t) /\ Keeps(t, k)
<1>1. k0 \in cache /\ cache' = cache /\ cache' \subseteq Keys /\ Begin(t, "get", k0, "unuse")
  BY DEF Get, TypeOK
<1>2. /\ Typed(t) /\ call[t] = Idle /\ UNCHANGED <<queue, offers>>
      /\ call'[t].op = "get" /\ call'[t].key = k0 /\ call'[t].at = "unuse" /\ call'[t].victim = None
  BY <1>1, BeginTyped
<1>3. Idle.op = "none" /\ Idle.key = None /\ Idle.at = "" /\ Idle.victim = None
  BY IdleFields
<1>4. k # None /\ k0 # None /\ Nodes' = Nodes
  BY <1>2, ObjectStoreAssumption DEF Nodes
<1>5. CASE k = k0
  <2>1. ~Works(t, k)
    BY <1>2, <1>3, <1>4 DEF Works
  <2>2. OneNode(k) /\ Settled(t, k) => Queued(k)'
    BY <1>1, <1>4, <1>5, <2>1 DEF Settled, Queued
  <2>3. k \in Hands(t)' /\ Works(t, k)' /\ (Queued(k)' => Midway(t, k)') /\ (OneNode(k) => OneNode(k)')
    BY <1>1, <1>2, <1>4, <1>5, InHand DEF Works, Midway, OneNode
  <2> QED BY <1>2, <2>2, <2>3 DEF Keeps, Settled
<1>6. CASE k # k0
  <2>1. k \notin Hands(t) /\ k \notin Hands(t)' /\ Untouched(k)
    BY <1>1, <1>2, <1>3, <1>4, <1>6, InHand DEF Untouched
  <2> QED BY <1>2, <2>1 DEF Keeps
<1> QED BY <1>5, <1>6

LEMMA DiscardKeeps ==
  ASSUME TypeOK, CallInv, NEW t \in Threads, NEW k0 \in Keys, Track, Discard(t, k0), NEW k \in Keys
  PROVE  Typed(t) /\ Keeps(t, k)
<1>1. cache' = cache \ {k0} /\ cache' \subseteq Keys /\ Begin(t, "remove", k0, "forget")
  BY DEF Discard, TypeOK
<1>2. /\ Typed(t) /\ call[t] = Idle /\ UNCHANGED <<queue, offers>>
      /\ call'[t].op = "remove" /\ call'[t].key = k0 /\ call'[t].at = "forget" /\ call'[t].victim = None
  BY <1>1, BeginTyped
<1>3. Idle.op = "none" /\ Idle.key = None /\ Idle.at = "" /\ Idle.victim = None
  BY IdleFields
<1>4. k # None /\ k0 # None /\ Nodes' = Nodes
  BY <1>2, ObjectStoreAssumption DEF Nodes
<1>5. CASE k = k0
  <2>1. k \in Hands(t)' /\ Works(t, k)' /\ Midway(t, k)' /\ (OneNode(k) => OneNode(k)')
    BY <1>1, <1>2, <1>4, <1>5, InHand DEF Works, Midway, OneNode
  <2> QED BY <1>2, <2>1 DEF Keeps, Settled
<1>6. CASE k # k0
  <2>1. k \notin Hands(t) /\ k \notin Hands(t)' /\ Untouched(k)
    BY <1>1, <1>2, <1>3, <1>4, <1>6, InHand DEF Untouched
  <2> QED BY <1>2, <2>1 DEF Keeps
<1> QED BY <1>5, <1>6

LEMMA ClearKeeps ==
  ASSUME TypeOK, CallInv, NEW t \in Threads, NEW k0 \in Keys, Track, Clear(t, k0), NEW k \in Keys
  PROVE  Typed(t) /\ Keeps(t, k)
<1>1. cache' = {} /\ cache' \subseteq Keys /\ Begin(t, "clear", k0, "clear")
  BY DEF Clear
<1>2. Typed(t) /\ UNCHANGED <<queue, offers>> /\ call'[t].op = "clear" /\ call'[t].at = "clear"
  BY <1>1, BeginTyped
<1>4. Works(t, k)' /\ Midway(t, k)' /\ (OneNode(k) => OneNode(k)')
  BY <1>1, <1>2 DEF Works, Midway, OneNode, Nodes
<1> QED BY <1>2, <1>4, InHand DEF Keeps, Settled

LEMMA TouchRemovesKeeps ==
  ASSUME TypeOK, CallInv, NEW t \in Threads, Track, TouchRemoves(t), NEW k \in Keys
  PROVE  Typed(t) /\ Keeps(t, k)
<1>1. /\ Typed(t) /\ call[t].op \in {"put", "get"} /\ call[t].key \in Keys /\ call[t].victim = None
      /\ call'[t] = [call[t] EXCEPT !.at = "offer"] /\ call[t].at = "unuse" /\ call[t] \in CallType
  BY TouchRemovesTyped, Labels DEF TouchRemoves, At
<1>2. /\ call'[t].op = call[t].op /\ call'[t].key = call[t].key
      /\ call'[t].at = "offer" /\ call'[t].victim = None
  BY <1>1 DEF CallType
<1>3. k # None /\ cache' = cache /\ Unqueue(call[t].key)
  BY ObjectStoreAssumption DEF TouchRemoves
<1>4. /\ Nodes' \subseteq Nodes
      /\ \A m \in Nodes : m.key # call[t].key => m \in Nodes'
      /\ OneNode(call[t].key) => \A m \in Nodes' : m.key # call[t].key
  BY <1>3, UnqueueNodes DEF Nodes, OneNode
<1>5. CASE k = call[t].key
  <2>1. Works(t, k) /\ Works(t, k)'
    BY <1>1, <1>2, <1>5 DEF Works
  <2>2. OneNode(k) => OneNode(k)' /\ ~Queued(k)'
    BY <1>4, <1>5 DEF OneNode, Queued
  <2>3. Midway(t, k) => k \in cache'
    BY <1>1, <1>3 DEF Midway
  <2>4. OneNode(k) /\ Settled(t, k) => OneNode(k)' /\ Midway(t, k)'
    BY <1>1, <1>2, <2>1, <2>2, <2>3 DEF Midway, Settled
  <2> QED BY <1>1, <1>5, <2>1, <2>4, InHand DEF Keeps, Settled
<1>6. CASE k # call[t].key
  <2>1. k \notin Hands(t) /\ k \notin Hands(t)' /\ Untouched(k)
    BY <1>1, <1>2, <1>3, <1>4, <1>6, InHand DEF Untouched
  <2> QED BY <1>1, <2>1 DEF Keeps
<1> QED BY <1>5, <1>6

LEMMA TouchOffersKeeps ==
  ASSUME TypeOK, CallInv, NEW t \in Threads, Track, TouchOffers(t), NEW k \in Keys
  PROVE  Typed(t) /\ Keeps(t, k)
<1> DEFINE m0 == [key |-> call[t].key, nr |-> offers + 1]
<1>1. /\ Typed(t) /\ call[t].op \in {"put", "get"} /\ call[t].key \in Keys /\ call[t].victim = None
      /\ call[t].at = "offer" /\ call[t] \in CallType
      /\ Nodes' = Nodes \cup {m0}
      /\ call[t].op = "put" => call'[t] = [call[t] EXCEPT !.at = "size"]
      /\ call[t].op = "get" => call'[t] = Idle
  BY TouchOffersTyped, Labels DEF TouchOffers, At, Nodes
<1>2. k # None /\ cache' = cache /\ m0.key = call[t].key
  BY ObjectStoreAssumption DEF TouchOffers
<1> HIDE DEF m0
<1>3. /\ call'[t].op # "clear" /\ call'[t].key \in {call[t].key, None}
      /\ call'[t].at \in {"size", ""} /\ call'[t].victim = None
  <2>1. CASE call[t].op = "put"
    <3>1. call'[t] = [call[t] EXCEPT !.at = "size"]
      BY <1>1, <2>1
    <3>2. call'[t].op = "put" /\ call'[t].key = call[t].key /\ call'[t].at = "size" /\ call'[t].victim = None
      BY <1>1, <2>1, <3>1 DEF CallType
    <3> QED BY <3>2
  <2>2. CASE call[t].op = "get"
    BY <1>1, <2>2, IdleFields
  <2> QED BY <1>1, <2>1, <2>2
<1>4. CASE k = call[t].key
  <2>1. Works(t, k) /\ ~Works(t, k)'
    BY <1>1, <1>2, <1>3, <1>4 DEF Works
  <2>2. Midway(t, k) => k \in cache' /\ ~Queued(k)
    BY <1>1, <1>2 DEF Midway
  <2>3. ~Queued(k) => OneNode(k)' /\ Queued(k)'
    BY <1>1, <1>2, <1>4 DEF Queued, OneNode
  <2> QED BY <1>1, <1>4, <2>1, <2>2, <2>3, InHand DEF Keeps, Settled
<1>5. CASE k # call[t].key
  <2>1. k \notin Hands(t) /\ k \notin Hands(t)' /\ Untouched(k)
    BY <1>1, <1>2, <1>3, <1>5, InHand DEF Untouched
  <2> QED BY <1>1, <2>1 DEF Keeps
<1> QED BY <1>4, <1>5

LEMMA SizeVisitsKeeps ==
  ASSUME TypeOK, CallInv, NEW t \in Threads, Track, SizeVisits(t), NEW k \in Keys
  PROVE  Typed(t) /\ Keeps(t, k)
<1>1. /\ Typed(t) /\ call[t].op = "put" /\ call[t].victim = None /\ call[t].at = "size"
      /\ call'[t].op = "put" /\ call'[t].key = call[t].key /\ call'[t].at = "size" /\ call'[t].victim = None
  BY SizeVisitsTyped DEF SizeVisits, At
<1>2. k # None /\ cache' = cache /\ Nodes' = Nodes
  BY ObjectStoreAssumption DEF SizeVisits, storeVars, Nodes
<1>3. ~Works(t, k) /\ ~Works(t, k)' /\ Untouched(k)
  BY <1>1, <1>2 DEF Works, Untouched
<1>4. (OneNode(k) => OneNode(k)') /\ (Queued(k)' <=> Queued(k))
  BY <1>2 DEF OneNode, Queued
<1> QED BY <1>1, <1>2, <1>3, <1>4 DEF Keeps, Settled

LEMMA SizeKnownKeeps ==
  ASSUME TypeOK, CallInv, NEW t \in Threads, Track, SizeKnown(t), NEW k \in Keys
  PROVE  Typed(t) /\ Keeps(t, k)
<1>1. /\ Typed(t) /\ call[t].op = "put" /\ call[t].victim = None /\ call[t].at = "size"
      /\ call[t] \in CallType
      /\ TooMany(t) => call'[t] = [call[t] EXCEPT !.at = "poll"]
      /\ ~TooMany(t) => call'[t] = Idle
  BY SizeKnownTyped, Labels DEF SizeKnown, At
<1>2. k # None /\ cache' = cache /\ Nodes' = Nodes
  BY ObjectStoreAssumption DEF SizeKnown, storeVars, Nodes
<1>3. call'[t].op # "clear" /\ call'[t].at \in {"poll", ""} /\ call'[t].victim = None
  <2>1. CASE TooMany(t)
    <3>1. call'[t] = [call[t] EXCEPT !.at = "poll"]
      BY <1>1, <2>1
    <3>2. call'[t].op = "put" /\ call'[t].at = "poll" /\ call'[t].victim = None
      BY <1>1, <3>1 DEF CallType
    <3> QED BY <3>2
  <2>2. CASE ~TooMany(t)
    BY <1>1, <2>2, IdleFields
  <2> QED BY <2>1, <2>2
<1>4. ~Works(t, k) /\ ~Works(t, k)' /\ Untouched(k)
  BY <1>1, <1>2, <1>3 DEF Works, Untouched
<1>5. (OneNode(k) => OneNode(k)') /\ (Queued(k)' <=> Queued(k))
  BY <1>2 DEF OneNode, Queued
<1> QED BY <1>1, <1>2, <1>4, <1>5 DEF Keeps, Settled

LEMMA PollKeeps ==
  ASSUME TypeOK, CallInv, NEW t \in Threads, Track, Poll(t), NEW k \in Keys
  PROVE  Typed(t) /\ Keeps(t, k)
<1>1. /\ Typed(t) /\ call[t].op = "put" /\ call[t].victim = None /\ call[t].at = "poll"
      /\ queue = <<>> => call'[t] = Idle
      /\ queue # <<>> =>
           /\ Head(queue) \in Nodes /\ Nodes' = Nodes \ {Head(queue)}
           /\ call'[t].op = "put" /\ call'[t].key = call[t].key /\ call'[t].at = "evict"
           /\ call'[t].victim = Head(queue).key
  BY PollTyped DEF Poll, At, Nodes
<1>2. k # None /\ cache' = cache /\ ~Works(t, k)
  BY <1>1, ObjectStoreAssumption DEF Poll, Works
<1>3. CASE queue = <<>>
  <2>1. Nodes' = Nodes /\ call'[t] = Idle
    BY <1>1, <1>3 DEF Nodes, Poll
  <2>2. ~Works(t, k)' /\ Untouched(k)
    BY <1>2, <2>1, IdleFields DEF Works, Untouched
  <2>3. (OneNode(k) => OneNode(k)') /\ (Queued(k)' <=> Queued(k))
    BY <2>1 DEF OneNode, Queued
  <2> QED BY <1>1, <1>2, <2>2, <2>3 DEF Keeps, Settled
<1>4. CASE queue # <<>> /\ k = Head(queue).key
  <2>1. k \in Hands(t)' /\ Works(t, k)'
    BY <1>1, <1>4, InHand DEF Works
  <2>2. OneNode(k) => OneNode(k)' /\ ~Queued(k)'
    BY <1>1, <1>4 DEF OneNode, Queued
  <2>3. ~Queued(k)' => Midway(t, k)'
    BY <1>1, <1>4 DEF Midway
  <2> QED BY <1>1, <2>1, <2>2, <2>3 DEF Keeps, Settled
<1>5. CASE queue # <<>> /\ k # Head(queue).key
  <2>1. ~Works(t, k)'
    BY <1>1, <1>5 DEF Works
  <2>2. Untouched(k)
    BY <1>1, <1>2, <1>5 DEF Untouched
  <2>3. (OneNode(k) => OneNode(k)') /\ (Queued(k)' <=> Queued(k))
    BY <2>2 DEF OneNode, Queued, Untouched
  <2> QED BY <1>1, <1>2, <2>1, <2>2, <2>3 DEF Keeps, Settled
<1> QED BY <1>3, <1>4, <1>5

LEMMA EvictKeeps ==
  ASSUME TypeOK, CallInv, NEW t \in Threads, Track, Evict(t), NEW k \in Keys
  PROVE  Typed(t) /\ Keeps(t, k)
<1>1. /\ Typed(t) /\ call[t].op = "put" /\ call[t].victim \in Keys /\ call[t].at = "evict"
      /\ call'[t] = [call[t] EXCEPT !.at = "unuseVictim"] /\ call[t] \in CallType
  BY EvictTyped, Labels DEF Evict, At
<1>2. call'[t].op = "put" /\ call'[t].at = "unuseVictim" /\ call'[t].victim = call[t].victim
  BY <1>1 DEF CallType
<1>3. cache' = cache \ {call[t].victim} /\ Nodes' = Nodes
  BY DEF Evict, Nodes
<1>4. (OneNode(k) => OneNode(k)') /\ (Queued(k)' <=> Queued(k))
  BY <1>3 DEF OneNode, Queued
<1>5. CASE k = call[t].victim
  <2>1. k \in Hands(t) /\ Works(t, k) /\ Works(t, k)'
    BY <1>1, <1>2, <1>5, InHand DEF Works
  <2>2. Midway(t, k) => ~Queued(k)
    BY <1>1 DEF Midway
  <2>3. ~Queued(k)' => Midway(t, k)'
    BY <1>2, <1>3, <1>5 DEF Midway
  <2> QED BY <1>1, <1>4, <2>1, <2>2, <2>3 DEF Keeps, Settled
<1>6. CASE k # call[t].victim
  <2>1. ~Works(t, k) /\ ~Works(t, k)' /\ Untouched(k)
    BY <1>1, <1>2, <1>3, <1>6 DEF Works, Untouched
  <2>2. k \in cache' <=> k \in cache
    BY <1>3, <1>6
  <2> QED BY <1>1, <1>4, <2>1, <2>2 DEF Keeps, Settled
<1> QED BY <1>5, <1>6

LEMMA EvictedUseKeeps ==
  ASSUME TypeOK, CallInv, NEW t \in Threads, Track, EvictedUse(t), NEW k \in Keys
  PROVE  Typed(t) /\ Keeps(t, k)
<1>1. /\ Typed(t) /\ call[t].op = "put" /\ call[t].victim \in Keys /\ call[t].at = "unuseVictim"
      /\ call'[t].op = "put" /\ call'[t].key = call[t].key /\ call'[t].at = "size"
      /\ call'[t].victim = None
  BY EvictedUseTyped DEF EvictedUse, At
<1>2. k # None /\ cache' = cache /\ Unqueue(call[t].victim)
  BY ObjectStoreAssumption DEF EvictedUse
<1>3. Nodes' \subseteq Nodes /\ \A m \in Nodes : m.key # call[t].victim => m \in Nodes'
  BY <1>2, UnqueueNodes DEF Nodes
<1>4. (OneNode(k) => OneNode(k)') /\ (Queued(k)' => Queued(k))
  BY <1>3 DEF OneNode, Queued
<1>5. ~Works(t, k)'
  BY <1>1, <1>2 DEF Works
<1>6. CASE k = call[t].victim
  <2>1. k \in Hands(t) /\ Works(t, k)
    BY <1>1, <1>6, InHand DEF Works
  <2>2. Midway(t, k) => ~Queued(k) /\ k \notin cache
    BY <1>1 DEF Midway
  <2> QED BY <1>1, <1>2, <1>4, <1>5, <2>1, <2>2 DEF Keeps, Settled
<1>7. CASE k # call[t].victim
  <2>1. ~Works(t, k) /\ Untouched(k)
    BY <1>1, <1>2, <1>3, <1>7 DEF Works, Untouched
  <2>2. Queued(k)' <=> Queued(k)
    BY <2>1 DEF Untouched, Queued
  <2> QED BY <1>1, <1>2, <1>4, <1>5, <2>1, <2>2 DEF Keeps, Settled
<1> QED BY <1>6, <1>7

LEMMA ForgetKeeps ==
  ASSUME TypeOK, CallInv, NEW t \in Threads, Track, Forget(t), NEW k \in Keys
  PROVE  Typed(t) /\ Keeps(t, k)
<1>1. /\ Typed(t) /\ call[t].op = "remove" /\ call[t].key \in Keys /\ call[t].victim = None
      /\ call[t].at = "forget" /\ call'[t] = Idle
  BY ForgetTyped DEF Forget, At
<1>2. k # None /\ cache' = cache /\ Unqueue(call[t].key)
  BY ObjectStoreAssumption DEF Forget
<1>3. /\ Nodes' \subseteq Nodes
      /\ \A m \in Nodes : m.key # call[t].key => m \in Nodes'
      /\ OneNode(call[t].key) => \A m \in Nodes' : m.key # call[t].key
  BY <1>2, UnqueueNodes DEF Nodes, OneNode
<1>4. ~Works(t, k)' /\ k \notin Hands(t)'
  BY <1>1, <1>2, IdleFields, InHand DEF Works
<1>5. CASE k = call[t].key
  <2>1. k \in Hands(t) /\ Works(t, k)
    BY <1>1, <1>5, InHand DEF Works
  <2>2. OneNode(k) => OneNode(k)' /\ ~Queued(k)'
    BY <1>3, <1>5 DEF OneNode, Queued
  <2>3. Midway(t, k) => k \notin cache
    BY <1>1 DEF Midway
  <2> QED BY <1>1, <1>2, <1>4, <2>1, <2>2, <2>3 DEF Keeps, Settled
<1>6. CASE k # call[t].key
  <2>1. k \notin Hands(t) /\ Untouched(k)
    BY <1>1, <1>2, <1>3, <1>6, InHand DEF Untouched
  <2> QED BY <1>1, <1>4, <2>1 DEF Keeps
<1> QED BY <1>5, <1>6

LEMMA ClearPollsKeeps ==
  ASSUME TypeOK, CallInv, NEW t \in Threads, Track, ClearPolls(t), NEW k \in Keys
  PROVE  Typed(t) /\ Keeps(t, k)
<1>1. /\ Typed(t) /\ call[t].op = "clear" /\ call[t].at = "clear"
      /\ queue = <<>> => call'[t] = Idle
      /\ queue # <<>> => call' = call /\ Nodes' = Nodes \ {Head(queue)}
  BY ClearPollsTyped DEF ClearPolls, At, Nodes
<1>2. k # None /\ cache' = cache /\ k \in Hands(t) /\ Works(t, k)
  BY <1>1, ObjectStoreAssumption, InHand DEF ClearPolls, Works
<1>3. Midway(t, k) => k \notin cache
  BY <1>1 DEF Midway
<1>4. CASE queue = <<>>
  <2>1. Nodes' = {} /\ Nodes = {}
    BY <1>4 DEF Nodes, ClearPolls, ToSet
  <2>2. OneNode(k)' /\ ~Queued(k)'
    BY <2>1 DEF OneNode, Queued
  <2>3. ~Works(t, k)'
    BY <1>1, <1>2, <1>4, IdleFields DEF Works
  <2> QED BY <1>1, <1>2, <1>3, <2>2, <2>3 DEF Keeps, Settled
<1>5. CASE queue # <<>>
  <2>1. Works(t, k)'
    BY <1>1, <1>5 DEF Works
  <2>2. OneNode(k) => OneNode(k)'
    BY <1>1, <1>5 DEF OneNode
  <2>3. k \notin cache => Midway(t, k)'
    BY <1>1, <1>2, <1>5 DEF Midway
  <2> QED BY <1>1, <1>2, <1>3, <2>1, <2>2, <2>3 DEF Keeps, Settled
<1> QED BY <1>4, <1>5

LEMMA StepKeeps ==
  ASSUME TypeOK, CallInv, NEW t \in Threads, Call(t) \/ Work(t), Track, NEW k \in Keys
  PROVE  Typed(t) /\ Keeps(t, k)
BY PutKeeps, GetKeeps, DiscardKeeps, ClearKeeps, TouchRemovesKeeps, TouchOffersKeeps, SizeVisitsKeeps,
   SizeKnownKeeps, PollKeeps, EvictKeeps, EvictedUseKeeps, ForgetKeeps, ClearPollsKeeps
   DEF Call, Work

\* A step keeps the calls typed and the keys in order.
LEMMA KeyInvStep ==
  ASSUME TypeOK, CallInv, KeyInv, NEW t \in Threads, Call(t) \/ Work(t), Track
  PROVE  Typed(t) /\ KeyInv'
<1>1. PICK k0 : k0 \in Keys
  <2>1. CASE Call(t)
    BY <2>1 DEF Call
  <2>2. CASE Work(t)
    <3>1. call[t].at # ""
      BY <2>2 DEF Work, TouchRemoves, TouchOffers, SizeVisits, SizeKnown, Poll, Evict, EvictedUse,
                  Forget, ClearPolls, At
    <3> QED BY <3>1, Labels
  <2> QED BY <2>1, <2>2
<1>2. Typed(t)
  BY <1>1, StepKeeps
<1>3. CASE Sound'
  <2>1. TypeOK' /\ Sound' => (\A k \in Keys : InOrder(k))'
    BY SoundKeysInOrder, PTL
  <2> QED BY <1>2, <1>3, <2>1 DEF KeyInv, Typed
<1>4. CASE ~Sound'
  <2>1. contended' = contended \cup Shared'
    BY <1>4 DEF Track
  <2> SUFFICES ASSUME NEW k \in Keys, k \notin contended, k \notin Shared'
               PROVE  InOrder(k)'
    BY <1>2, <2>1 DEF KeyInv
  <2>2. Keeps(t, k) /\ InOrder(k)
    BY StepKeeps DEF KeyInv
  <2> QED BY <1>2, <2>2, KeyStep DEF Typed
<1> QED BY <1>2, <1>3, <1>4

-----------------------------------------------------------------------------
(* What a walk of the queue has counted                                    *)

\* Only touch adds a node, with a number of its own.
LEMMA NodesStep ==
  ASSUME TypeOK, CallInv, NEW t \in Threads, Call(t) \/ Work(t), Track
  PROVE  \/ Nodes' \subseteq Nodes
         \/ /\ TouchOffers(t)
            /\ Nodes' = Nodes \cup {[key |-> call[t].key, nr |-> offers + 1]}
<1>1. CASE Call(t)
  BY <1>1 DEF Call, Put, Get, Discard, Clear, Begin, Nodes
<1>2. CASE TouchRemoves(t)
  BY <1>2, UnqueueNodes DEF TouchRemoves, Nodes
<1>3. CASE TouchOffers(t)
  BY <1>3, TouchOffersTyped DEF Nodes
<1>4. CASE SizeVisits(t) \/ SizeKnown(t) \/ Evict(t)
  BY <1>4 DEF SizeVisits, SizeKnown, Evict, storeVars, Nodes
<1>5. CASE Poll(t)
  <2>1. CASE queue = <<>>
    BY <1>5, <2>1 DEF Poll, Nodes
  <2>2. CASE queue # <<>>
    BY <1>5, <2>2, PollTyped DEF Nodes
  <2> QED BY <2>1, <2>2
<1>6. CASE EvictedUse(t)
  BY <1>6, UnqueueNodes DEF EvictedUse, Nodes
<1>7. CASE Forget(t)
  BY <1>7, UnqueueNodes DEF Forget, Nodes
<1>8. CASE ClearPolls(t)
  <2>1. CASE queue = <<>>
    BY <1>8, <2>1 DEF ClearPolls, Nodes
  <2>2. CASE queue # <<>>
    BY <1>8, <2>2, ClearPollsTyped DEF Nodes
  <2> QED BY <2>1, <2>2
<1> QED BY <1>1, <1>2, <1>3, <1>4, <1>5, <1>6, <1>7, <1>8 DEF Work

\* How the steps move on.
LEMMA Moves ==
  ASSUME TypeOK, CallInv, NEW t \in Threads, Call(t) \/ Work(t), Track
  PROVE  /\ call'[t].at = "size" => SizeVisits(t) \/ call'[t].seen = 0
         /\ call'[t].at = "offer" =>
              call[t].at = "unuse" /\ call'[t].op = call[t].op /\ call'[t].key = call[t].key
         /\ call[t].op = "put" /\ call'[t].op # "put" =>
              \/ SizeKnown(t) /\ ~TooMany(t) /\ call'[t] = Idle
              \/ Poll(t) /\ queue = <<>> /\ call'[t] = Idle
<1>1. Idle.op = "none" /\ Idle.at = "" /\ call[t] \in CallType
  BY IdleFields, Labels
<1>2. CASE Call(t)
  <2>1. PICK k \in Keys : Put(t, k) \/ Get(t, k) \/ Discard(t, k) \/ Clear(t, k)
    BY <1>2 DEF Call
  <2>2. \E op \in {"put", "get", "remove", "clear"}, at \in {"unuse", "forget", "clear"} :
          /\ Begin(t, op, k, at) /\ cache' \subseteq Keys
          /\ op \in {"put", "get"} => at = "unuse"
          /\ op = "remove" => at = "forget"
          /\ op = "clear" => at = "clear"
    BY <2>1 DEF Put, Get, Discard, Clear, TypeOK
  <2>3. call[t] = Idle /\ call'[t].at \in {"unuse", "forget", "clear"}
    BY <2>2, BeginTyped
  <2> QED BY <1>1, <2>3
<1>3. CASE TouchRemoves(t)
  <2>1. call[t].at = "unuse" /\ call'[t] = [call[t] EXCEPT !.at = "offer"]
    BY <1>3, TouchRemovesTyped DEF TouchRemoves, At
  <2>2. call'[t].at = "offer" /\ call'[t].op = call[t].op /\ call'[t].key = call[t].key
    BY <1>1, <2>1 DEF CallType
  <2> QED BY <2>1, <2>2
<1>4. CASE TouchOffers(t) /\ call[t].op = "put"
  <2>1. call[t].seen = 0 /\ call'[t] = [call[t] EXCEPT !.at = "size"]
    BY <1>4, TouchOffersTyped
  <2>2. call'[t].at = "size" /\ call'[t].op = "put" /\ call'[t].seen = 0
    BY <1>1, <1>4, <2>1 DEF CallType
  <2> QED BY <2>2
<1>5. CASE TouchOffers(t) /\ call[t].op # "put"
  BY <1>1, <1>5, TouchOffersTyped
<1>6. CASE SizeVisits(t)
  BY <1>6, SizeVisitsTyped
<1>7. CASE SizeKnown(t) /\ TooMany(t)
  <2>1. call[t].op = "put" /\ call'[t] = [call[t] EXCEPT !.at = "poll"]
    BY <1>7, SizeKnownTyped
  <2>2. call'[t].at = "poll" /\ call'[t].op = "put"
    BY <1>1, <2>1 DEF CallType
  <2> QED BY <2>2
<1>8. CASE SizeKnown(t) /\ ~TooMany(t)
  BY <1>1, <1>8, SizeKnownTyped
<1>9. CASE Poll(t)
  BY <1>1, <1>9, PollTyped
<1>10. CASE Evict(t)
  <2>1. call[t].op = "put" /\ call'[t] = [call[t] EXCEPT !.at = "unuseVictim"]
    BY <1>10, EvictTyped
  <2>2. call'[t].at = "unuseVictim" /\ call'[t].op = "put"
    BY <1>1, <2>1 DEF CallType
  <2> QED BY <2>2
<1>11. CASE EvictedUse(t)
  BY <1>11, EvictedUseTyped
<1>12. CASE Forget(t)
  BY <1>1, <1>12, ForgetTyped
<1>13. CASE ClearPolls(t)
  <2>1. call[t].op = "clear" /\ call[t].at = "clear"
    BY <1>13, ClearPollsTyped DEF ClearPolls, At
  <2> QED BY <1>1, <1>13, <2>1, ClearPollsTyped
<1> QED BY <1>2, <1>3, <1>4, <1>5, <1>6, <1>7, <1>8, <1>9, <1>10, <1>11, <1>12, <1>13 DEF Work

Counting == \A t \in Threads : call[t].n \in Nat /\ call[t].seen \in Nat

LEMMA Counts == TypeOK /\ CallInv => Counting
BY Labels DEF Counting

LEMMA BehindFinite ==
  ASSUME TypeOK, CallInv, NEW t \in Threads
  PROVE  IsFiniteSet(Behind(t)) /\ Cardinality(Behind(t)) \in Nat
<1>1. IsFiniteSet(1 .. call[t].seen)
  <2>1. call[t].seen \in Nat
    BY Labels
  <2>2. call[t].seen \in Int /\ 1 \in Int
    BY <2>1
  <2> QED BY <2>2, FS_Interval
<1>2. Behind(t) \subseteq 1 .. call[t].seen
  BY DEF Behind
<1> QED BY <1>1, <1>2, FS_Subset, FS_CardinalityType

LEMMA NodeNumbers ==
  ASSUME TypeOK
  PROVE  /\ offers \in Nat
         /\ \A m \in Nodes : m.nr \in 1 .. offers /\ m.key \in Keys
         /\ \A m, p \in Nodes : m.nr = p.nr => m = p
         /\ IsFiniteSet(Nodes) /\ Cardinality(Nodes) \in Nat
         /\ Len(queue) \in Nat /\ Cardinality(Nodes) <= Len(queue)
<1>1. /\ queue \in Seq(Node) /\ Increasing(queue) /\ offers \in Nat
      /\ Len(queue) \in Nat /\ DOMAIN queue = 1 .. Len(queue)
  <2>1. queue \in Seq(Node) /\ Increasing(queue) /\ offers \in Nat
    BY DEF TypeOK, Node, Increasing
  <2> QED BY <2>1
<1>2. \A i \in 1 .. Len(queue) : queue[i].nr \in 1 .. offers /\ queue[i].key \in Keys
  <2>1. \A i \in 1 .. Len(queue) : queue[i] \in Node
    BY <1>1
  <2> QED BY <2>1 DEF Node
<1>3. \A i, j \in 1 .. Len(queue) : queue[i].nr = queue[j].nr => i = j
  BY <1>1, <1>2 DEF Increasing
<1>4. queue \in Surjection(1 .. Len(queue), Nodes)
  BY <1>1 DEF Surjection, Nodes, ToSet
<1>5. IsFiniteSet(1 .. Len(queue)) /\ Cardinality(1 .. Len(queue)) = Len(queue)
  BY <1>1, FS_Interval
<1>6. IsFiniteSet(Nodes) /\ Cardinality(Nodes) <= Len(queue) /\ Cardinality(Nodes) \in Nat
  BY <1>4, <1>5, FS_Surjection, FS_CardinalityType
<1> QED BY <1>1, <1>2, <1>3, <1>6 DEF Nodes, ToSet

\* A walk meets the next node it has not left behind.
LEMMA WalkStep ==
  ASSUME TypeOK, CallInv, WalkInv, NEW t \in Threads, Call(t) \/ Work(t), Track, Typed(t)
  PROVE  WalkInv'
<1> SUFFICES ASSUME NEW u \in Threads, call'[u].at = "size"
             PROVE  Cardinality(Behind(u)') <= call'[u].n
  BY DEF WalkInv
<1>1. call'[u].n \in Nat
  <2>1. TypeOK' /\ CallInv' => Counting'
    BY Counts, PTL
  <2> QED BY <2>1 DEF Typed, Counting
<1>2. CASE u # t
  <2>1. call'[u] = call[u]
    BY <1>2 DEF Typed
  <2>2. call[u].seen \in Nat /\ call[u].seen <= offers /\ offers \in Nat
    <3>1. call[u] \in CallType /\ offers \in Nat
      BY Labels, NodeNumbers
    <3>2. call[u].seen \in 0 .. offers
      BY <3>1 DEF CallType
    <3> QED BY <3>1, <3>2
  <2>3. \A m \in Nodes' : m \in Nodes \/ m.nr = offers + 1
    BY NodesStep
  <2>4. Behind(u)' \subseteq Behind(u)
    BY <2>1, <2>2, <2>3 DEF Behind
  <2>5. Cardinality(Behind(u)') <= Cardinality(Behind(u))
    BY <2>4, BehindFinite, FS_Subset
  <2>6. Cardinality(Behind(u)) <= call[u].n /\ IsFiniteSet(Behind(u)') /\ Cardinality(Behind(u)') \in Nat
    BY <2>1, <2>4, BehindFinite, FS_Subset, FS_CardinalityType DEF WalkInv
  <2> QED BY <1>1, <2>1, <2>5, <2>6, BehindFinite
<1>3. CASE u = t /\ SizeVisits(t)
  <2>1. PICK i \in Ahead(t) : call'[t].seen = queue[i].nr /\ \A j \in Ahead(t) : i <= j
    BY <1>3, SizeVisitsTyped
  <2>2. call'[t].n = call[t].n + 1 /\ Nodes' = Nodes /\ call[t].at = "size"
    BY <1>3, SizeVisitsTyped DEF SizeVisits, storeVars, Nodes, At
  <2>3. /\ i \in 1 .. Len(queue) /\ Len(queue) \in Nat /\ DOMAIN queue = 1 .. Len(queue)
        /\ call[t].seen \in Nat /\ call[t].n \in Nat /\ queue[i].nr > call[t].seen
    <3>1. queue \in Seq(Node)
      BY DEF TypeOK, Node
    <3>2. Len(queue) \in Nat /\ DOMAIN queue = 1 .. Len(queue)
      BY <3>1
    <3>3. call[t].seen \in Nat /\ call[t].n \in Nat
      BY Labels
    <3> QED BY <3>2, <3>3 DEF Ahead
  <2>4. \A j \in 1 .. Len(queue) : queue[j] \in Nodes /\ queue[j].nr \in Nat
    <3>1. \A j \in 1 .. Len(queue) : queue[j] \in Nodes
      BY <2>3 DEF Nodes, ToSet
    <3>2. \A m \in Nodes : m.nr \in Nat
      BY NodeNumbers
    <3> QED BY <3>1, <3>2
  <2>5. ASSUME NEW m \in Nodes, m.nr <= queue[i].nr, m.nr > call[t].seen
        PROVE  m.nr = queue[i].nr
    <3>1. PICK j \in 1 .. Len(queue) : m = queue[j]
      BY <2>3 DEF Nodes, ToSet
    <3>2. i <= j
      BY <2>1, <2>5, <3>1 DEF Ahead
    <3>3. i < j => queue[i].nr < queue[j].nr
      BY <2>3, <3>1 DEF TypeOK
    <3> QED BY <2>3, <2>4, <2>5, <3>1, <3>2, <3>3
  <2>6. Behind(t)' \subseteq Behind(t) \cup {queue[i].nr}
    <3> SUFFICES ASSUME NEW r \in Behind(t)', r # queue[i].nr
                 PROVE  r \in Behind(t)
      OBVIOUS
    <3>1. r \in 1 .. queue[i].nr
      BY <2>1 DEF Behind
    <3>2. PICK m \in Nodes : m.nr = r
      BY <2>2 DEF Behind
    <3>3. r <= call[t].seen
      BY <2>3, <2>4, <2>5, <3>1, <3>2
    <3> QED BY <2>3, <2>4, <3>1, <3>2, <3>3 DEF Behind
  <2>7. /\ IsFiniteSet(Behind(t) \cup {queue[i].nr})
        /\ Cardinality(Behind(t) \cup {queue[i].nr}) <= Cardinality(Behind(t)) + 1
        /\ Cardinality(Behind(t)) \in Nat
    <3>1. IsFiniteSet(Behind(t)) /\ Cardinality(Behind(t)) \in Nat
      BY BehindFinite
    <3> QED BY <3>1, FS_AddElement
  <2>8. Cardinality(Behind(t)) <= call[t].n
    BY <2>2 DEF WalkInv
  <2>9. /\ Cardinality(Behind(t)') \in Nat
        /\ Cardinality(Behind(t)') <= Cardinality(Behind(t) \cup {queue[i].nr})
        /\ Cardinality(Behind(t) \cup {queue[i].nr}) \in Nat
    BY <2>6, <2>7, FS_Subset, FS_CardinalityType
  <2>10. Cardinality(Behind(t)') <= call'[t].n
    BY <2>2, <2>3, <2>7, <2>8, <2>9
  <2> QED BY <1>3, <2>10
<1>4. CASE u = t /\ ~SizeVisits(t)
  <2>1. call'[t].seen = 0
    BY <1>4, Moves
  <2>2. Behind(t)' = {}
    BY <2>1 DEF Behind
  <2> QED BY <1>1, <1>4, <2>2, FS_EmptySet
<1> QED BY <1>2, <1>3, <1>4

-----------------------------------------------------------------------------
(* How far the limit is exceeded                                           *)

\* The keys in use are those of the nodes and of the calls of some threads.
LEMMA InUseOf ==
  ASSUME TypeOK, NEW O, IsFiniteSet(O),
         \A u \in Threads : call[u].op = "get" => u \in O
  PROVE  /\ IsFiniteSet(InUse)
         /\ Cardinality(InUse) \in Nat /\ Cardinality(Nodes) \in Nat /\ Cardinality(O) \in Nat
         /\ Cardinality(InUse) <= Cardinality(Nodes) + Cardinality(O)
<1> DEFINE A == {m.key : m \in Nodes}
           B == {call[u].key : u \in O}
           f == [m \in Nodes |-> m.key]
           g == [u \in O |-> call[u].key]
<1>1. IsFiniteSet(Nodes) /\ Cardinality(Nodes) \in Nat
  BY NodeNumbers
<1>2. f \in Surjection(Nodes, A)
  BY DEF Surjection
<1>3. IsFiniteSet(A) /\ Cardinality(A) <= Cardinality(Nodes) /\ Cardinality(A) \in Nat
  <2> HIDE DEF A, f
  <2> QED BY <1>1, <1>2, FS_Surjection, FS_CardinalityType
<1>4. Cardinality(O) \in Nat
  BY FS_CardinalityType
<1>5. g \in Surjection(O, B)
  BY DEF Surjection
<1>6. IsFiniteSet(B) /\ Cardinality(B) <= Cardinality(O) /\ Cardinality(B) \in Nat
  <2> HIDE DEF B, g
  <2> QED BY <1>4, <1>5, FS_Surjection, FS_CardinalityType
<1>7. InUse \subseteq A \cup B
  <2> SUFFICES ASSUME NEW k \in InUse PROVE k \in A \cup B
    OBVIOUS
  <2>1. CASE Queued(k)
    BY <2>1 DEF Queued
  <2>2. CASE \E u \in Threads : call[u].op = "get" /\ call[u].at = "offer" /\ call[u].key = k
    BY <2>2
  <2> QED BY <2>1, <2>2 DEF InUse
<1> HIDE DEF A, B, f, g
<1>8. /\ IsFiniteSet(A \cup B) /\ Cardinality(A \cup B) <= Cardinality(A) + Cardinality(B)
      /\ Cardinality(A \cup B) \in Nat
  <2>1. /\ IsFiniteSet(A \cup B)
        /\ Cardinality(A \cup B) = Cardinality(A) + Cardinality(B) - Cardinality(A \cap B)
    BY <1>3, <1>6, FS_Union
  <2>2. Cardinality(A \cap B) \in Nat
    BY <1>3, FS_Subset, FS_CardinalityType
  <2> QED BY <1>3, <1>6, <2>1, <2>2, FS_CardinalityType
<1>9. IsFiniteSet(InUse) /\ Cardinality(InUse) <= Cardinality(A \cup B) /\ Cardinality(InUse) \in Nat
  BY <1>7, <1>8, FS_Subset, FS_CardinalityType
<1> QED BY <1>1, <1>3, <1>4, <1>6, <1>8, <1>9

LEMMA InUseFinite ==
  ASSUME TypeOK PROVE IsFiniteSet(InUse) /\ Cardinality(InUse) \in Nat
BY InUseOf, ObjectStoreAssumption

LEMMA InUseBound ==
  ASSUME TypeOK, NEW t \in Threads, call[t].op # "get"
  PROVE  /\ Cardinality(InUse) \in Nat /\ Cardinality(Nodes) \in Nat
         /\ Cardinality(Threads) \in Nat
         /\ Cardinality(InUse) <= Cardinality(Nodes) + Cardinality(Threads) - 1
<1> DEFINE O == Threads \ {t}
<1>1. /\ IsFiniteSet(O) /\ Cardinality(O) = Cardinality(Threads) - 1
      /\ Cardinality(Threads) \in Nat
  <2>1. IsFiniteSet(Threads)
    BY ObjectStoreAssumption
  <2> QED BY <2>1, FS_RemoveElement, FS_CardinalityType
<1>2. \A u \in Threads : call[u].op = "get" => u \in O
  OBVIOUS
<1> HIDE DEF O
<1>3. /\ Cardinality(InUse) \in Nat /\ Cardinality(Nodes) \in Nat
      /\ Cardinality(InUse) <= Cardinality(Nodes) + Cardinality(O)
  BY <1>1, <1>2, InUseOf
<1> QED BY <1>1, <1>3

Bounded(t) ==
  call[t].op # "get" =>
    /\ Cardinality(InUse) \in Nat /\ Cardinality(Nodes) \in Nat
    /\ Cardinality(Threads) \in Nat
    /\ Cardinality(InUse) <= Cardinality(Nodes) + Cardinality(Threads) - 1
    /\ Len(queue) \in Nat /\ Cardinality(Nodes) <= Len(queue)

AllBounded == \A t \in Threads : Bounded(t)

LEMMA InUseBounded == TypeOK => AllBounded
BY InUseBound, NodeNumbers DEF AllBounded, Bounded

\* A walk that has met every node has counted them all.
LEMMA WalkCounts ==
  ASSUME TypeOK, CallInv, WalkInv, NEW t \in Threads, call[t].at = "size", Ahead(t) = {}
  PROVE  Cardinality(Nodes) <= call[t].n
<1> DEFINE f == [m \in Nodes |-> m.nr]
<1>1. call[t].seen \in Nat
  BY Labels
<1>2. \A m \in Nodes : m.nr \in 1 .. call[t].seen
  <2>1. \A i \in 1 .. Len(queue) : ~(queue[i].nr > call[t].seen)
    BY DEF Ahead
  <2>2. Nodes = {queue[i] : i \in 1 .. Len(queue)}
    <3>1. queue \in Seq(Node)
      BY DEF TypeOK, Node
    <3> QED BY <3>1 DEF Nodes, ToSet
  <2>3. \A m \in Nodes : ~(m.nr > call[t].seen)
    BY <2>1, <2>2
  <2>4. \A m \in Nodes : m.nr \in Nat /\ m.nr >= 1
    BY NodeNumbers
  <2> QED BY <1>1, <2>3, <2>4
<1>3. f \in Injection(Nodes, Behind(t))
  <2>1. \A m \in Nodes : m.nr \in Behind(t)
    BY <1>2 DEF Behind
  <2>2. \A m, p \in Nodes : m.nr = p.nr => m = p
    BY NodeNumbers
  <2> QED BY <2>1, <2>2 DEF Injection, IsInjective
<1>4. Cardinality(Nodes) <= Cardinality(Behind(t))
  <2> HIDE DEF f
  <2> QED BY <1>3, BehindFinite, FS_Injection
<1>5. Cardinality(Behind(t)) <= call[t].n
  BY DEF WalkInv
<1>6. Cardinality(Nodes) \in Nat /\ Cardinality(Behind(t)) \in Nat /\ call[t].n \in Nat
  <2>1. Cardinality(Nodes) \in Nat
    BY NodeNumbers
  <2>2. call[t].n \in Nat
    BY Labels
  <2> QED BY <2>1, <2>2, BehindFinite
<1> QED BY <1>4, <1>5, <1>6

\* A step of a call that is no put brings no key into use.
LEMMA UseStep ==
  ASSUME TypeOK, CallInv, KeyInv, NEW t \in Threads, Call(t) \/ Work(t), Track, Typed(t),
         contended \subseteq contended', call[t].op # "put", call'[t].op # "put"
  PROVE  InUse' \subseteq InUse
<1> SUFFICES ASSUME NEW k \in Keys \ contended,
                    \/ Queued(k)'
                    \/ \E u \in Threads : call'[u].op = "get" /\ call'[u].at = "offer" /\ call'[u].key = k
             PROVE  \/ Queued(k)
                    \/ \E u \in Threads : call[u].op = "get" /\ call[u].at = "offer" /\ call[u].key = k
  BY DEF InUse
<1>1. CASE Queued(k)'
  <2>1. PICK m \in Nodes' : m.key = k
    BY <1>1 DEF Queued
  <2>2. CASE m \in Nodes
    BY <2>1, <2>2 DEF Queued
  <2>3. CASE m \notin Nodes
    <3>1. TouchOffers(t) /\ m = [key |-> call[t].key, nr |-> offers + 1]
      BY <2>1, <2>3, NodesStep
    <3>2. call[t].op = "get" /\ call[t].at = "offer"
      BY <3>1, TouchOffersTyped DEF TouchOffers, At
    <3> QED BY <2>1, <3>1, <3>2
  <2> QED BY <2>2, <2>3
<1>2. CASE \E u \in Threads : call'[u].op = "get" /\ call'[u].at = "offer" /\ call'[u].key = k
  <2>1. PICK u \in Threads : call'[u].op = "get" /\ call'[u].at = "offer" /\ call'[u].key = k
    BY <1>2
  <2>2. CASE u # t
    BY <2>1, <2>2 DEF Typed
  <2>3. CASE u = t
    <3>1. call[t].at = "unuse" /\ call[t].op = "get" /\ call[t].key = k
      BY <2>1, <2>3, Moves
    <3>2. Midway(t, k)
      BY <3>1 DEF KeyInv, InOrder, Works
    <3> QED BY <3>1, <3>2 DEF Midway
  <2> QED BY <2>2, <2>3
<1> QED BY <1>1, <1>2

LEMMA ExcessStep ==
  ASSUME TypeOK, CallInv, KeyInv, WalkInv, ExcessInv,
         NEW t \in Threads, Call(t) \/ Work(t), Track, Typed(t)
  PROVE  ExcessInv'
<1> SUFFICES ASSUME \A u \in Threads : call'[u].op # "put"
             PROVE  Cardinality(InUse') <= MaxItems + Cardinality(Threads) - 1
  BY DEF ExcessInv
<1>1. AllBounded /\ AllBounded'
  <2>1. TypeOK' => AllBounded'
    BY InUseBounded, PTL
  <2> QED BY <2>1, InUseBounded DEF Typed
<1>2. MaxItems \in Nat
  BY ObjectStoreAssumption
<1>3. CASE Sound'
  <2>1. call'[t].op # "get" /\ Len(queue') <= MaxItems
    BY <1>3, IdleFields DEF Sound, AtRest
  <2>2. Bounded(t)'
    BY <1>1 DEF AllBounded
  <2> QED BY <1>2, <2>1, <2>2 DEF Bounded
<1>4. CASE ~Sound' /\ call[t].op = "put"
  <2>1. /\ call'[t] = Idle
        /\ \/ SizeKnown(t) /\ ~TooMany(t)
           \/ Poll(t) /\ queue = <<>>
    BY <1>4, Moves
  <2>2. Bounded(t)' /\ call'[t].op # "get"
    BY <1>1, <2>1, IdleFields DEF AllBounded
  <2>3. Cardinality(Nodes') <= MaxItems
    <3>1. CASE SizeKnown(t) /\ ~TooMany(t)
      <4>1. Nodes' = Nodes /\ call[t].at = "size" /\ Ahead(t) = {} /\ ~(call[t].n > MaxItems)
        BY <3>1 DEF SizeKnown, storeVars, Nodes, At, TooMany
      <4>2. Cardinality(Nodes) <= call[t].n
        BY <4>1, WalkCounts
      <4>3. Cardinality(Nodes) \in Nat
        BY NodeNumbers
      <4>4. call[t].n \in Nat
        BY Labels
      <4> QED BY <1>2, <4>1, <4>2, <4>3, <4>4
    <3>2. CASE Poll(t) /\ queue = <<>>
      <4>1. Nodes' = {}
        BY <3>2 DEF Poll, Nodes, ToSet
      <4> QED BY <1>2, <4>1, FS_EmptySet
    <3> QED BY <2>1, <3>1, <3>2
  <2> QED BY <1>2, <2>2, <2>3 DEF Bounded
<1>5. CASE ~Sound' /\ call[t].op # "put"
  <2>1. \A u \in Threads : call[u].op # "put"
    BY <1>5 DEF Typed
  <2>2. Cardinality(InUse) <= MaxItems + Cardinality(Threads) - 1
    BY <2>1 DEF ExcessInv
  <2>3. contended \subseteq contended'
    BY <1>5 DEF Track
  <2>4. InUse' \subseteq InUse
    BY <1>5, <2>3, UseStep
  <2>5. Cardinality(InUse') <= Cardinality(InUse) /\ Cardinality(InUse') \in Nat /\ Cardinality(InUse) \in Nat
    BY <2>4, InUseFinite, FS_Subset, FS_CardinalityType
  <2>6. Cardinality(Threads) \in Nat
    BY ObjectStoreAssumption, FS_CardinalityType
  <2> QED BY <1>2, <2>2, <2>5, <2>6
<1> QED BY <1>3, <1>4, <1>5

-----------------------------------------------------------------------------
(* What is always true                                                     *)

LEMMA InitIInv == Init => IInv
<1> SUFFICES ASSUME Init PROVE IInv
  OBVIOUS
<1>1. \A t \in Threads : call[t] = Idle
  BY DEF Init
<1>2. TypeOK /\ CallInv
  <2>1. QueueOK
    BY DEF Init, QueueOK, Node, Increasing
  <2>2. Idle \in CallType
    <3>1. 0 \in 0 .. offers
      BY DEF Init
    <3> QED BY <3>1 DEF CallType, Idle, CallOf
  <2>3. ASSUME NEW t \in Threads PROVE OneCallOK(t)
    <3>1. call[t].op = "none" /\ call[t].at = "" /\ call[t].victim = None
      BY <1>1, IdleFields
    <3>2. call[t].n = 0 /\ call[t].seen = 0
      BY <1>1, IdleFields
    <3>3. call[t].n <= call[t].seen
      BY <3>2
    <3> QED BY <1>1, <3>1, <3>3 DEF OneCallOK
  <2>4. CallsOK
    BY <2>2, <2>3 DEF CallsOK, Init
  <2>5. cache \subseteq Keys /\ begun \in 0 .. MaxCalls /\ contended \subseteq Keys
    BY ObjectStoreAssumption DEF Init
  <2> QED BY <2>1, <2>4, <2>5, TypeParts
<1>3. KeyInv
  <2>1. Sound
    <3>1. cache = {} /\ queue = <<>> /\ MaxItems \in Nat
      BY ObjectStoreAssumption DEF Init
    <3>2. Len(queue) = 0 /\ UseOrder(queue) = <<>>
      BY <3>1 DEF UseOrder
    <3>3. ToSet(UseOrder(queue)) = {}
      BY <3>2 DEF ToSet
    <3> QED BY <1>1, <3>1, <3>2, <3>3, FS_EmptySet DEF Sound, AtRest
  <2> QED BY <1>2, <2>1, SoundKeys DEF KeyInv
<1>4. WalkInv
  BY <1>1, IdleFields DEF WalkInv
<1>5. ExcessInv
  <2>1. InUse = {}
    <3>1. Nodes = {}
      BY DEF Nodes, ToSet, Init
    <3> QED BY <1>1, <3>1, IdleFields DEF InUse, Queued
  <2>2. MaxItems \in Nat \ {0} /\ Cardinality(Threads) \in Nat
    BY ObjectStoreAssumption, FS_CardinalityType
  <2> QED BY <2>1, <2>2, FS_EmptySet DEF ExcessInv
<1> QED BY <1>2, <1>3, <1>4, <1>5 DEF IInv

LEMMA StepIInv == IInv /\ [Next]_vars => IInv'
<1> SUFFICES ASSUME IInv, [Next]_vars PROVE IInv'
  OBVIOUS
<1>1. CASE Next
  <2>1. PICK t \in Threads : (Call(t) \/ Work(t)) /\ Track
    BY <1>1 DEF Next
  <2>2. Typed(t) /\ KeyInv'
    BY <2>1, KeyInvStep DEF IInv
  <2>3. WalkInv'
    BY <2>1, <2>2, WalkStep DEF IInv
  <2>4. ExcessInv'
    BY <2>1, <2>2, ExcessStep DEF IInv
  <2> QED BY <2>2, <2>3, <2>4 DEF IInv, Typed
<1>2. CASE UNCHANGED vars
  <2>1. /\ cache' = cache /\ queue' = queue /\ offers' = offers /\ call' = call
        /\ begun' = begun /\ contended' = contended
    BY <1>2 DEF vars, storeVars
  <2>2. TypeOK' /\ CallInv'
    BY <2>1 DEF IInv, TypeOK, CallInv
  <2>3. Nodes' = Nodes /\ \A k : Queued(k)' <=> Queued(k)
    BY <2>1 DEF Nodes, Queued
  <2>4. KeyInv'
    BY <2>1, <2>3 DEF IInv, KeyInv, InOrder, OneNode, Hands, Works, Midway, Queued
  <2>5. WalkInv'
    BY <2>1, <2>3 DEF IInv, WalkInv, Behind
  <2>6. ExcessInv'
    <3>1. InUse' = InUse
      BY <2>1, <2>3 DEF InUse, Queued
    <3> QED BY <2>1, <3>1 DEF IInv, ExcessInv
  <2> QED BY <2>2, <2>4, <2>5, <2>6 DEF IInv
<1> QED BY <1>1, <1>2

LEMMA AlwaysIInv == Spec => []IInv
BY InitIInv, StepIInv, PTL DEF Spec

\* The nodes are in the order in which they were offered, and a call knows the
\* key it is evicting for as long as it evicts it.
THEOREM TypeCorrect == Spec => []TypeOK
<1>1. IInv => TypeOK
  BY DEF IInv
<1> QED BY <1>1, AlwaysIInv, PTL

\* Between calls nobody has a key in hand.
LEMMA RestKeys ==
  ASSUME TypeOK, KeyInv, AtRest, NEW k \in Keys \ contended
  PROVE  OneNode(k) /\ (k \in cache <=> Queued(k))
<1>1. \A t \in Threads : ~Works(t, k)
  <2>1. k # None
    BY ObjectStoreAssumption
  <2> QED BY <2>1, IdleFields DEF AtRest, Works
<1> QED BY <1>1 DEF KeyInv, InOrder

\* Between calls a key is in the map if and only if it is in the queue, once,
\* so that it can be evicted, unless two calls have had it in hand at once:
\* the two-step changes of put, get, remove and clear.
THEOREM KeysAreAlwaysQueued == Spec => []KeysAreQueued
<1>1. IInv => KeysAreQueued
  <2> SUFFICES ASSUME IInv, AtRest, NEW k \in Keys \ contended
               PROVE  (IF k \in cache THEN 1 ELSE 0)
                        = Cardinality({i \in 1 .. Len(queue) : queue[i].key = k})
    BY DEF KeysAreQueued
  <2> DEFINE I == {i \in 1 .. Len(queue) : queue[i].key = k}
  <2>1. OneNode(k) /\ (k \in cache <=> Queued(k))
    BY RestKeys DEF IInv
  <2>2. Nodes = {queue[i] : i \in 1 .. Len(queue)}
    <3>1. queue \in Seq(Node)
      BY DEF IInv, TypeOK, Node
    <3> QED BY <3>1 DEF Nodes, ToSet
  <2>3. \A i, j \in I : i = j
    <3> SUFFICES ASSUME NEW i \in I, NEW j \in I PROVE i = j
      OBVIOUS
    <3>1. queue[i] = queue[j]
      BY <2>1, <2>2 DEF OneNode
    <3>2. /\ queue \in Seq(Node) /\ Increasing(queue) /\ offers \in Nat
          /\ queue[i] \in Nodes /\ Len(queue) \in Nat
      BY <2>2, NodeNumbers DEF IInv, TypeOK, Node, Increasing
    <3>3. queue[i].nr \in Nat
      BY <3>2, NodeNumbers DEF IInv
    <3> QED BY <3>1, <3>2, <3>3 DEF Increasing
  <2>4. CASE k \in cache
    <3>1. PICK i \in I : TRUE
      BY <2>1, <2>2, <2>4 DEF Queued
    <3>2. I = {i}
      BY <2>3, <3>1
    <3> QED BY <2>4, <3>2, FS_Singleton
  <2>5. CASE k \notin cache
    <3>1. I = {}
      BY <2>1, <2>2, <2>5 DEF Queued
    <3> QED BY <2>5, <3>1, FS_EmptySet
  <2> QED BY <2>4, <2>5
<1> QED BY <1>1, AlwaysIInv, PTL

\* Between calls the store is over its limit by no more keys than there are
\* other threads, not counting those that two calls have had in hand at once:
\* no put ends before it has met a queue of MaxItems keys or fewer.
THEOREM ExcessIsAlwaysBounded == Spec => []ExcessIsBounded
<1>1. IInv => ExcessIsBounded
  <2> SUFFICES ASSUME IInv, AtRest
               PROVE  Cardinality(cache \ contended) <= MaxItems + Cardinality(Threads) - 1
    BY DEF ExcessIsBounded
  <2>1. cache \ contended \subseteq InUse
    BY RestKeys DEF IInv, InUse, TypeOK
  <2>2. Cardinality(InUse) <= MaxItems + Cardinality(Threads) - 1
    BY IdleFields DEF IInv, ExcessInv, AtRest
  <2>3. /\ Cardinality(InUse) \in Nat /\ Cardinality(cache \ contended) \in Nat
        /\ Cardinality(cache \ contended) <= Cardinality(InUse)
    BY <2>1, InUseFinite, FS_Subset, FS_CardinalityType DEF IInv
  <2>4. MaxItems \in Nat /\ Cardinality(Threads) \in Nat
    BY ObjectStoreAssumption, FS_CardinalityType
  <2> QED BY <2>2, <2>3, <2>4
<1> QED BY <1>1, AlwaysIInv, PTL

-----------------------------------------------------------------------------
(* Orders of use                                                           *)

Distinct(s) == \A i, j \in 1 .. Len(s) : s[i] = s[j] => i = j

\* s without k
Less(s, k) ==
  IF \E i \in 1 .. Len(s) : s[i] = k
  THEN RemoveAt(s, CHOOSE i \in 1 .. Len(s) : s[i] = k)
  ELSE s

\* s with k last
Touched(s, k) == Append(Less(s, k), k)

LEMMA SeqFacts ==
  ASSUME NEW S, NEW s \in Seq(S)
  PROVE  /\ Len(s) \in Nat /\ DOMAIN s = 1 .. Len(s)
         /\ \A i \in 1 .. Len(s) : s[i] \in S
         /\ ToSet(s) = {s[i] : i \in 1 .. Len(s)}
<1>1. Len(s) \in Nat /\ DOMAIN s = 1 .. Len(s) /\ \A i \in 1 .. Len(s) : s[i] \in S
  BY LenProperties, ElementOfSeq
<1> QED BY <1>1 DEF ToSet

LEMMA RemoveAtDistinct ==
  ASSUME NEW S, NEW s \in Seq(S), Distinct(s), NEW k \in 1 .. Len(s)
  PROVE  /\ RemoveAt(s, k) \in Seq(S)
         /\ Len(RemoveAt(s, k)) = Len(s) - 1
         /\ Distinct(RemoveAt(s, k))
         /\ ToSet(RemoveAt(s, k)) = ToSet(s) \ {s[k]}
<1> DEFINE t == RemoveAt(s, k)
           p(i) == IF i < k THEN i ELSE i + 1
<1>1. Len(s) \in Nat /\ DOMAIN s = 1 .. Len(s) /\ ToSet(s) = {s[i] : i \in 1 .. Len(s)}
  BY SeqFacts
<1>2. t \in Seq(S) /\ Len(t) = Len(s) - 1
  BY <1>1, RemoveAtProperties
<1>3. ToSet(t) = {t[i] : i \in 1 .. Len(s) - 1}
  BY <1>2, SeqFacts
<1>4. \A i \in 1 .. Len(s) - 1 : t[i] = s[p(i)] /\ p(i) \in 1 .. Len(s) /\ p(i) # k
  BY <1>1, RemoveAtProperties
<1>5. \A i, j \in 1 .. Len(s) - 1 : p(i) = p(j) => i = j
  BY <1>1
<1>6. \A j \in 1 .. Len(s) : j # k => \E i \in 1 .. Len(s) - 1 : p(i) = j
  <2> SUFFICES ASSUME NEW j \in 1 .. Len(s), j # k
               PROVE  \E i \in 1 .. Len(s) - 1 : p(i) = j
    OBVIOUS
  <2>1. CASE j < k
    <3>1. j \in 1 .. Len(s) - 1 /\ p(j) = j
      BY <1>1, <2>1
    <3> QED BY <3>1
  <2>2. CASE j > k
    <3>1. j - 1 \in 1 .. Len(s) - 1 /\ p(j - 1) = j
      BY <1>1, <2>2
    <3> QED BY <3>1
  <2> QED BY <1>1, <2>1, <2>2
<1> HIDE DEF t, p
<1>7. Distinct(t)
  <2> SUFFICES ASSUME NEW i \in 1 .. Len(s) - 1, NEW j \in 1 .. Len(s) - 1, t[i] = t[j]
               PROVE  i = j
    BY <1>2 DEF Distinct
  <2>1. p(i) = p(j)
    BY <1>4 DEF Distinct
  <2> QED BY <1>5, <2>1
<1>8. ToSet(t) \subseteq ToSet(s) \ {s[k]}
  BY <1>1, <1>3, <1>4 DEF Distinct
<1>9. ToSet(s) \ {s[k]} \subseteq ToSet(t)
  <2> SUFFICES ASSUME NEW j \in 1 .. Len(s), s[j] # s[k]
               PROVE  s[j] \in ToSet(t)
    BY <1>1
  <2>1. PICK i \in 1 .. Len(s) - 1 : p(i) = j
    BY <1>6
  <2> QED BY <1>3, <1>4, <2>1
<1> QED BY <1>2, <1>7, <1>8, <1>9 DEF t

LEMMA LessProperties ==
  ASSUME NEW S, NEW s \in Seq(S), Distinct(s), NEW k \in S
  PROVE  /\ Less(s, k) \in Seq(S)
         /\ Distinct(Less(s, k))
         /\ ToSet(Less(s, k)) = ToSet(s) \ {k}
         /\ Len(Less(s, k)) <= Len(s)
         /\ k \in ToSet(s) => Len(Less(s, k)) = Len(s) - 1
         /\ \A i \in 1 .. Len(s) : s[i] = k => Less(s, k) = RemoveAt(s, i)
<1>1. Len(s) \in Nat /\ ToSet(s) = {s[i] : i \in 1 .. Len(s)}
  BY SeqFacts
<1>2. CASE \E i \in 1 .. Len(s) : s[i] = k
  <2> DEFINE c == CHOOSE i \in 1 .. Len(s) : s[i] = k
  <2>1. c \in 1 .. Len(s) /\ s[c] = k
    BY <1>2
  <2>2. Less(s, k) = RemoveAt(s, c)
    BY <1>2 DEF Less
  <2> HIDE DEF c
  <2>3. \A i \in 1 .. Len(s) : s[i] = k => i = c
    BY <2>1 DEF Distinct
  <2>4. /\ RemoveAt(s, c) \in Seq(S) /\ Len(RemoveAt(s, c)) = Len(s) - 1
        /\ Distinct(RemoveAt(s, c)) /\ ToSet(RemoveAt(s, c)) = ToSet(s) \ {k}
    BY <2>1, RemoveAtDistinct
  <2> QED BY <1>1, <2>2, <2>3, <2>4
<1>3. CASE ~\E i \in 1 .. Len(s) : s[i] = k
  <2>1. Less(s, k) = s /\ k \notin ToSet(s)
    BY <1>1, <1>3 DEF Less
  <2> QED BY <1>1, <1>3, <2>1
<1> QED BY <1>2, <1>3

LEMMA TailDistinct ==
  ASSUME NEW S, NEW s \in Seq(S), Distinct(s), s # <<>>
  PROVE  /\ Tail(s) \in Seq(S)
         /\ Len(Tail(s)) = Len(s) - 1
         /\ Distinct(Tail(s))
         /\ Head(s) \in S /\ Head(s) = s[1]
         /\ ToSet(Tail(s)) = ToSet(s) \ {Head(s)}
<1>1. /\ Tail(s) \in Seq(S) /\ Len(Tail(s)) = Len(s) - 1
      /\ Head(s) \in S /\ Head(s) = s[1]
      /\ \A i \in 1 .. Len(s) - 1 : Tail(s)[i] = s[i + 1]
  BY HeadTailProperties
<1>2. Len(s) \in Nat \ {0} /\ ToSet(s) = {s[i] : i \in 1 .. Len(s)}
  BY SeqFacts, EmptySeq
<1>3. ToSet(Tail(s)) = {Tail(s)[i] : i \in 1 .. Len(s) - 1}
  <2> DEFINE r == Tail(s)
  <2>1. r \in Seq(S) /\ Len(r) = Len(s) - 1
    BY <1>1
  <2> HIDE DEF r
  <2>2. ToSet(r) = {r[i] : i \in 1 .. Len(s) - 1}
    BY <2>1, SeqFacts
  <2> QED BY <2>2 DEF r
<1>4. \A i \in 1 .. Len(s) - 1 : i + 1 \in 1 .. Len(s) /\ i + 1 # 1
  BY <1>2
<1>5. Distinct(Tail(s))
  <2> SUFFICES ASSUME NEW i \in 1 .. Len(s) - 1, NEW j \in 1 .. Len(s) - 1, Tail(s)[i] = Tail(s)[j]
               PROVE  i = j
    BY <1>1 DEF Distinct
  <2>1. i + 1 = j + 1
    BY <1>1, <1>4 DEF Distinct
  <2> QED BY <2>1
<1>6. ToSet(Tail(s)) \subseteq ToSet(s) \ {Head(s)}
  <2>1. 1 \in 1 .. Len(s)
    BY <1>2
  <2> QED BY <1>1, <1>2, <1>3, <1>4, <2>1 DEF Distinct
<1>7. ToSet(s) \ {Head(s)} \subseteq ToSet(Tail(s))
  <2> SUFFICES ASSUME NEW i \in 1 .. Len(s), i # 1 PROVE s[i] \in ToSet(Tail(s))
    BY <1>1, <1>2
  <2>1. i - 1 \in 1 .. Len(s) - 1 /\ (i - 1) + 1 = i
    BY <1>2
  <2> QED BY <1>1, <1>3, <2>1
<1> QED BY <1>1, <1>5, <1>6, <1>7

LEMMA TouchedProperties ==
  ASSUME NEW S, NEW s \in Seq(S), Distinct(s), NEW k \in S
  PROVE  /\ Touched(s, k) \in Seq(S)
         /\ Distinct(Touched(s, k))
         /\ ToSet(Touched(s, k)) = ToSet(s) \cup {k}
         /\ Len(Touched(s, k)) <= Len(s) + 1
         /\ k \in ToSet(s) => Len(Touched(s, k)) = Len(s)
         /\ Touched(s, k) # <<>>
<1> DEFINE l == Less(s, k)
           f == Append(l, k)
<1>1. /\ l \in Seq(S) /\ Distinct(l) /\ ToSet(l) = ToSet(s) \ {k}
      /\ Len(l) <= Len(s) /\ (k \in ToSet(s) => Len(l) = Len(s) - 1)
  BY LessProperties
<1> HIDE DEF l
<1>2. Len(l) \in Nat /\ Len(s) \in Nat /\ ToSet(l) = {l[i] : i \in 1 .. Len(l)}
  BY <1>1, SeqFacts
<1>3. /\ f \in Seq(S) /\ Len(f) = Len(l) + 1
      /\ \A i \in 1 .. Len(l) : f[i] = l[i]
      /\ f[Len(l) + 1] = k
  BY <1>1, AppendProperties
<1>4. ToSet(f) = {f[i] : i \in 1 .. Len(l) + 1}
  BY <1>3, SeqFacts
<1> HIDE DEF f
<1>5. \A i \in 1 .. Len(l) + 1 : i \in 1 .. Len(l) \/ i = Len(l) + 1
  BY <1>2
<1>6. \A i \in 1 .. Len(l) : l[i] # k
  BY <1>1, <1>2
<1>7. Distinct(f)
  BY <1>1, <1>3, <1>5, <1>6 DEF Distinct
<1>8. ToSet(f) = ToSet(s) \cup {k}
  <2>1. Len(l) + 1 \in 1 .. Len(l) + 1 /\ \A i \in 1 .. Len(l) : i \in 1 .. Len(l) + 1
    BY <1>2
  <2>2. ToSet(f) = ToSet(l) \cup {k}
    BY <1>2, <1>3, <1>4, <1>5, <2>1
  <2> QED BY <1>1, <2>2
<1>9. f # <<>>
  BY <1>2, <1>3, EmptySeq
<1> QED BY <1>1, <1>2, <1>3, <1>7, <1>8, <1>9 DEF f, l, Touched

\* What the operations of the queue do to the order of use.
LEMMA UseOrderSeq ==
  ASSUME NEW N, N \in Nat, NEW q \in Seq([key : Keys, nr : 1 .. N])
  PROVE  /\ UseOrder(q) \in Seq(Keys)
         /\ Len(UseOrder(q)) = Len(q)
         /\ \A i \in 1 .. Len(q) : UseOrder(q)[i] = q[i].key
<1>1. Len(q) \in Nat /\ \A i \in 1 .. Len(q) : q[i] \in [key : Keys, nr : 1 .. N]
  BY SeqFacts
<1>2. UseOrder(q) \in [1 .. Len(q) -> Keys]
  BY <1>1 DEF UseOrder
<1>3. UseOrder(q) \in Seq(Keys)
  BY <1>1, <1>2, SeqDef
<1>4. 1 .. Len(UseOrder(q)) = 1 .. Len(q) /\ Len(UseOrder(q)) \in Nat
  BY <1>2, <1>3, LenProperties
<1>5. Len(UseOrder(q)) = Len(q)
  BY <1>1, <1>4
<1> QED BY <1>3, <1>5 DEF UseOrder

LEMMA UnqueueOrder ==
  ASSUME TypeOK, Distinct(UseOrder(queue)), NEW k \in Keys, Unqueue(k), QueueOK', offers' = offers
  PROVE  UseOrder(queue') = Less(UseOrder(queue), k)
<1> DEFINE s == UseOrder(queue)
<1>1. /\ queue \in Seq([key : Keys, nr : 1 .. offers]) /\ offers \in Nat
      /\ queue' \in Seq([key : Keys, nr : 1 .. offers])
  BY DEF TypeOK, QueueOK, Node
<1>2. /\ s \in Seq(Keys) /\ Len(s) = Len(queue) /\ Len(queue) \in Nat
      /\ \A i \in 1 .. Len(queue) : s[i] = queue[i].key
  BY <1>1, UseOrderSeq, SeqFacts
<1>3. /\ UseOrder(queue') \in Seq(Keys) /\ Len(UseOrder(queue')) = Len(queue')
      /\ \A i \in 1 .. Len(queue') : UseOrder(queue')[i] = queue'[i].key
  BY <1>1, UseOrderSeq
<1> HIDE DEF s
<1>4. CASE \E i \in 1 .. Len(queue) : queue[i].key = k /\ queue' = RemoveAt(queue, i)
  <2> PICK i \in 1 .. Len(queue) : queue[i].key = k /\ queue' = RemoveAt(queue, i)
    BY <1>4
  <2>1. /\ Len(queue') = Len(queue) - 1
        /\ \A j \in 1 .. Len(queue) - 1 : queue'[j] = IF j < i THEN queue[j] ELSE queue[j + 1]
    <3>1. i \in DOMAIN queue
      BY <1>1, SeqFacts
    <3> QED BY <1>1, <3>1, RemoveAtProperties
  <2>2. /\ RemoveAt(s, i) \in Seq(Keys) /\ Len(RemoveAt(s, i)) = Len(s) - 1
        /\ \A j \in 1 .. Len(s) - 1 : RemoveAt(s, i)[j] = IF j < i THEN s[j] ELSE s[j + 1]
    <3>1. i \in DOMAIN s
      BY <1>2, SeqFacts
    <3> QED BY <1>2, <3>1, RemoveAtProperties
  <2>3. \A j \in 1 .. Len(queue) - 1 : j \in 1 .. Len(queue) /\ j + 1 \in 1 .. Len(queue)
    BY <1>2
  <2>4. \A j \in 1 .. Len(queue) - 1 : UseOrder(queue')[j] = RemoveAt(s, i)[j]
    BY <1>2, <1>3, <2>1, <2>2, <2>3
  <2>5. UseOrder(queue') = RemoveAt(s, i)
    BY <1>2, <1>3, <2>1, <2>2, <2>4, SeqEqual
  <2>6. Less(s, k) = RemoveAt(s, i)
    <3>1. Distinct(s) /\ s[i] = k /\ i \in 1 .. Len(s)
      BY <1>2 DEF s
    <3> QED BY <1>2, <3>1, LessProperties
  <2> QED BY <2>5, <2>6 DEF s
<1>5. CASE (\A i \in 1 .. Len(queue) : queue[i].key # k) /\ UNCHANGED queue
  <2>1. \A i \in 1 .. Len(s) : s[i] # k
    BY <1>2, <1>5
  <2>2. Less(s, k) = s
    BY <2>1 DEF Less
  <2>3. UseOrder(queue') = s
    BY <1>5 DEF s
  <2> QED BY <2>2, <2>3 DEF s
<1> QED BY <1>4, <1>5 DEF Unqueue

LEMMA TailOrder ==
  ASSUME TypeOK, queue # <<>>
  PROVE  /\ UseOrder(Tail(queue)) = Tail(UseOrder(queue))
         /\ UseOrder(queue) # <<>> /\ Head(queue).key = Head(UseOrder(queue))
<1> DEFINE s == UseOrder(queue)
           r == UseOrder(Tail(queue))
<1>1. queue \in Seq([key : Keys, nr : 1 .. offers]) /\ offers \in Nat
  BY DEF TypeOK
<1>2. /\ s \in Seq(Keys) /\ Len(s) = Len(queue) /\ Len(queue) \in Nat \ {0}
      /\ \A i \in 1 .. Len(queue) : s[i] = queue[i].key
  BY <1>1, UseOrderSeq, EmptySeq
<1>3. /\ Tail(queue) \in Seq([key : Keys, nr : 1 .. offers]) /\ Len(Tail(queue)) = Len(queue) - 1
      /\ \A i \in 1 .. Len(queue) - 1 : Tail(queue)[i] = queue[i + 1]
      /\ Head(queue) = queue[1]
  BY <1>1, HeadTailProperties
<1>4. /\ r \in Seq(Keys) /\ Len(r) = Len(queue) - 1
      /\ \A i \in 1 .. Len(queue) - 1 : r[i] = Tail(queue)[i].key
  BY <1>1, <1>3, UseOrderSeq
<1> HIDE DEF s, r
<1>5. s # <<>>
  BY <1>2, EmptySeq
<1>6. /\ Tail(s) \in Seq(Keys) /\ Len(Tail(s)) = Len(queue) - 1
      /\ \A i \in 1 .. Len(queue) - 1 : Tail(s)[i] = s[i + 1]
      /\ Head(s) = s[1]
  BY <1>2, <1>5, HeadTailProperties
<1>7. \A i \in 1 .. Len(queue) - 1 : i + 1 \in 1 .. Len(queue)
  BY <1>2
<1>8. \A i \in 1 .. Len(queue) - 1 : r[i] = Tail(s)[i]
  BY <1>2, <1>3, <1>4, <1>6, <1>7
<1>9. r = Tail(s)
  BY <1>4, <1>6, <1>8, SeqEqual
<1>10. 1 \in 1 .. Len(queue)
  BY <1>2
<1>11. Head(queue).key = Head(s)
  BY <1>2, <1>3, <1>6, <1>10
<1> QED BY <1>5, <1>9, <1>11 DEF s, r

LEMMA AppendOrder ==
  ASSUME TypeOK, NEW k \in Keys
  PROVE  UseOrder(Append(queue, [key |-> k, nr |-> offers + 1])) = Append(UseOrder(queue), k)
<1> DEFINE q == Append(queue, [key |-> k, nr |-> offers + 1])
           s == UseOrder(queue)
<1>1. queue \in Seq([key : Keys, nr : 1 .. offers]) /\ offers \in Nat
  BY DEF TypeOK
<1>2. q \in Seq([key : Keys, nr : 1 .. offers + 1]) /\ offers + 1 \in Nat
  <2>1. q \in Seq([key : Keys, nr : 1 .. offers + 1])
    BY AppendNodes
  <2> QED BY <1>1, <2>1
<1>3. /\ s \in Seq(Keys) /\ Len(s) = Len(queue) /\ Len(queue) \in Nat
      /\ \A i \in 1 .. Len(queue) : s[i] = queue[i].key
  BY <1>1, UseOrderSeq, SeqFacts
<1>4. /\ UseOrder(q) \in Seq(Keys) /\ Len(UseOrder(q)) = Len(q)
      /\ \A i \in 1 .. Len(q) : UseOrder(q)[i] = q[i].key
  BY <1>2, UseOrderSeq
<1>5. /\ Len(q) = Len(queue) + 1
      /\ \A i \in 1 .. Len(queue) : q[i] = queue[i]
      /\ q[Len(queue) + 1].key = k
  BY <1>1
<1> HIDE DEF s, q
<1>6. /\ Append(s, k) \in Seq(Keys) /\ Len(Append(s, k)) = Len(queue) + 1
      /\ \A i \in 1 .. Len(queue) : Append(s, k)[i] = s[i]
      /\ Append(s, k)[Len(queue) + 1] = k
  BY <1>3, AppendProperties
<1>7. \A i \in 1 .. Len(queue) + 1 : i \in 1 .. Len(queue) \/ i = Len(queue) + 1
  BY <1>3
<1>8. \A i \in 1 .. Len(queue) + 1 : UseOrder(q)[i] = Append(s, k)[i]
  BY <1>3, <1>4, <1>5, <1>6, <1>7
<1>9. UseOrder(q) = Append(s, k)
  BY <1>4, <1>5, <1>6, <1>8, SeqEqual
<1> QED BY <1>9 DEF s, q

-----------------------------------------------------------------------------
(* One call at a time                                                      *)

\* How far the call of t has got from the order in which it began, when it is
\* the only one.
Progress(t) ==
  LET k == call[t].key
      order == UseOrder(queue)
      full == Touched(start, k)
  IN /\ call[t].op = "get" => k \in ToSet(start)
     /\ call[t].at = "unuse" => order = start
     /\ call[t].at = "offer" => order = Less(start, k)
     /\ call[t].at \in {"unuse", "offer"} => cache = ToSet(start) \cup {k}
     /\ call[t].at = "size" =>
          /\ order = full \/ (Len(full) = MaxItems + 1 /\ order = Tail(full))
          /\ cache = ToSet(order)
          /\ call[t].n \in 0 .. Len(queue)
          /\ call[t].seen = IF call[t].n = 0 THEN 0 ELSE queue[call[t].n].nr
     /\ call[t].at \in {"poll", "evict", "unuseVictim"} => Len(full) = MaxItems + 1
     /\ call[t].at = "poll" => order = full
     /\ call[t].at \in {"poll", "evict"} => cache = ToSet(full)
     /\ call[t].at \in {"evict", "unuseVictim"} => order = Tail(full) /\ call[t].victim = Head(full)
     /\ call[t].at = "unuseVictim" => cache = ToSet(order)
     /\ call[t].at = "forget" => order = start /\ cache = ToSet(start) \ {k}
     /\ call[t].at = "clear" => cache = {}

LruOrder(s) == s \in Seq(Keys) /\ Distinct(s) /\ Len(s) <= MaxItems

OneCall == \A t, u \in Threads : call[t] # Idle /\ call[u] # Idle => t = u

\* The calls made one at a time since the store was sound leave the order of
\* an LRU cache.
CalmBody ==
  /\ OneCall
  /\ LruOrder(Order)
  /\ AtRest => cache = ToSet(Order)
  /\ \A t \in Threads : call[t] # Idle => Progress(t)

CalmInv == calm => CalmBody

-----------------------------------------------------------------------------
(* The steps of the only call                                              *)

Continues(t) == call'[t] # Idle /\ start' = start /\ last' = last /\ Progress(t)'

Ends(t) ==
  LET k == call[t].key
      s == UseOrder(queue')
  IN /\ call'[t] = Idle
     /\ LruOrder(s) /\ cache' = ToSet(s)
     /\ last' = <<call[t].op, k>>
     /\ \/ call[t].op = "put" /\ s = Lru!Newest(Touched(start, k))
        \/ call[t].op = "get" /\ k \in ToSet(start) /\ s = Touched(start, k)
        \/ call[t].op = "remove" /\ s = Less(start, k)
        \/ call[t].op = "clear" /\ s = <<>>

LEMMA LoneTouchRemoves ==
  ASSUME TypeOK, CallInv, NEW t \in Threads, Track, LruOrder(start), Progress(t), TouchRemoves(t)
  PROVE  Continues(t)
<1>1. /\ Typed(t) /\ call[t].op \in {"put", "get"} /\ call[t].key \in Keys
      /\ call'[t] = [call[t] EXCEPT !.at = "offer"] /\ call[t].at = "unuse" /\ call[t] \in CallType
  BY TouchRemovesTyped, Labels DEF TouchRemoves, At
<1>2. /\ call'[t].op = call[t].op /\ call'[t].key = call[t].key /\ call'[t].at = "offer"
  BY <1>1 DEF CallType
<1>3. cache' = cache /\ start' = start /\ last' = last /\ offers' = offers /\ Unqueue(call[t].key)
  BY DEF TouchRemoves, Goto
<1>4. UseOrder(queue) = start /\ cache = ToSet(start) \cup {call[t].key}
  BY <1>1 DEF Progress
<1>5. UseOrder(queue') = Less(start, call[t].key)
  BY <1>1, <1>3, <1>4, UnqueueTyped, UnqueueOrder DEF LruOrder
<1>6. call[t].op = "get" => call[t].key \in ToSet(start)
  BY DEF Progress
<1>7. Progress(t)'
  BY <1>1, <1>2, <1>3, <1>4, <1>5, <1>6 DEF Progress
<1>8. call'[t] # Idle
  BY <1>1, <1>2, IdleFields
<1> QED BY <1>3, <1>7, <1>8 DEF Continues

LEMMA LoneTouchOffers ==
  ASSUME TypeOK, CallInv, NEW t \in Threads, Track, LruOrder(start), Progress(t), TouchOffers(t)
  PROVE  Continues(t) \/ Ends(t)
<1> DEFINE k == call[t].key
           f == Touched(start, k)
<1>1. /\ Typed(t) /\ call[t].op \in {"put", "get"} /\ k \in Keys /\ call[t].at = "offer"
      /\ call[t] \in CallType /\ OneCallOK(t)
      /\ call[t].op = "put" => call'[t] = [call[t] EXCEPT !.at = "size"]
      /\ call[t].op = "get" => call'[t] = Idle
  BY TouchOffersTyped, Labels DEF TouchOffers, At
<1>2. /\ cache' = cache /\ start' = start
      /\ queue' = Append(queue, [key |-> k, nr |-> offers + 1])
  BY DEF TouchOffers, Goto, EndCall
<1>3. UseOrder(queue) = Less(start, k) /\ cache = ToSet(start) \cup {k}
  BY <1>1 DEF Progress
<1>4. UseOrder(queue') = f
  BY <1>1, <1>2, <1>3, AppendOrder DEF Touched
<1>5. /\ f \in Seq(Keys) /\ Distinct(f) /\ ToSet(f) = ToSet(start) \cup {k}
      /\ k \in ToSet(start) => Len(f) = Len(start)
  <2>1. k \in Keys /\ start \in Seq(Keys) /\ Distinct(start)
    BY <1>1 DEF LruOrder
  <2> HIDE DEF k
  <2> QED BY <2>1, TouchedProperties
<1> HIDE DEF f, k
<1>6. CASE call[t].op = "put"
  <2>1. call'[t] = [call[t] EXCEPT !.at = "size"] /\ last' = last
    BY <1>1, <1>6 DEF TouchOffers, Goto
  <2>2. call'[t].op = "put" /\ call'[t].key = k /\ call'[t].at = "size"
    BY <1>1, <1>6, <2>1 DEF CallType, k
  <2>3. call[t].n = 0 /\ call[t].seen = 0
    <3>1. call[t].seen = 0 /\ call[t].n <= call[t].seen
      BY <1>1 DEF OneCallOK
    <3>2. call[t].n \in Nat
      BY Labels
    <3> QED BY <3>1, <3>2
  <2>4. call'[t].n = 0 /\ call'[t].seen = 0
    BY <1>1, <2>1, <2>3 DEF CallType
  <2>5. call'[t].n \in 0 .. Len(queue')
    <3>1. Len(queue') \in Nat
      <4>1. TypeOK'
        BY <1>1 DEF Typed
      <4>2. queue' \in Seq([key : Keys, nr : 1 .. offers'])
        BY <4>1 DEF TypeOK
      <4> QED BY <4>2, LenProperties
    <3> QED BY <2>4, <3>1
  <2>6. Progress(t)'
    BY <1>2, <1>3, <1>4, <1>5, <2>2, <2>4, <2>5 DEF Progress, f
  <2>7. call'[t] # Idle
    BY <2>2, IdleFields
  <2> QED BY <1>2, <2>1, <2>6, <2>7 DEF Continues
<1>7. CASE call[t].op = "get"
  <2>1. call'[t] = Idle /\ last' = <<call[t].op, k>>
    BY <1>1, <1>7 DEF TouchOffers, EndCall, k
  <2>2. k \in ToSet(start)
    BY <1>7 DEF Progress, k
  <2>3. LruOrder(f) /\ cache' = ToSet(f)
    BY <1>2, <1>3, <1>5, <2>2 DEF LruOrder
  <2> QED BY <1>4, <1>7, <2>1, <2>2, <2>3 DEF Ends, f, k
<1> QED BY <1>1, <1>6, <1>7

\* The walk of a queue that nobody else changes counts the nodes in order.
LEMMA LoneSize ==
  ASSUME TypeOK, CallInv, NEW t \in Threads, Progress(t), call[t].at = "size"
  PROVE  /\ Len(queue) \in Nat /\ call[t].n \in 0 .. Len(queue)
         /\ Ahead(t) = call[t].n + 1 .. Len(queue)
<1>1. /\ queue \in Seq(Node) /\ Increasing(queue) /\ offers \in Nat
      /\ Len(queue) \in Nat /\ call[t].n \in 0 .. Len(queue)
      /\ call[t].seen = IF call[t].n = 0 THEN 0 ELSE queue[call[t].n].nr
  BY NodeNumbers DEF TypeOK, Progress, Node, Increasing
<1>2. \A i \in 1 .. Len(queue) : queue[i].nr \in Nat /\ queue[i].nr > 0
  <2>1. \A i \in 1 .. Len(queue) : queue[i] \in Node
    BY <1>1, ElementOfSeq
  <2> QED BY <1>1, <2>1 DEF Node
<1>3. \A i \in 1 .. Len(queue) : queue[i].nr > call[t].seen <=> i > call[t].n
  <2> SUFFICES ASSUME NEW i \in 1 .. Len(queue)
               PROVE  queue[i].nr > call[t].seen <=> i > call[t].n
    OBVIOUS
  <2>1. CASE call[t].n = 0
    BY <1>1, <1>2, <2>1
  <2>2. CASE call[t].n # 0
    <3>1. call[t].n \in 1 .. Len(queue) /\ call[t].seen = queue[call[t].n].nr
      BY <1>1, <2>2
    <3>2. i < call[t].n => queue[i].nr < queue[call[t].n].nr
      BY <3>1, <1>1 DEF Increasing
    <3>3. call[t].n < i => queue[call[t].n].nr < queue[i].nr
      BY <3>1, <1>1 DEF Increasing
    <3> QED BY <1>1, <1>2, <3>1, <3>2, <3>3
  <2> QED BY <2>1, <2>2
<1> QED BY <1>1, <1>3 DEF Ahead

LEMMA LoneSizeVisits ==
  ASSUME TypeOK, CallInv, NEW t \in Threads, Track, LruOrder(start), Progress(t), SizeVisits(t)
  PROVE  Continues(t)
<1>1. /\ Typed(t) /\ call[t].op = "put" /\ call[t].at = "size"
      /\ call'[t].op = "put" /\ call'[t].key = call[t].key /\ call'[t].at = "size"
      /\ call'[t].n = call[t].n + 1
  BY SizeVisitsTyped DEF SizeVisits, At
<1>2. PICK i \in Ahead(t) : call'[t].seen = queue[i].nr /\ \A j \in Ahead(t) : i <= j
  BY SizeVisitsTyped
<1>3. queue' = queue /\ cache' = cache /\ start' = start /\ last' = last
  BY DEF SizeVisits, storeVars
<1>4. /\ Len(queue) \in Nat /\ call[t].n \in 0 .. Len(queue)
      /\ Ahead(t) = call[t].n + 1 .. Len(queue)
  BY <1>1, LoneSize
<1>5. i = call[t].n + 1 /\ call[t].n + 1 \in 1 .. Len(queue)
  <2>1. i \in call[t].n + 1 .. Len(queue) /\ call[t].n + 1 \in call[t].n + 1 .. Len(queue)
    BY <1>4
  <2> QED BY <1>2, <1>4, <2>1
<1>6. /\ call'[t].n \in 0 .. Len(queue') /\ call'[t].n # 0
      /\ call'[t].seen = queue'[call'[t].n].nr
  BY <1>1, <1>2, <1>3, <1>4, <1>5
<1>7. Progress(t)'
  BY <1>1, <1>3, <1>6 DEF Progress
<1>8. call'[t] # Idle
  BY <1>1, IdleFields
<1> QED BY <1>3, <1>7, <1>8 DEF Continues

LEMMA LoneSizeKnown ==
  ASSUME TypeOK, CallInv, NEW t \in Threads, Track, LruOrder(start), Progress(t), SizeKnown(t)
  PROVE  Continues(t) \/ Ends(t)
<1> DEFINE k == call[t].key
           f == Touched(start, k)
           s == UseOrder(queue)
<1>1. /\ Typed(t) /\ call[t].op = "put" /\ k \in Keys /\ call[t].at = "size"
      /\ call[t] \in CallType /\ Ahead(t) = {}
      /\ TooMany(t) => call'[t] = [call[t] EXCEPT !.at = "poll"]
      /\ ~TooMany(t) => call'[t] = Idle
  BY SizeKnownTyped, Labels DEF SizeKnown, At
<1>2. cache' = cache /\ queue' = queue /\ start' = start
  BY DEF SizeKnown, storeVars, Goto, EndCall
<1>3. /\ s = f \/ (Len(f) = MaxItems + 1 /\ s = Tail(f))
      /\ cache = ToSet(s)
  BY <1>1 DEF Progress
<1>4. call[t].n = Len(s) /\ Len(s) \in Nat
  <2>1. /\ Len(queue) \in Nat /\ call[t].n \in 0 .. Len(queue)
        /\ Ahead(t) = call[t].n + 1 .. Len(queue)
    BY <1>1, LoneSize
  <2>2. call[t].n = Len(queue)
    <3> SUFFICES ASSUME call[t].n < Len(queue) PROVE FALSE
      BY <2>1
    <3>1. call[t].n + 1 \in Ahead(t)
      BY <2>1
    <3> QED BY <1>1, <3>1
  <2>3. Len(s) = Len(queue)
    BY UseOrderSeq DEF TypeOK
  <2> QED BY <2>1, <2>2, <2>3
<1>5. /\ f \in Seq(Keys) /\ Distinct(f) /\ ToSet(f) = ToSet(start) \cup {k}
      /\ Len(f) <= Len(start) + 1 /\ f # <<>> /\ Len(start) \in Nat /\ Len(start) <= MaxItems
      /\ Len(f) \in Nat
  <2>1. k \in Keys /\ start \in Seq(Keys) /\ Distinct(start) /\ Len(start) <= MaxItems
    BY <1>1 DEF LruOrder
  <2> HIDE DEF k
  <2>2. /\ f \in Seq(Keys) /\ Distinct(f) /\ ToSet(f) = ToSet(start) \cup {k}
        /\ Len(f) <= Len(start) + 1 /\ f # <<>>
    BY <2>1, TouchedProperties
  <2> HIDE DEF f
  <2>3. Len(start) \in Nat /\ Len(f) \in Nat
    BY <2>1, <2>2, LenProperties
  <2> QED BY <2>1, <2>2, <2>3
<1>6. Tail(f) \in Seq(Keys) /\ Distinct(Tail(f)) /\ Len(Tail(f)) = Len(f) - 1 /\ Tail(f) = SubSeq(f, 2, Len(f))
  BY <1>5, TailDistinct, TailIsSubSeq
<1>7. MaxItems \in Nat
  BY ObjectStoreAssumption
<1> HIDE DEF f, k, s
<1>8. CASE TooMany(t)
  <2>1. call'[t] = [call[t] EXCEPT !.at = "poll"] /\ last' = last
    BY <1>1, <1>8 DEF SizeKnown, Goto
  <2>2. call'[t].op = "put" /\ call'[t].key = k /\ call'[t].at = "poll"
    BY <1>1, <2>1 DEF CallType, k
  <2>3. Len(s) > MaxItems
    BY <1>4, <1>8 DEF TooMany
  <2>4. s = f
    <3> SUFFICES ASSUME Len(f) = MaxItems + 1, s = Tail(f) PROVE FALSE
      BY <1>3
    <3>1. Len(s) = MaxItems
      BY <1>6, <1>7
    <3> QED BY <1>7, <2>3, <3>1
  <2>5. Len(f) = MaxItems + 1
    BY <1>5, <1>7, <2>3, <2>4
  <2>6. Progress(t)'
    BY <1>2, <1>3, <2>2, <2>4, <2>5 DEF Progress, f, s
  <2>7. call'[t] # Idle
    BY <2>2, IdleFields
  <2> QED BY <1>2, <2>1, <2>6, <2>7 DEF Continues
<1>9. CASE ~TooMany(t)
  <2>1. call'[t] = Idle /\ last' = <<call[t].op, k>>
    BY <1>1, <1>9 DEF SizeKnown, EndCall, k
  <2>2. Len(s) <= MaxItems
    BY <1>4, <1>7, <1>9 DEF TooMany
  <2>3. s \in Seq(Keys) /\ Distinct(s)
    BY <1>3, <1>5, <1>6
  <2>4. s = Lru!Newest(f)
    <3>1. CASE s = f
      <4>1. ~(Len(f) > MaxItems)
        BY <1>5, <1>7, <2>2, <3>1
      <4> QED BY <3>1, <4>1 DEF Lru!Newest
    <3>2. CASE Len(f) = MaxItems + 1 /\ s = Tail(f)
      <4>1. Len(f) > MaxItems /\ Len(f) - MaxItems + 1 = 2
        BY <1>5, <1>7, <3>2
      <4> QED BY <1>6, <3>2, <4>1 DEF Lru!Newest
    <3> QED BY <1>3, <3>1, <3>2
  <2>5. LruOrder(s) /\ cache' = ToSet(s) /\ UseOrder(queue') = s
    BY <1>2, <1>3, <2>2, <2>3 DEF LruOrder, s
  <2> QED BY <1>1, <2>1, <2>4, <2>5 DEF Ends, f, k
<1> QED BY <1>8, <1>9

LEMMA LonePoll ==
  ASSUME TypeOK, CallInv, NEW t \in Threads, Track, LruOrder(start), Progress(t), Poll(t)
  PROVE  Continues(t)
<1> DEFINE k == call[t].key
           f == Touched(start, k)
<1>1. /\ call[t].op = "put" /\ k \in Keys /\ call[t].at = "poll"
      /\ queue # <<>> =>
           /\ call'[t].op = "put" /\ call'[t].key = k /\ call'[t].at = "evict"
           /\ call'[t].victim = Head(queue).key
  BY PollTyped DEF Poll, At
<1>2. UseOrder(queue) = f /\ Len(f) = MaxItems + 1 /\ cache = ToSet(f)
  BY <1>1 DEF Progress
<1>3. queue # <<>>
  <2>1. Len(UseOrder(queue)) = Len(queue)
    BY UseOrderSeq DEF TypeOK
  <2>2. MaxItems \in Nat
    BY ObjectStoreAssumption
  <2>3. Len(queue) # 0
    BY <1>2, <2>1, <2>2
  <2> QED BY <2>3, EmptySeq
<1>4. /\ queue' = Tail(queue) /\ cache' = cache /\ start' = start /\ last' = last
  BY <1>3 DEF Poll
<1>5. UseOrder(queue') = Tail(f) /\ call'[t].victim = Head(f)
  BY <1>1, <1>2, <1>3, <1>4, TailOrder
<1> HIDE DEF f, k
<1>6. Progress(t)'
  BY <1>1, <1>2, <1>3, <1>4, <1>5 DEF Progress, f
<1>7. call'[t] # Idle
  BY <1>1, <1>3, IdleFields
<1> QED BY <1>4, <1>6, <1>7 DEF Continues

LEMMA LoneEvict ==
  ASSUME TypeOK, CallInv, NEW t \in Threads, Track, LruOrder(start), Progress(t), Evict(t)
  PROVE  Continues(t)
<1> DEFINE k == call[t].key
           f == Touched(start, k)
<1>1. /\ call[t].op = "put" /\ k \in Keys /\ call[t].at = "evict" /\ call[t] \in CallType
      /\ call'[t] = [call[t] EXCEPT !.at = "unuseVictim"]
  BY EvictTyped, Labels DEF Evict, At
<1>2. /\ call'[t].op = "put" /\ call'[t].key = k /\ call'[t].at = "unuseVictim"
      /\ call'[t].victim = call[t].victim
  BY <1>1 DEF CallType
<1>3. /\ UseOrder(queue) = Tail(f) /\ Len(f) = MaxItems + 1 /\ cache = ToSet(f)
      /\ call[t].victim = Head(f)
  BY <1>1 DEF Progress
<1>4. /\ queue' = queue /\ cache' = cache \ {call[t].victim} /\ start' = start /\ last' = last
  BY DEF Evict, Goto
<1>5. ToSet(Tail(f)) = ToSet(f) \ {Head(f)}
  <2>1. start \in Seq(Keys) /\ Distinct(start) /\ k \in Keys
    BY <1>1 DEF LruOrder
  <2> HIDE DEF k
  <2>2. f \in Seq(Keys) /\ Distinct(f) /\ f # <<>>
    BY <2>1, TouchedProperties
  <2> HIDE DEF f
  <2> QED BY <2>2, TailDistinct
<1> HIDE DEF f, k
<1>6. Progress(t)'
  BY <1>2, <1>3, <1>4, <1>5 DEF Progress, f
<1>7. call'[t] # Idle
  BY <1>2, IdleFields
<1> QED BY <1>4, <1>6, <1>7 DEF Continues

\* The key evicted is no longer in the queue.
LEMMA LoneEvictedUse ==
  ASSUME TypeOK, CallInv, NEW t \in Threads, Track, LruOrder(start), Progress(t), EvictedUse(t)
  PROVE  Continues(t)
<1> DEFINE k == call[t].key
           f == Touched(start, k)
           s == UseOrder(queue)
<1>1. /\ k \in Keys /\ call[t].at = "unuseVictim" /\ call[t].victim \in Keys
      /\ call'[t].op = "put" /\ call'[t].key = k /\ call'[t].at = "size"
      /\ call'[t].seen = 0 /\ call'[t].n = 0
  BY EvictedUseTyped DEF EvictedUse, At
<1>2. /\ s = Tail(f) /\ Len(f) = MaxItems + 1 /\ cache = ToSet(s) /\ call[t].victim = Head(f)
  BY <1>1 DEF Progress
<1>3. /\ Unqueue(call[t].victim) /\ cache' = cache /\ start' = start /\ last' = last /\ offers' = offers
  BY DEF EvictedUse
<1>4. s \in Seq(Keys) /\ Distinct(s) /\ Head(f) \notin ToSet(s)
  <2>1. start \in Seq(Keys) /\ Distinct(start) /\ k \in Keys
    BY <1>1 DEF LruOrder
  <2> HIDE DEF k
  <2>2. f \in Seq(Keys) /\ Distinct(f) /\ f # <<>>
    BY <2>1, TouchedProperties
  <2> HIDE DEF f, s
  <2> QED BY <1>2, <2>2, TailDistinct
<1>5. UseOrder(queue') = Less(s, call[t].victim)
  BY <1>1, <1>3, <1>4, UnqueueTyped, UnqueueOrder
<1> HIDE DEF f, k, s
<1>6. UseOrder(queue') = s
  <2>1. \A i \in 1 .. Len(s) : s[i] # call[t].victim
    <3>1. \A i \in 1 .. Len(s) : s[i] \in ToSet(s)
      BY <1>4, SeqFacts
    <3> QED BY <1>2, <1>4, <3>1 DEF f
  <2> QED BY <1>5, <2>1 DEF Less
<1>7. call'[t].n \in 0 .. Len(queue')
  <2>1. queue' \in Seq(Node')
    BY <1>3, UnqueueTyped DEF QueueOK
  <2>2. Len(queue') \in Nat
    BY <2>1, LenProperties
  <2> QED BY <1>1, <2>2
<1>8. Progress(t)'
  BY <1>1, <1>2, <1>3, <1>6, <1>7 DEF Progress, f, s
<1>9. call'[t] # Idle
  BY <1>1, IdleFields
<1> QED BY <1>3, <1>8, <1>9 DEF Continues

LEMMA LoneForget ==
  ASSUME TypeOK, CallInv, NEW t \in Threads, Track, LruOrder(start), Progress(t), Forget(t)
  PROVE  Ends(t)
<1> DEFINE k == call[t].key
           l == Less(start, k)
<1>1. call[t].op = "remove" /\ k \in Keys /\ call[t].at = "forget" /\ call'[t] = Idle
  BY ForgetTyped DEF Forget, At
<1>2. UseOrder(queue) = start /\ cache = ToSet(start) \ {k}
  BY <1>1 DEF Progress
<1>3. Unqueue(k) /\ cache' = cache /\ last' = <<call[t].op, k>> /\ offers' = offers
  BY DEF Forget, EndCall
<1>4. start \in Seq(Keys) /\ Distinct(start) /\ Len(start) <= MaxItems /\ MaxItems \in Nat
  BY ObjectStoreAssumption DEF LruOrder
<1>5. UseOrder(queue') = l
  BY <1>1, <1>2, <1>3, <1>4, UnqueueTyped, UnqueueOrder
<1>6. LruOrder(l) /\ ToSet(l) = ToSet(start) \ {k}
  <2> HIDE DEF k
  <2>1. /\ l \in Seq(Keys) /\ Distinct(l) /\ Len(l) <= Len(start)
        /\ ToSet(l) = ToSet(start) \ {k}
    BY <1>1, <1>4, LessProperties
  <2> HIDE DEF l
  <2>2. Len(l) \in Nat /\ Len(start) \in Nat
    BY <1>4, <2>1, LenProperties
  <2> QED BY <1>4, <2>1, <2>2 DEF LruOrder
<1> HIDE DEF l, k
<1> QED BY <1>1, <1>2, <1>3, <1>5, <1>6 DEF Ends, l, k

LEMMA LoneClearPolls ==
  ASSUME TypeOK, CallInv, NEW t \in Threads, Track, LruOrder(start), Progress(t), ClearPolls(t)
  PROVE  Continues(t) \/ Ends(t)
<1>1. call[t].op = "clear" /\ call[t].at = "clear" /\ cache' = cache /\ cache = {}
  BY ClearPollsTyped DEF ClearPolls, At, Progress
<1>2. CASE queue = <<>>
  <2>1. call'[t] = Idle /\ last' = <<call[t].op, call[t].key>> /\ queue' = <<>>
    BY <1>2, ClearPollsTyped DEF ClearPolls, EndCall
  <2>2. UseOrder(queue') = <<>>
    BY <2>1 DEF UseOrder
  <2>3. <<>> \in Seq(Keys) /\ Len(<<>>) = 0 /\ ToSet(<<>>) = {} /\ MaxItems \in Nat
    BY EmptySeq, ObjectStoreAssumption DEF ToSet
  <2>4. LruOrder(<<>>)
    BY <2>3 DEF LruOrder, Distinct
  <2> QED BY <1>1, <2>1, <2>2, <2>3, <2>4 DEF Ends
<1>3. CASE queue # <<>>
  <2>1. call' = call /\ start' = start /\ last' = last
    BY <1>3 DEF ClearPolls
  <2>2. Progress(t)'
    BY <1>1, <2>1 DEF Progress
  <2>3. call'[t] # Idle
    BY <1>1, <2>1, IdleFields
  <2> QED BY <2>1, <2>2, <2>3 DEF Continues
<1> QED BY <1>2, <1>3

LEMMA LoneWork ==
  ASSUME TypeOK, CallInv, NEW t \in Threads, Track, LruOrder(start), Progress(t), Work(t)
  PROVE  Typed(t) /\ call[t] # Idle /\ call[t].key \in Keys /\ (Continues(t) \/ Ends(t))
<1>1. call[t].at # ""
  BY DEF Work, TouchRemoves, TouchOffers, SizeVisits, SizeKnown, Poll, Evict, EvictedUse, Forget, ClearPolls, At
<1>2. call[t] # Idle /\ call[t].key \in Keys
  BY <1>1, Labels, IdleFields
<1>3. Typed(t)
  BY <1>2, StepKeeps
<1> QED BY <1>2, <1>3, LoneTouchRemoves, LoneTouchOffers, LoneSizeVisits, LoneSizeKnown, LonePoll,
           LoneEvict, LoneEvictedUse, LoneForget, LoneClearPolls DEF Work

\* A call that begins when there is no other.
LEMMA LoneCall ==
  ASSUME TypeOK, CallInv, NEW t \in Threads, Track, Call(t),
         LruOrder(UseOrder(queue)), cache = ToSet(UseOrder(queue))
  PROVE  /\ Typed(t) /\ call'[t] # Idle /\ call[t] = Idle
         /\ start' = UseOrder(queue) /\ last' = last /\ Progress(t)'
<1> PICK k \in Keys : Put(t, k) \/ Get(t, k) \/ Discard(t, k) \/ Clear(t, k)
  BY DEF Call
<1>1. cache \subseteq Keys /\ Idle.op = "none"
  BY IdleFields DEF TypeOK
<1>2. CASE Put(t, k)
  <2>1. Begin(t, "put", k, "unuse") /\ cache' = cache \cup {k}
    BY <1>2 DEF Put
  <2>2. /\ Typed(t) /\ call[t] = Idle /\ queue' = queue
        /\ call'[t].op = "put" /\ call'[t].key = k /\ call'[t].at = "unuse"
    BY <1>1, <2>1, BeginTyped
  <2>3. start' = UseOrder(queue) /\ last' = last
    BY <2>1 DEF Begin
  <2> QED BY <1>1, <2>1, <2>2, <2>3 DEF Progress
<1>3. CASE Get(t, k)
  <2>1. Begin(t, "get", k, "unuse") /\ cache' = cache /\ k \in cache
    BY <1>3 DEF Get
  <2>2. /\ Typed(t) /\ call[t] = Idle /\ queue' = queue
        /\ call'[t].op = "get" /\ call'[t].key = k /\ call'[t].at = "unuse"
    BY <1>1, <2>1, BeginTyped
  <2>3. start' = UseOrder(queue) /\ last' = last
    BY <2>1 DEF Begin
  <2> QED BY <1>1, <2>1, <2>2, <2>3 DEF Progress
<1>4. CASE Discard(t, k)
  <2>1. Begin(t, "remove", k, "forget") /\ cache' = cache \ {k}
    BY <1>4 DEF Discard
  <2>2. /\ Typed(t) /\ call[t] = Idle /\ queue' = queue
        /\ call'[t].op = "remove" /\ call'[t].key = k /\ call'[t].at = "forget"
    BY <1>1, <2>1, BeginTyped
  <2>3. start' = UseOrder(queue) /\ last' = last
    BY <2>1 DEF Begin
  <2> QED BY <1>1, <2>1, <2>2, <2>3 DEF Progress
<1>5. CASE Clear(t, k)
  <2>1. Begin(t, "clear", k, "clear") /\ cache' = {}
    BY <1>5 DEF Clear
  <2>2. /\ Typed(t) /\ call[t] = Idle /\ queue' = queue
        /\ call'[t].op = "clear" /\ call'[t].key = k /\ call'[t].at = "clear"
    BY <1>1, <2>1, BeginTyped
  <2>3. start' = UseOrder(queue) /\ last' = last
    BY <2>1 DEF Begin
  <2> QED BY <1>1, <2>1, <2>2, <2>3 DEF Progress
<1> QED BY <1>2, <1>3, <1>4, <1>5

-----------------------------------------------------------------------------
(* The store is an LRU cache                                               *)

LEMMA SoundOrder ==
  ASSUME TypeOK, Sound
  PROVE  CalmBody
<1> DEFINE s == UseOrder(queue)
<1>1. AtRest /\ Len(queue) <= MaxItems /\ Len(queue) = Cardinality(cache) /\ cache = ToSet(s)
  BY DEF Sound
<1>2. s \in Seq(Keys) /\ Len(s) = Len(queue) /\ Len(queue) \in Nat
  <2>1. queue \in Seq([key : Keys, nr : 1 .. offers]) /\ offers \in Nat
    BY DEF TypeOK
  <2> QED BY <2>1, UseOrderSeq, LenProperties
<1>3. Distinct(s)
  <2>1. s \in Surjection(1 .. Len(s), cache)
    <3> HIDE DEF s
    <3>1. /\ s \in [1 .. Len(s) -> Keys] /\ ToSet(s) = {s[i] : i \in 1 .. Len(s)}
      BY <1>2, SeqFacts, LenProperties
    <3> QED BY <1>1, <3>1 DEF Surjection
  <2> HIDE DEF s
  <2>2. IsFiniteSet(1 .. Len(s)) /\ Cardinality(1 .. Len(s)) = Cardinality(cache)
    BY <1>1, <1>2, FS_Interval
  <2>3. s \in Injection(1 .. Len(s), cache)
    BY <2>1, <2>2, FS_Surjection
  <2> QED BY <2>3 DEF Injection, IsInjective, Distinct
<1>4. Order = s
  BY <1>1 DEF Order
<1> QED BY <1>1, <1>2, <1>3, <1>4 DEF CalmBody, OneCall, LruOrder, AtRest

LEMMA SoundIsCalm == TypeOK /\ Sound => CalmBody
BY SoundOrder

LEMMA AloneMeans ==
  ASSUME Alone PROVE OneCall
<1> SUFFICES ASSUME NEW t \in Threads, NEW u \in Threads, call[t] # Idle, call[u] # Idle, t # u
             PROVE  FALSE
  BY DEF OneCall
<1> DEFINE A == {v \in Threads : call[v] # Idle}
<1>1. IsFiniteSet(A) /\ Cardinality(A) <= 1 /\ {t, u} \subseteq A
  BY ObjectStoreAssumption, FS_Subset DEF Alone
<1> HIDE DEF A
<1>2. Cardinality({t, u}) = 2 /\ IsFiniteSet({t, u})
  <2>1. IsFiniteSet({t}) /\ Cardinality({t}) = 1
    BY FS_Singleton
  <2>2. u \notin {t} /\ {t, u} = {t} \cup {u}
    OBVIOUS
  <2> QED BY <2>1, <2>2, FS_AddElement
<1>3. 2 <= Cardinality(A) /\ Cardinality(A) \in Nat
  BY <1>1, <1>2, FS_Subset, FS_CardinalityType
<1> QED BY <1>1, <1>3

LEMMA AloneIsOneCall == Alone => OneCall
BY AloneMeans

\* A step of the only call there is, or the first step of a call when there is
\* no other.
LEMMA LoneStep ==
  ASSUME TypeOK, CallInv, CalmBody, NEW t \in Threads, Call(t) \/ Work(t), Track, OneCall'
  PROVE  CalmBody' /\ [Lru!Next]_Lru!vars
<1>1. CASE Call(t)
  <2>1. /\ Typed(t) /\ call[t] = Idle /\ call'[t] # Idle
    <3>1. PICK k \in Keys : Put(t, k) \/ Get(t, k) \/ Discard(t, k) \/ Clear(t, k)
      BY <1>1 DEF Call
    <3>2. Typed(t)
      BY <3>1, StepKeeps
    <3>3. call[t] = Idle
      BY <3>1 DEF Put, Get, Discard, Clear, Begin
    <3>4. call'[t] # Idle
      <4>1. \E op \in {"put", "get", "remove", "clear"}, at \in {"unuse", "forget", "clear"} :
              /\ Begin(t, op, k, at) /\ cache' \subseteq Keys
              /\ op \in {"put", "get"} => at = "unuse"
              /\ op = "remove" => at = "forget"
              /\ op = "clear" => at = "clear"
        BY <3>1 DEF Put, Get, Discard, Clear, TypeOK
      <4>2. call'[t].op \in {"put", "get", "remove", "clear"}
        BY <4>1, BeginTyped
      <4> QED BY <4>2, IdleFields
    <3> QED BY <3>2, <3>3, <3>4
  <2>2. \A u \in Threads \ {t} : call'[u] = Idle /\ call[u] = Idle
    BY <2>1 DEF OneCall, Typed
  <2>3. AtRest /\ ~AtRest'
    BY <2>1, <2>2 DEF AtRest
  <2>4. Order = UseOrder(queue) /\ LruOrder(UseOrder(queue)) /\ cache = ToSet(UseOrder(queue))
    BY <2>3 DEF CalmBody, Order
  <2>5. start' = UseOrder(queue) /\ last' = last /\ Progress(t)'
    BY <1>1, <2>4, LoneCall
  <2>6. Order' = start'
    BY <2>3 DEF Order
  <2>7. CalmBody'
    <3>1. \A u \in Threads : call'[u] # Idle => Progress(u)'
      <4> SUFFICES ASSUME NEW u \in Threads, call'[u] # Idle PROVE Progress(u)'
        OBVIOUS
      <4>1. u = t
        BY <2>2
      <4> QED BY <2>5, <4>1 DEF Progress
    <3>2. LruOrder(Order)'
      BY <2>4, <2>5, <2>6 DEF LruOrder, Distinct
    <3> QED BY <2>3, <3>1, <3>2 DEF CalmBody, OneCall
  <2> QED BY <2>4, <2>5, <2>6, <2>7 DEF Lru!vars
<1>2. CASE Work(t)
  <2>1. call[t] # Idle
    BY <1>2, Labels, IdleFields DEF Work, TouchRemoves, TouchOffers, SizeVisits, SizeKnown, Poll, Evict,
       EvictedUse, Forget, ClearPolls, At
  <2>2. ~AtRest /\ Order = start /\ LruOrder(start) /\ Progress(t)
    BY <2>1 DEF AtRest, Order, CalmBody
  <2>3. Typed(t) /\ call[t].key \in Keys /\ (Continues(t) \/ Ends(t))
    BY <1>2, <2>2, LoneWork
  <2>4. \A u \in Threads \ {t} : call'[u] = Idle /\ call[u] = Idle
    BY <2>1, <2>3 DEF CalmBody, OneCall, Typed
  <2>5. CASE Continues(t)
    <3>1. ~AtRest' /\ Order' = start' /\ start' = start /\ last' = last
      BY <2>5 DEF Continues, AtRest, Order
    <3>2. \A u \in Threads : call'[u] # Idle => Progress(u)'
      <4> SUFFICES ASSUME NEW u \in Threads, call'[u] # Idle PROVE Progress(u)'
        OBVIOUS
      <4>1. u = t
        BY <2>4
      <4> QED BY <2>5, <4>1 DEF Continues, Progress
    <3>3. LruOrder(Order)'
      BY <2>2, <3>1 DEF LruOrder, Distinct
    <3>4. CalmBody'
      BY <3>1, <3>2, <3>3 DEF CalmBody, OneCall
    <3> QED BY <2>2, <3>1, <3>4 DEF Lru!vars
  <2>6. CASE Ends(t)
    <3> DEFINE k == call[t].key
               s == UseOrder(queue')
    <3>1. AtRest' /\ Order' = s
      BY <2>4, <2>6 DEF Ends, AtRest, Order
    <3>2. LruOrder(s) /\ cache' = ToSet(s) /\ last' = <<call[t].op, k>>
      BY <2>6 DEF Ends
    <3>3. CalmBody'
      <4>1. LruOrder(Order)'
        BY <3>1, <3>2 DEF LruOrder, Distinct
      <4> QED BY <3>1, <3>2, <4>1 DEF CalmBody, OneCall, AtRest
    <3>4. Lru!Without(k) = Less(start, k)
      <4>1. Lru!Without(k) = Less(Order, k)
        BY DEF Lru!Without, Lru!Stored, Lru!RemoveAt, RemoveAt, Less
      <4> QED BY <2>2, <4>1
    <3>5. Lru!Next
      <4>1. CASE call[t].op = "put"
        <5>1. s = Lru!Newest(Touched(start, k))
          BY <2>6, <4>1 DEF Ends
        <5> QED BY <2>3, <3>1, <3>2, <3>4, <4>1, <5>1 DEF Lru!Next, Lru!Put, Touched
      <4>2. CASE call[t].op = "get"
        <5>1. k \in ToSet(start) /\ s = Touched(start, k)
          BY <2>6, <4>2 DEF Ends
        <5>2. Lru!Stored(k)
          BY <2>2, <5>1, SeqFacts DEF Lru!Stored, LruOrder
        <5> QED BY <2>3, <3>1, <3>2, <3>4, <4>2, <5>1, <5>2 DEF Lru!Next, Lru!Get, Touched
      <4>3. CASE call[t].op = "remove"
        <5>1. s = Less(start, k)
          BY <2>6, <4>3 DEF Ends
        <5> QED BY <2>3, <3>1, <3>2, <3>4, <4>3, <5>1 DEF Lru!Next, Lru!Discard
      <4>4. CASE call[t].op = "clear"
        <5>1. s = <<>>
          BY <2>6, <4>4 DEF Ends
        <5> QED BY <2>3, <3>1, <3>2, <4>4, <5>1 DEF Lru!Next, Lru!Clear
      <4> QED BY <2>6, <4>1, <4>2, <4>3, <4>4 DEF Ends
    <3> QED BY <3>3, <3>5
  <2> QED BY <2>3, <2>5, <2>6
<1> QED BY <1>1, <1>2

LEMMA InitCalm == Init => CalmInv /\ Lru!Init
<1> SUFFICES ASSUME Init PROVE CalmInv /\ Lru!Init
  OBVIOUS
<1>1. IInv
  BY InitIInv
<1>2. AtRest /\ queue = <<>> /\ last = <<>>
  BY DEF Init, AtRest
<1>3. UseOrder(queue) = <<>>
  BY <1>2 DEF UseOrder
<1>4. Sound
  <2>1. Len(queue) = 0 /\ ToSet(UseOrder(queue)) = {} /\ cache = {} /\ MaxItems \in Nat
    BY <1>2, <1>3, ObjectStoreAssumption DEF ToSet, Init
  <2> QED BY <1>2, <2>1, FS_EmptySet DEF Sound
<1>5. CalmBody
  BY <1>1, <1>4, SoundOrder DEF IInv
<1> QED BY <1>2, <1>3, <1>5 DEF CalmInv, Lru!Init, Order

LEMMA StepCalm ==
  IInv /\ CalmInv /\ [Next]_vars =>
    CalmInv' /\ ((calm /\ calm' => [Lru!Next]_Lru!vars) \/ UNCHANGED vars)
<1> SUFFICES ASSUME IInv, CalmInv, [Next]_vars
             PROVE  CalmInv' /\ ((calm /\ calm' => [Lru!Next]_Lru!vars) \/ UNCHANGED vars)
  OBVIOUS
<1>1. CASE Next
  <2>1. PICK t \in Threads : (Call(t) \/ Work(t)) /\ Track
    BY <1>1 DEF Next
  <2>2. TypeOK /\ CallInv
    BY DEF IInv
  <2>3. TypeOK'
    BY <2>1, KeyInvStep DEF IInv, Typed
  <2>4. TypeOK' /\ Sound' => CalmBody'
    BY SoundIsCalm, PTL
  <2>5. Alone' => OneCall'
    BY AloneIsOneCall, PTL
  <2>6. calm' <=> Sound' \/ (calm /\ Alone')
    BY <2>1 DEF Track
  <2>7. Sound' => OneCall'
    BY DEF Sound, AtRest, OneCall
  <2>8. calm /\ calm' => CalmBody' /\ [Lru!Next]_Lru!vars
    BY <2>1, <2>2, <2>5, <2>6, <2>7, LoneStep DEF CalmInv
  <2>9. CalmInv'
    BY <2>3, <2>4, <2>6, <2>8 DEF CalmInv
  <2> QED BY <2>8, <2>9
<1>2. CASE UNCHANGED vars
  <2>1. CalmInv'
    BY <1>2 DEF vars, storeVars, CalmInv, CalmBody, OneCall, Order, AtRest, LruOrder, Progress
  <2> QED BY <1>2, <2>1
<1> QED BY <1>1, <1>2

LEMMA AlwaysCalm == Spec => []CalmInv
BY InitCalm, StepCalm, AlwaysIInv, PTL DEF Spec

\* Calls that overlap with no other, since the store was last sound, leave the
\* keys of an LRU cache of MaxItems keys.
THEOREM LoneCallsAreLru == Spec => AloneIsLru
<1>1. IInv /\ CalmInv /\ [Next]_vars => [(calm /\ calm') => [Lru!Next]_Lru!vars]_vars
  BY StepCalm
<1> QED BY <1>1, InitCalm, AlwaysIInv, AlwaysCalm, PTL DEF Spec, AloneIsLru
=============================================================================
