------------------------- MODULE RequestJournalProofs -------------------------
(***************************************************************************)
(* Proofs about RequestJournal, for any number of requests, server threads *)
(* and admin threads: a reset clears what it found, and how an event stays *)
(* in the map unlisted.  For a journal that nobody resets or removes from: *)
(* its limit, how far overlapping evictions undershoot it, and that it     *)
(* implements BoundedLog.  For a Recorder over the journal: that it is one *)
(* more user of it, and what a stop that succeeds has captured.            *)
(***************************************************************************)
EXTENDS Recorder, FiniteSetTheorems, SequenceTheorems, TLAPS

-----------------------------------------------------------------------------
(* What the deque's operations do to a sequence that has an element once.   *)

Once(s) == \A i, j \in DOMAIN s : s[i] = s[j] => i = j

LEMMA TailOnce ==
  ASSUME NEW S, NEW s \in Seq(S), s # <<>>, Once(s)
  PROVE  /\ Tail(s) \in Seq(S)
         /\ Once(Tail(s))
         /\ Head(s) \in S
         /\ Len(Tail(s)) = Len(s) - 1
         /\ Head(s) \notin ToSet(Tail(s))
         /\ ToSet(s) = ToSet(Tail(s)) \cup {Head(s)}
<1>1. /\ Head(s) \in S
      /\ Tail(s) \in Seq(S)
      /\ Len(Tail(s)) = Len(s) - 1
      /\ \A i \in 1 .. Len(Tail(s)) : Tail(s)[i] = s[i + 1]
      /\ Head(s) = s[1]
  BY HeadTailProperties
<1>2. DOMAIN s = 1 .. Len(s) /\ DOMAIN Tail(s) = 1 .. Len(s) - 1 /\ Len(s) \in Nat \ {0}
  BY <1>1, EmptySeq
<1>3. Once(Tail(s)) /\ Head(s) \notin ToSet(Tail(s))
  BY <1>1, <1>2 DEF Once, ToSet
<1>4. ToSet(s) = ToSet(Tail(s)) \cup {Head(s)}
  <2>1. ASSUME NEW i \in 1 .. Len(s)
        PROVE  s[i] = Head(s) \/ \E j \in 1 .. Len(s) - 1 : s[i] = Tail(s)[j]
    <3>1. CASE i = 1
      BY <1>1, <3>1
    <3>2. CASE i # 1
      <4>1. i - 1 \in 1 .. Len(s) - 1
        BY <1>2, <3>2
      <4>2. s[i] = Tail(s)[i - 1]
        BY <1>1, <1>2, <4>1
      <4> QED BY <4>1, <4>2
    <3> QED BY <3>1, <3>2
  <2>2. \A j \in 1 .. Len(s) - 1 : j + 1 \in 1 .. Len(s) /\ Tail(s)[j] = s[j + 1]
    BY <1>1, <1>2
  <2>3. ToSet(s) \subseteq ToSet(Tail(s)) \cup {Head(s)}
    BY <1>2, <2>1 DEF ToSet
  <2>4. ToSet(Tail(s)) \cup {Head(s)} \subseteq ToSet(s)
    <3>1. Head(s) \in ToSet(s)
      BY <1>1, <1>2 DEF ToSet
    <3>2. ToSet(Tail(s)) \subseteq ToSet(s)
      BY <1>2, <2>2 DEF ToSet
    <3> QED BY <3>1, <3>2
  <2> QED BY <2>3, <2>4
<1> QED BY <1>1, <1>3, <1>4

LEMMA UpToBefore ==
  \A k \in Nat : \A i \in 1 .. k : i # k => i \in 1 .. k - 1
OBVIOUS

LEMMA FrontOnce ==
  ASSUME NEW S, NEW s \in Seq(S), s # <<>>, Once(s)
  PROVE  /\ Front(s) \in Seq(S)
         /\ Once(Front(s))
         /\ Last(s) \in S
         /\ Len(Front(s)) = Len(s) - 1
         /\ \A i \in 1 .. Len(s) - 1 : Front(s)[i] = s[i]
         /\ Last(s) \notin ToSet(Front(s))
         /\ ToSet(s) = ToSet(Front(s)) \cup {Last(s)}
<1>1. DOMAIN s = 1 .. Len(s) /\ Len(s) \in Nat \ {0}
  BY EmptySeq
<1>2. /\ Front(s) \in Seq(S)
      /\ Len(Front(s)) = Len(s) - 1
      /\ \A i \in 1 .. Len(s) - 1 : Front(s)[i] = s[i]
  <2>1. \A i \in 1 .. Len(s) - 1 : s[i] \in S
    BY <1>1
  <2> QED BY <1>1, <2>1, SubSeqProperties DEF Front
<1>3. DOMAIN Front(s) = 1 .. Len(s) - 1
  BY <1>2
<1>4. Last(s) \in S /\ Last(s) = s[Len(s)]
  BY <1>1 DEF Last
<1>5. Once(Front(s)) /\ Last(s) \notin ToSet(Front(s))
  BY <1>1, <1>2, <1>3, <1>4 DEF Once, ToSet
<1>6. ToSet(s) = ToSet(Front(s)) \cup {Last(s)}
  <2>1. ASSUME NEW i \in 1 .. Len(s)
        PROVE  s[i] = Last(s) \/ \E j \in 1 .. Len(s) - 1 : s[i] = Front(s)[j]
    <3>1. CASE i = Len(s)
      BY <1>4, <3>1
    <3>2. CASE i # Len(s)
      <4>1. i \in 1 .. Len(s) - 1
        BY <1>1, <3>2, UpToBefore
      <4> QED BY <1>2, <4>1
    <3> QED BY <3>1, <3>2
  <2>2. \A j \in 1 .. Len(s) - 1 : j \in 1 .. Len(s) /\ Front(s)[j] = s[j]
    BY <1>1, <1>2
  <2>3. ToSet(s) \subseteq ToSet(Front(s)) \cup {Last(s)}
    BY <1>1, <1>3, <2>1 DEF ToSet
  <2>4. Last(s) \in ToSet(s)
    BY <1>1, <1>4 DEF ToSet
  <2>5. ToSet(Front(s)) \subseteq ToSet(s)
    BY <1>1, <1>3, <2>2 DEF ToSet
  <2> QED BY <2>3, <2>4, <2>5
<1> QED BY <1>2, <1>4, <1>5, <1>6

LEMMA LinkOnce ==
  ASSUME NEW S, NEW s \in Seq(S), NEW x \in S, Once(s), x \notin ToSet(s)
  PROVE  /\ <<x>> \o s \in Seq(S)
         /\ Once(<<x>> \o s)
         /\ Len(<<x>> \o s) = Len(s) + 1
         /\ (<<x>> \o s)[1] = x
         /\ \A i \in 2 .. Len(s) + 1 : (<<x>> \o s)[i] = s[i - 1]
         /\ ToSet(<<x>> \o s) = ToSet(s) \cup {x}
<1> DEFINE t == <<x>> \o s
<1>1. <<x>> \in Seq(S) /\ Len(<<x>>) = 1 /\ <<x>>[1] = x
  OBVIOUS
<1>2. /\ t \in Seq(S)
      /\ Len(t) = Len(s) + 1
      /\ \A i \in 1 .. Len(t) : t[i] = IF i <= 1 THEN <<x>>[i] ELSE s[i - 1]
  BY <1>1, ConcatProperties
<1>3. DOMAIN s = 1 .. Len(s) /\ DOMAIN t = 1 .. Len(s) + 1 /\ Len(s) \in Nat
  BY <1>2
<1> HIDE DEF t
<1>4. t[1] = x
  BY <1>1, <1>2, <1>3
<1>5. \A i \in 2 .. Len(s) + 1 : t[i] = s[i - 1] /\ i - 1 \in 1 .. Len(s)
  BY <1>2, <1>3
<1>6. \A i \in 1 .. Len(s) + 1 : i = 1 \/ i \in 2 .. Len(s) + 1
  BY <1>3
<1>7. \A i \in 2 .. Len(s) + 1 : t[i] # x
  BY <1>3, <1>5 DEF ToSet
<1>8. Once(t)
  <2> SUFFICES ASSUME NEW i \in 1 .. Len(s) + 1, NEW j \in 1 .. Len(s) + 1, t[i] = t[j]
               PROVE  i = j
    BY <1>3 DEF Once
  <2>1. CASE i \in 2 .. Len(s) + 1 /\ j \in 2 .. Len(s) + 1
    <3>1. s[i - 1] = s[j - 1] /\ i - 1 \in DOMAIN s /\ j - 1 \in DOMAIN s
      BY <1>3, <1>5, <2>1
    <3>2. i - 1 = j - 1
      BY <3>1 DEF Once
    <3> QED BY <1>3, <3>2
  <2> QED BY <1>4, <1>6, <1>7, <2>1
<1>9. ToSet(t) = ToSet(s) \cup {x}
  <2>1. ToSet(t) \subseteq ToSet(s) \cup {x}
    BY <1>3, <1>4, <1>5, <1>6 DEF ToSet
  <2>2. x \in ToSet(t)
    BY <1>3, <1>4 DEF ToSet
  <2>3. \A j \in 1 .. Len(s) : j + 1 \in 2 .. Len(s) + 1 /\ t[j + 1] = s[j]
    BY <1>3, <1>5
  <2>4. \A j \in 1 .. Len(s) : j + 1 \in 1 .. Len(s) + 1
    BY <1>3
  <2>5. ToSet(s) \subseteq ToSet(t)
    BY <1>3, <2>3, <2>4 DEF ToSet
  <2> QED BY <2>1, <2>2, <2>5
<1> QED BY <1>2, <1>4, <1>5, <1>8, <1>9 DEF t

LEMMA RemoveAtProperties ==
  ASSUME NEW S, NEW s \in Seq(S), NEW k \in DOMAIN s
  PROVE  /\ RemoveAt(s, k) \in Seq(S)
         /\ Len(RemoveAt(s, k)) = Len(s) - 1
         /\ \A i \in 1 .. Len(s) - 1 : RemoveAt(s, k)[i] = IF i < k THEN s[i] ELSE s[i + 1]
<1> DEFINE l == SubSeq(s, 1, k - 1)
           r == SubSeq(s, k + 1, Len(s))
           t == l \o r
<1>1. DOMAIN s = 1 .. Len(s) /\ Len(s) \in Nat /\ k \in 1 .. Len(s)
  OBVIOUS
<1>2. /\ l \in Seq(S) /\ Len(l) = k - 1 /\ \A i \in 1 .. k - 1 : l[i] = s[i]
  <2>1. \A i \in 1 .. k - 1 : s[i] \in S
    BY <1>1
  <2> QED BY <1>1, <2>1, SubSeqProperties
<1>3. /\ r \in Seq(S) /\ Len(r) = Len(s) - k
      /\ \A i \in 1 .. Len(s) - k : r[i] = s[k + i]
  <2>1. \A i \in k + 1 .. Len(s) : s[i] \in S
    BY <1>1
  <2>2. /\ r \in Seq(S)
        /\ Len(r) = IF k + 1 <= Len(s) THEN Len(s) - (k + 1) + 1 ELSE 0
        /\ \A i \in 1 .. Len(s) - (k + 1) + 1 : r[i] = s[k + 1 + i - 1]
    BY <1>1, <2>1, SubSeqProperties
  <2> QED BY <1>1, <2>2
<1> HIDE DEF l, r
<1>4. /\ t \in Seq(S)
      /\ Len(t) = Len(s) - 1
      /\ \A i \in 1 .. Len(s) - 1 : t[i] = IF i <= k - 1 THEN l[i] ELSE r[i - (k - 1)]
  <2>1. /\ l \o r \in Seq(S)
        /\ Len(l \o r) = Len(l) + Len(r)
        /\ \A i \in 1 .. Len(l) + Len(r) :
             (l \o r)[i] = IF i <= Len(l) THEN l[i] ELSE r[i - Len(l)]
    <3>1. l \in Seq(S) /\ r \in Seq(S)
      BY <1>2, <1>3
    <3> QED BY <3>1, ConcatProperties
  <2>2. Len(l) + Len(r) = Len(s) - 1 /\ Len(l) = k - 1
    BY <1>1, <1>2, <1>3
  <2> QED BY <2>1, <2>2
<1> HIDE DEF t
<1>5. \A i \in 1 .. Len(s) - 1 : t[i] = IF i < k THEN s[i] ELSE s[i + 1]
  <2> SUFFICES ASSUME NEW i \in 1 .. Len(s) - 1
               PROVE  t[i] = IF i < k THEN s[i] ELSE s[i + 1]
    OBVIOUS
  <2>1. CASE i < k
    <3>1. i \in 1 .. k - 1 /\ i <= k - 1
      BY <1>1, <2>1
    <3> QED BY <1>2, <1>4, <2>1, <3>1
  <2>2. CASE ~(i < k)
    <3>1. i - (k - 1) \in 1 .. Len(s) - k /\ ~(i <= k - 1) /\ k + (i - (k - 1)) = i + 1
      BY <1>1, <2>2
    <3> QED BY <1>3, <1>4, <2>2, <3>1
  <2> QED BY <2>1, <2>2
<1> QED BY <1>4, <1>5 DEF t, l, r, RemoveAt

LEMMA RemoveOnce ==
  ASSUME NEW S, NEW s \in Seq(S), NEW k \in DOMAIN s, Once(s)
  PROVE  /\ RemoveAt(s, k) \in Seq(S)
         /\ Once(RemoveAt(s, k))
         /\ ToSet(RemoveAt(s, k)) \subseteq ToSet(s) \ {s[k]}
         /\ ToSet(s) \subseteq ToSet(RemoveAt(s, k)) \cup {s[k]}
<1> DEFINE t == RemoveAt(s, k)
<1>1. DOMAIN s = 1 .. Len(s) /\ Len(s) \in Nat /\ k \in 1 .. Len(s)
  OBVIOUS
<1>2. t \in Seq(S) /\ Len(t) = Len(s) - 1
  BY RemoveAtProperties
<1>3. DOMAIN t = 1 .. Len(s) - 1
  BY <1>2
<1>4. \A i \in 1 .. Len(s) - 1 : t[i] = IF i < k THEN s[i] ELSE s[i + 1]
  BY RemoveAtProperties
<1> HIDE DEF t
<1> DEFINE p(i) == IF i < k THEN i ELSE i + 1
<1>5. \A i \in 1 .. Len(s) - 1 : p(i) \in 1 .. Len(s) /\ p(i) # k /\ t[i] = s[p(i)]
  BY <1>1, <1>4
<1>6. \A i, j \in 1 .. Len(s) - 1 : p(i) = p(j) => i = j
  BY <1>1
<1>7. \A j \in 1 .. Len(s) : j # k => \E i \in 1 .. Len(s) - 1 : p(i) = j
  <2> SUFFICES ASSUME NEW j \in 1 .. Len(s), j # k
               PROVE  \E i \in 1 .. Len(s) - 1 : p(i) = j
    OBVIOUS
  <2>1. CASE j < k
    <3>1. j \in 1 .. Len(s) - 1 /\ p(j) = j
      BY <1>1, <2>1
    <3> QED BY <3>1
  <2>2. CASE j > k
    <3>1. j - 1 \in 1 .. Len(s) - 1 /\ p(j - 1) = j
      BY <1>1, <2>2
    <3> QED BY <3>1
  <2> QED BY <1>1, <2>1, <2>2
<1> HIDE DEF p
<1>8. Once(t)
  BY <1>1, <1>3, <1>5, <1>6 DEF Once
<1>9. ToSet(t) \subseteq ToSet(s) \ {s[k]}
  <2> SUFFICES ASSUME NEW i \in 1 .. Len(s) - 1
               PROVE  t[i] \in ToSet(s) /\ t[i] # s[k]
    BY <1>3 DEF ToSet
  <2> QED BY <1>1, <1>5 DEF ToSet, Once
<1>10. ToSet(s) \subseteq ToSet(t) \cup {s[k]}
  <2> SUFFICES ASSUME NEW j \in 1 .. Len(s), j # k
               PROVE  s[j] \in ToSet(t)
    BY <1>1 DEF ToSet
  <2>1. PICK i \in 1 .. Len(s) - 1 : p(i) = j
    BY <1>7
  <2> QED BY <1>3, <1>5, <2>1 DEF ToSet
<1> QED BY <1>2, <1>8, <1>9, <1>10 DEF t

\* A sequence that has its elements once is as long as they are many.
LEMMA LenOnce ==
  ASSUME NEW S, IsFiniteSet(S), NEW s \in Seq(S), Once(s)
  PROVE  /\ Len(s) = Cardinality(ToSet(s))
         /\ Len(s) <= Cardinality(S)
         /\ IsFiniteSet(ToSet(s))
<1>1. ToSet(s) \subseteq S /\ DOMAIN s = 1 .. Len(s) /\ Len(s) \in Nat
  BY DEF ToSet
<1>2. IsFiniteSet(ToSet(s)) /\ Cardinality(ToSet(s)) <= Cardinality(S)
  BY <1>1, FS_Subset
<1>3. s \in Bijection(1 .. Len(s), ToSet(s))
  <2>1. s \in [1 .. Len(s) -> ToSet(s)]
    BY <1>1, SeqDef DEF ToSet
  <2> QED BY <1>1, <2>1 DEF ToSet, Once, Bijection, Injection, Surjection, IsInjective
<1>4. Cardinality(1 .. Len(s)) = Len(s) /\ IsFiniteSet(1 .. Len(s))
  BY <1>1, FS_Interval
<1>5. Cardinality(ToSet(s)) = Len(s)
  BY <1>3, <1>4, FS_Bijection DEF ExistsBijection
<1> QED BY <1>2, <1>5

-----------------------------------------------------------------------------
(* The inductive invariant, whatever resets and removals run.              *)

\* An id that has not been linked is nowhere.
Fresh ==
  \A e \in Events :
    pc[e] \in {"new", "link"} =>
      /\ e \notin ToSet(deque)
      /\ \A a \in Admins : e \notin before[a]
      /\ \A f \in Events : victim[f] # e

\* A count never exceeds the number of requests.
Counts ==
  \A e \in Events :
    /\ Once(left[e])
    /\ pc[e] = "visit" => n[e] + Len(left[e]) <= Cardinality(Events)

\* What a step is to hand to the next is there only between the two.
Spare ==
  /\ \A e \in Events : pc[e] # "drop" => victim[e] = None
  /\ \A a \in Admins : doing[a] # "drop" => gone[a] = None
  /\ \A a \in Admins : doing[a] = "none" => todo[a] = {}

IInv ==
  /\ TypeOK
  /\ Once(deque)
  /\ Fresh
  /\ Counts
  /\ Spare
  /\ ResetClears

\* What a step does to the deque: it links a fresh id, or takes ids out.
Shrinks ==
  /\ deque' \in Seq(Events)
  /\ Once(deque')
  /\ ToSet(deque') \subseteq ToSet(deque)

LEMMA InitIInv == Init => IInv
<1> SUFFICES ASSUME Init PROVE IInv
  OBVIOUS
<1>1. <<>> \in Seq(Events) /\ Len(<<>>) = 0 /\ Once(<<>>) /\ ToSet(<<>>) = {}
  BY DEF Once, ToSet
<1>2. Cardinality(Events) \in Nat
  BY JournalAssumption, FS_CardinalityType
<1>3. TypeOK
  BY <1>1, <1>2 DEF Init, TypeOK
<1>4. Once(deque) /\ Fresh /\ Spare /\ ResetClears
  BY <1>1, JournalAssumption DEF Init, Fresh, Spare, ResetClears
<1>5. Counts
  BY <1>1 DEF Init, Counts
<1> QED BY <1>3, <1>4, <1>5 DEF IInv

LEMMA PutEventIInv ==
  ASSUME IInv, NEW e \in Events, PutEvent(e)
  PROVE  IInv'
<1> USE JournalAssumption DEF PutEvent, Goto, Does, requestVars, adminVars
<1>1. Shrinks
  BY DEF IInv, TypeOK, Shrinks
<1>2. Cardinality(Events) \in Nat
  BY FS_CardinalityType
<1>3. TypeOK'
  BY <1>1, <1>2 DEF IInv, TypeOK, Shrinks, Counts
<1>4. Fresh'
  BY <1>1, <1>2 DEF IInv, TypeOK, Shrinks, Fresh
<1>5. Counts'
  BY <1>1, <1>2 DEF IInv, TypeOK, Shrinks, Counts
<1>6. Spare' /\ ResetClears'
  BY <1>1, <1>2 DEF IInv, TypeOK, Shrinks, Spare, ResetClears, Fresh
<1> QED BY <1>1, <1>3, <1>4, <1>5, <1>6 DEF IInv, Shrinks

LEMMA LinkEventIInv ==
  ASSUME IInv, NEW e \in Events, LinkEvent(e)
  PROVE  IInv'
<1> USE JournalAssumption DEF LinkEvent, Goto, Does, requestVars, adminVars
<1>1. deque' \in Seq(Events) /\ Once(deque') /\ ToSet(deque') = ToSet(deque) \cup {e}
  BY LinkOnce DEF IInv, TypeOK, Fresh
<1>2. Cardinality(Events) \in Nat
  BY FS_CardinalityType
<1>3. TypeOK'
  BY <1>1, <1>2 DEF IInv, TypeOK, Shrinks, Counts
<1>4. Fresh'
  BY <1>1, <1>2 DEF IInv, TypeOK, Shrinks, Fresh
<1>5. Counts'
  BY <1>1, <1>2 DEF IInv, TypeOK, Shrinks, Counts
<1>6. Spare' /\ ResetClears'
  <2>1. Spare'
    BY DEF IInv, TypeOK, Spare
  <2>2. \A a \in Admins : e \notin before[a]
    BY DEF IInv, Fresh
  <2>3. ResetClears'
    BY <1>1, <2>2 DEF IInv, ResetClears
  <2> QED BY <2>1, <2>3
<1> QED BY <1>1, <1>3, <1>4, <1>5, <1>6 DEF IInv, Shrinks

LEMMA StartCountIInv ==
  ASSUME IInv, NEW e \in Events, StartCount(e)
  PROVE  IInv'
<1> USE JournalAssumption DEF StartCount, Goto, Does, requestVars, adminVars
<1>1. Shrinks
  BY DEF IInv, TypeOK, Shrinks
<1>2. Len(deque) \in Nat /\ Len(deque) <= Cardinality(Events) /\ Cardinality(Events) \in Nat
  BY LenOnce, FS_CardinalityType DEF IInv, TypeOK
<1>3. TypeOK'
  BY <1>1, <1>2 DEF IInv, TypeOK, Shrinks, Counts
<1>4. Fresh'
  BY <1>1, <1>2 DEF IInv, TypeOK, Shrinks, Fresh
<1>5. Counts'
  BY <1>1, <1>2 DEF IInv, TypeOK, Shrinks, Counts
<1>6. Spare' /\ ResetClears'
  BY <1>1, <1>2 DEF IInv, TypeOK, Shrinks, Spare, ResetClears, Fresh
<1> QED BY <1>1, <1>3, <1>4, <1>5, <1>6 DEF IInv, Shrinks

LEMMA VisitNextIInv ==
  ASSUME IInv, NEW e \in Events, VisitNext(e)
  PROVE  IInv'
<1> USE JournalAssumption DEF VisitNext, Goto, Does, requestVars, adminVars
<1>1. Shrinks
  BY DEF IInv, TypeOK, Shrinks
<1>2. /\ Tail(left[e]) \in Seq(Events) /\ Once(Tail(left[e])) /\ Len(Tail(left[e])) = Len(left[e]) - 1
      /\ Len(left[e]) \in Nat /\ Cardinality(Events) \in Nat
  BY TailOnce, FS_CardinalityType DEF IInv, TypeOK, Counts
<1>3. TypeOK'
  <2>1. n[e] + 1 \in 0 .. Cardinality(Events)
    <3>1. n[e] \in Nat /\ n[e] + Len(left[e]) <= Cardinality(Events)
      BY DEF IInv, TypeOK, Counts
    <3>2. Len(left[e]) >= 1
      BY <1>2
    <3> QED BY <1>2, <3>1, <3>2
  <2>2. n' \in [Events -> 0 .. Cardinality(Events)]
    BY <2>1 DEF IInv, TypeOK
  <2> QED BY <1>2, <2>2 DEF IInv, TypeOK
<1>4. Fresh'
  BY <1>1, <1>2 DEF IInv, TypeOK, Shrinks, Fresh
<1>5. Counts'
  BY <1>1, <1>2 DEF IInv, TypeOK, Shrinks, Counts
<1>6. Spare' /\ ResetClears'
  BY <1>1, <1>2 DEF IInv, TypeOK, Shrinks, Spare, ResetClears, Fresh
<1> QED BY <1>1, <1>3, <1>4, <1>5, <1>6 DEF IInv, Shrinks

LEMMA CountedIInv ==
  ASSUME IInv, NEW e \in Events, Counted(e)
  PROVE  IInv'
<1> USE JournalAssumption DEF Counted, Goto, Does, requestVars, adminVars
<1>1. Shrinks
  BY DEF IInv, TypeOK, Shrinks
<1>2. Cardinality(Events) \in Nat
  BY FS_CardinalityType
<1>3. TypeOK'
  BY <1>1, <1>2 DEF IInv, TypeOK, Shrinks, Counts
<1>4. Fresh'
  BY <1>1, <1>2 DEF IInv, TypeOK, Shrinks, Fresh
<1>5. Counts'
  BY <1>1, <1>2 DEF IInv, TypeOK, Shrinks, Counts
<1>6. Spare' /\ ResetClears'
  BY <1>1, <1>2 DEF IInv, TypeOK, Shrinks, Spare, ResetClears, Fresh
<1> QED BY <1>1, <1>3, <1>4, <1>5, <1>6 DEF IInv, Shrinks

LEMMA PollLastIInv ==
  ASSUME IInv, NEW e \in Events, PollLast(e)
  PROVE  IInv'
<1> USE JournalAssumption DEF PollLast, Goto, Does, requestVars, adminVars
<1>1. Shrinks
  <2>1. CASE deque = <<>>
    BY <2>1 DEF IInv, TypeOK, Shrinks
  <2>2. CASE deque # <<>>
    <3>1. deque' = Front(deque)
      BY <2>2
    <3>2. deque \in Seq(Events) /\ Once(deque)
      BY DEF IInv, TypeOK
    <3>3. /\ Front(deque) \in Seq(Events) /\ Once(Front(deque))
          /\ ToSet(Front(deque)) \subseteq ToSet(deque)
      BY <2>2, <3>2, FrontOnce
    <3> QED BY <3>1, <3>3 DEF Shrinks
  <2> QED BY <2>1, <2>2
<1>2. deque # <<>> => Last(deque) \in ToSet(deque) /\ Last(deque) \in Events
  BY FrontOnce DEF IInv, TypeOK
<1>3. TypeOK'
  <2>1. TypeOK
    BY DEF IInv
  <2>2. /\ held' = held /\ left' = left /\ n' = n /\ doing' = doing
        /\ todo' = todo /\ gone' = gone /\ before' = before
    OBVIOUS
  <2>3. deque' \in Seq(Events)
    BY <1>1 DEF Shrinks
  <2>4. pc' \in [Events -> {"new", "link", "count", "visit", "poll", "drop",
                           "sent", "store", "done"}]
    BY <2>1 DEF TypeOK
  <2>5. victim' \in [Events -> Events \cup {None}]
    BY <1>2, <2>1 DEF TypeOK
  <2> HIDE DEF PollLast
  <2> QED BY <2>1, <2>2, <2>3, <2>4, <2>5 DEF TypeOK
<1>4. Fresh'
  <2> SUFFICES ASSUME NEW f \in Events, pc'[f] \in {"new", "link"}
               PROVE  /\ f \notin ToSet(deque')
                      /\ \A a \in Admins : f \notin before'[a]
                      /\ \A g \in Events : victim'[g] # f
    BY DEF Fresh
  <2>1. pc[f] \in {"new", "link"}
    BY DEF IInv, TypeOK
  <2>2. f \notin ToSet(deque) /\ (\A a \in Admins : f \notin before[a])
        /\ \A g \in Events : victim[g] # f
    BY <2>1 DEF IInv, Fresh
  <2>3. \A g \in Events : victim'[g] # f
    BY <1>2, <2>2 DEF IInv, TypeOK
  <2> QED BY <1>1, <2>2, <2>3 DEF Shrinks
<1>5. Counts'
  BY <1>1, <1>2 DEF IInv, TypeOK, Shrinks, Counts
<1>6. Spare' /\ ResetClears'
  <2>1. Spare'
    BY DEF IInv, TypeOK, Spare
  <2>2. ResetClears'
    BY <1>1 DEF IInv, ResetClears, Shrinks
  <2> QED BY <2>1, <2>2
<1> QED BY <1>1, <1>3, <1>4, <1>5, <1>6 DEF IInv, Shrinks

LEMMA DropEventIInv ==
  ASSUME IInv, NEW e \in Events, DropEvent(e)
  PROVE  IInv'
<1> USE JournalAssumption DEF DropEvent, Goto, Does, requestVars, adminVars
<1>1. Shrinks
  BY DEF IInv, TypeOK, Shrinks
<1>2. Cardinality(Events) \in Nat
  BY FS_CardinalityType
<1>3. TypeOK'
  BY <1>1, <1>2 DEF IInv, TypeOK, Shrinks, Counts
<1>4. Fresh'
  BY <1>1, <1>2 DEF IInv, TypeOK, Shrinks, Fresh
<1>5. Counts'
  BY <1>1, <1>2 DEF IInv, TypeOK, Shrinks, Counts
<1>6. Spare' /\ ResetClears'
  BY <1>1, <1>2 DEF IInv, TypeOK, Shrinks, Spare, ResetClears, Fresh
<1> QED BY <1>1, <1>3, <1>4, <1>5, <1>6 DEF IInv, Shrinks

LEMMA CheckLinkedIInv ==
  ASSUME IInv, NEW e \in Events, CheckLinked(e)
  PROVE  IInv'
<1> USE JournalAssumption DEF CheckLinked, Goto, Does, requestVars, adminVars
<1>1. Shrinks
  BY DEF IInv, TypeOK, Shrinks
<1>2. Cardinality(Events) \in Nat
  BY FS_CardinalityType
<1>3. TypeOK'
  BY <1>1, <1>2 DEF IInv, TypeOK, Shrinks, Counts
<1>4. Fresh'
  BY <1>1, <1>2 DEF IInv, TypeOK, Shrinks, Fresh
<1>5. Counts'
  BY <1>1, <1>2 DEF IInv, TypeOK, Shrinks, Counts
<1>6. Spare' /\ ResetClears'
  BY <1>1, <1>2 DEF IInv, TypeOK, Shrinks, Spare, ResetClears, Fresh
<1> QED BY <1>1, <1>3, <1>4, <1>5, <1>6 DEF IInv, Shrinks

LEMMA StoreAgainIInv ==
  ASSUME IInv, NEW e \in Events, StoreAgain(e)
  PROVE  IInv'
<1> USE JournalAssumption DEF StoreAgain, Goto, Does, requestVars, adminVars
<1>1. Shrinks
  BY DEF IInv, TypeOK, Shrinks
<1>2. Cardinality(Events) \in Nat
  BY FS_CardinalityType
<1>3. TypeOK'
  BY <1>1, <1>2 DEF IInv, TypeOK, Shrinks, Counts
<1>4. Fresh'
  BY <1>1, <1>2 DEF IInv, TypeOK, Shrinks, Fresh
<1>5. Counts'
  BY <1>1, <1>2 DEF IInv, TypeOK, Shrinks, Counts
<1>6. Spare' /\ ResetClears'
  BY <1>1, <1>2 DEF IInv, TypeOK, Shrinks, Spare, ResetClears, Fresh
<1> QED BY <1>1, <1>3, <1>4, <1>5, <1>6 DEF IInv, Shrinks

LEMMA ResetIInv ==
  ASSUME IInv, NEW a \in Admins, Reset(a)
  PROVE  IInv'
<1> USE JournalAssumption DEF Reset, Goto, Does, requestVars, adminVars
<1>1. Shrinks
  BY DEF IInv, TypeOK, Shrinks
<1>2. Cardinality(Events) \in Nat
  BY FS_CardinalityType
<1>3. TypeOK'
  <2>1. ToSet(deque) \subseteq Events
    BY DEF IInv, TypeOK, ToSet
  <2> QED BY <2>1 DEF IInv, TypeOK
<1>4. Fresh'
  BY <1>1, <1>2 DEF IInv, TypeOK, Shrinks, Fresh
<1>5. Counts'
  BY <1>1, <1>2 DEF IInv, TypeOK, Shrinks, Counts
<1>6. Spare' /\ ResetClears'
  BY <1>1, <1>2 DEF IInv, TypeOK, Shrinks, Spare, ResetClears, Fresh
<1> QED BY <1>1, <1>3, <1>4, <1>5, <1>6 DEF IInv, Shrinks

LEMMA ClearPollsIInv ==
  ASSUME IInv, NEW a \in Admins, ClearPolls(a)
  PROVE  IInv'
<1> USE JournalAssumption DEF ClearPolls, Goto, Does, requestVars, adminVars
<1>1. Shrinks
  BY TailOnce DEF IInv, TypeOK, Shrinks
<1>2. Cardinality(Events) \in Nat
  BY FS_CardinalityType
<1>3. TypeOK'
  BY <1>1, <1>2 DEF IInv, TypeOK, Shrinks, Counts
<1>4. Fresh'
  BY <1>1, <1>2 DEF IInv, TypeOK, Shrinks, Fresh
<1>5. Counts'
  BY <1>1, <1>2 DEF IInv, TypeOK, Shrinks, Counts
<1>6. Spare' /\ ResetClears'
  BY <1>1, <1>2 DEF IInv, TypeOK, Shrinks, Spare, ResetClears, Fresh
<1> QED BY <1>1, <1>3, <1>4, <1>5, <1>6 DEF IInv, Shrinks

LEMMA DequeClearedIInv ==
  ASSUME IInv, NEW a \in Admins, DequeCleared(a)
  PROVE  IInv'
<1> USE JournalAssumption DEF DequeCleared, Goto, Does, requestVars, adminVars
<1>1. Shrinks /\ ToSet(deque') = {}
  BY DEF IInv, TypeOK, Shrinks, ToSet
<1>2. Cardinality(Events) \in Nat
  BY FS_CardinalityType
<1>3. TypeOK'
  BY <1>1, <1>2 DEF IInv, TypeOK, Shrinks, Counts
<1>4. Fresh'
  BY <1>1, <1>2 DEF IInv, TypeOK, Shrinks, Fresh
<1>5. Counts'
  BY <1>1, <1>2 DEF IInv, TypeOK, Shrinks, Counts
<1>6. Spare' /\ ResetClears'
  BY <1>1, <1>2 DEF IInv, TypeOK, Shrinks, Spare, ResetClears, Fresh
<1> QED BY <1>1, <1>3, <1>4, <1>5, <1>6 DEF IInv, Shrinks

LEMMA ClearBinIInv ==
  ASSUME IInv, NEW a \in Admins, NEW e \in Events, ClearBin(a, e)
  PROVE  IInv'
<1> USE JournalAssumption DEF ClearBin, Goto, Does, requestVars, adminVars
<1>1. Shrinks
  BY DEF IInv, TypeOK, Shrinks
<1>2. Cardinality(Events) \in Nat
  BY FS_CardinalityType
<1>3. TypeOK'
  BY <1>1, <1>2 DEF IInv, TypeOK, Shrinks, Counts
<1>4. Fresh'
  BY <1>1, <1>2 DEF IInv, TypeOK, Shrinks, Fresh
<1>5. Counts'
  BY <1>1, <1>2 DEF IInv, TypeOK, Shrinks, Counts
<1>6. Spare' /\ ResetClears'
  <2>1. todo'[a] = todo[a] \ {e} /\ \A b \in Admins \ {a} : todo'[b] = todo[b]
    BY DEF IInv, TypeOK
  <2>2. Spare'
    BY <2>1 DEF IInv, TypeOK, Spare
  <2>3. ResetClears'
    BY <1>1 DEF IInv, TypeOK, ResetClears, Shrinks
  <2> QED BY <2>2, <2>3
<1> QED BY <1>1, <1>3, <1>4, <1>5, <1>6 DEF IInv, Shrinks

LEMMA AskRemovalIInv ==
  ASSUME IInv, NEW a \in Admins, NEW S \in SUBSET Events, AskRemoval(a, S)
  PROVE  IInv'
<1> USE JournalAssumption DEF AskRemoval, Goto, Does, requestVars, adminVars
<1>1. Shrinks
  BY DEF IInv, TypeOK, Shrinks
<1>2. Cardinality(Events) \in Nat
  BY FS_CardinalityType
<1>3. TypeOK'
  BY <1>1, <1>2 DEF IInv, TypeOK, Shrinks, Counts
<1>4. Fresh'
  BY <1>1, <1>2 DEF IInv, TypeOK, Shrinks, Fresh
<1>5. Counts'
  BY <1>1, <1>2 DEF IInv, TypeOK, Shrinks, Counts
<1>6. Spare' /\ ResetClears'
  BY <1>1, <1>2 DEF IInv, TypeOK, Shrinks, Spare, ResetClears, Fresh
<1> QED BY <1>1, <1>3, <1>4, <1>5, <1>6 DEF IInv, Shrinks

LEMMA RemoveLinkIInv ==
  ASSUME IInv, NEW a \in Admins, NEW e \in Events, RemoveLink(a, e)
  PROVE  IInv'
<1> USE JournalAssumption DEF RemoveLink, Goto, Does, requestVars, adminVars
<1>1. Shrinks
  BY RemoveOnce DEF IInv, TypeOK, Shrinks
<1>2. Cardinality(Events) \in Nat
  BY FS_CardinalityType
<1>3. TypeOK'
  BY <1>1, <1>2 DEF IInv, TypeOK, Shrinks, Counts
<1>4. Fresh'
  BY <1>1, <1>2 DEF IInv, TypeOK, Shrinks, Fresh
<1>5. Counts'
  BY <1>1, <1>2 DEF IInv, TypeOK, Shrinks, Counts
<1>6. Spare' /\ ResetClears'
  BY <1>1, <1>2 DEF IInv, TypeOK, Shrinks, Spare, ResetClears, Fresh
<1> QED BY <1>1, <1>3, <1>4, <1>5, <1>6 DEF IInv, Shrinks

LEMMA RemoveEventIInv ==
  ASSUME IInv, NEW a \in Admins, RemoveEvent(a)
  PROVE  IInv'
<1> USE JournalAssumption DEF RemoveEvent, Goto, Does, requestVars, adminVars
<1>1. Shrinks
  BY DEF IInv, TypeOK, Shrinks
<1>2. Cardinality(Events) \in Nat
  BY FS_CardinalityType
<1>3. TypeOK'
  BY <1>1, <1>2 DEF IInv, TypeOK, Shrinks, Counts
<1>4. Fresh'
  BY <1>1, <1>2 DEF IInv, TypeOK, Shrinks, Fresh
<1>5. Counts'
  BY <1>1, <1>2 DEF IInv, TypeOK, Shrinks, Counts
<1>6. Spare' /\ ResetClears'
  BY <1>1, <1>2 DEF IInv, TypeOK, Shrinks, Spare, ResetClears, Fresh
<1> QED BY <1>1, <1>3, <1>4, <1>5, <1>6 DEF IInv, Shrinks

LEMMA StepIInv ==
  ASSUME IInv, [Next]_vars
  PROVE  IInv'
<1>1. CASE UNCHANGED vars
  BY <1>1 DEF vars, requestVars, adminVars, IInv, TypeOK, Fresh, Counts, Spare, ResetClears
<1>2. CASE \E e \in Events : PutEvent(e) \/ RequestReceived(e) \/ ServeCompleted(e)
  BY <1>2, PutEventIInv, LinkEventIInv, StartCountIInv, VisitNextIInv, CountedIInv,
     PollLastIInv, DropEventIInv, CheckLinkedIInv, StoreAgainIInv
     DEF RequestReceived, RemoveOldEntries, ServeCompleted
<1>3. CASE \E a \in Admins : AdminCall(a)
  BY <1>3, ResetIInv, ClearPollsIInv, DequeClearedIInv, ClearBinIInv, AskRemovalIInv,
     RemoveLinkIInv, RemoveEventIInv DEF AdminCall
<1> QED BY <1>1, <1>2, <1>3 DEF Next

LEMMA Invariance == Spec => []IInv
<1>1. IInv /\ [Next]_vars => IInv'
  BY StepIInv
<1> QED BY <1>1, InitIInv, PTL DEF Spec

\* Type correctness, for any number of requests and of threads: a count of the
\* journal, however it overlaps with others, never exceeds the requests there are.
THEOREM TypeCorrect == Spec => []TypeOK
<1>1. IInv => TypeOK
  BY DEF IInv
<1> QED BY <1>1, Invariance, PTL

\* InMemoryRequestJournalStore.clear leaves none of the events that were listed
\* when it began, whatever is linked, evicted, removed or reset meanwhile.
THEOREM ResetAlwaysClears == Spec => []ResetClears
<1>1. IInv => ResetClears
  BY DEF IInv
<1> QED BY <1>1, Invariance, PTL

-----------------------------------------------------------------------------
(* How an event stays in the map without being listed.                     *)

LEMMA RequestLeavesNoOrphan ==
  ASSUME IInv, NEW f \in Events, NEW e \in Events,
         PutEvent(f) \/ RequestReceived(f) \/ ServeCompleted(f),
         ~Orphan(e), Orphan(e)'
  PROVE  StoreAgain(e)
<1> USE DEF Goto, requestVars, adminVars, Orphan
<1>1. CASE PutEvent(f)
  BY <1>1, JournalAssumption DEF PutEvent, IInv, TypeOK, Spare
<1>2. CASE LinkEvent(f)
  <2>1. ToSet(deque') = ToSet(deque) \cup {f}
    BY <1>2, LinkOnce DEF LinkEvent, IInv, TypeOK, Fresh
  <2> QED BY <1>2, <2>1 DEF LinkEvent, IInv, TypeOK
<1>3. CASE StartCount(f)
  BY <1>3, JournalAssumption DEF StartCount, IInv, TypeOK, Spare
<1>4. CASE VisitNext(f)
  BY <1>4, JournalAssumption DEF VisitNext, IInv, TypeOK, Spare
<1>5. CASE Counted(f)
  BY <1>5, JournalAssumption DEF Counted, IInv, TypeOK, Spare
<1>6. CASE PollLast(f)
  <2>1. deque # <<>> => ToSet(deque) = ToSet(Front(deque)) \cup {Last(deque)}
    BY FrontOnce DEF IInv, TypeOK
  <2>2. victim[f] = None
    BY <1>6 DEF PollLast, IInv, Spare
  <2>3. CASE deque = <<>>
    BY <1>6, <2>3 DEF PollLast, IInv, TypeOK
  <2>4. CASE deque # <<>>
    <3>1. victim' = [victim EXCEPT ![f] = Last(deque)] /\ ToSet(deque) \subseteq ToSet(deque') \cup {Last(deque)}
      BY <1>6, <2>1, <2>4 DEF PollLast
    <3>2. victim'[f] = Last(deque) /\ \A g \in Events \ {f} : victim'[g] = victim[g]
      BY <3>1 DEF IInv, TypeOK
    <3> QED BY <1>6, <2>2, <3>1, <3>2, JournalAssumption DEF PollLast, IInv, TypeOK
  <2> QED BY <2>3, <2>4
<1>7. CASE DropEvent(f)
  BY <1>7, JournalAssumption DEF DropEvent, IInv, TypeOK, Spare
<1>8. CASE CheckLinked(f)
  BY <1>8, JournalAssumption DEF CheckLinked, IInv, TypeOK, Spare
<1>9. CASE StoreAgain(f)
  BY <1>9 DEF StoreAgain, IInv, TypeOK
<1> QED BY <1>1, <1>2, <1>3, <1>4, <1>5, <1>6, <1>7, <1>8, <1>9 DEF RequestReceived, RemoveOldEntries, ServeCompleted

LEMMA AdminLeavesNoOrphan ==
  ASSUME IInv, NEW b \in Admins, NEW e \in Events, AdminCall(b), ~Orphan(e)
  PROVE  ~Orphan(e)'
<1> SUFFICES ASSUME Orphan(e)' PROVE FALSE
  OBVIOUS
<1> USE DEF Does, requestVars, adminVars, Orphan
<1>1. CASE Reset(b)
  BY <1>1 DEF Reset, IInv, TypeOK
<1>2. CASE ClearPolls(b)
  BY <1>2 DEF ClearPolls
<1>3. CASE DequeCleared(b)
  BY <1>3 DEF DequeCleared, IInv, TypeOK
<1>4. CASE \E f \in Events : ClearBin(b, f)
  <2> PICK f \in Events : ClearBin(b, f)
    BY <1>4
  <2>1. e # f
    BY DEF ClearBin
  <2>2. \A a \in Admins : e \notin todo[a] /\ doing[a] # "poll"
    BY <2>1 DEF ClearBin, IInv, TypeOK
  <2> QED BY <2>1, <2>2 DEF ClearBin, IInv, TypeOK
<1>5. CASE \E S \in SUBSET Events : AskRemoval(b, S)
  BY <1>5 DEF AskRemoval, IInv, TypeOK, Spare
<1>6. CASE \E f \in Events : RemoveLink(b, f)
  <2> PICK f \in Events : RemoveLink(b, f)
    BY <1>6
  <2>1. ToSet(deque) \subseteq ToSet(deque') \cup {f}
    BY RemoveOnce DEF RemoveLink, IInv, TypeOK
  <2>2. gone[b] = None /\ gone'[b] = f
    BY DEF RemoveLink, IInv, TypeOK, Spare
  <2> QED BY <2>1, <2>2, JournalAssumption DEF RemoveLink, IInv, TypeOK
<1>7. CASE RemoveEvent(b)
  BY <1>7 DEF RemoveEvent, IInv, TypeOK
<1> QED BY <1>1, <1>2, <1>3, <1>4, <1>5, <1>6, <1>7 DEF AdminCall

\* An event outgrows the list in one way: the put that completes a request comes
\* after its id has gone, evicted, removed or reset.
THEOREM OrphansAreAlwaysStoredLate == Spec => OrphansAreStoredLate
<1>1. IInv /\ [Next]_vars =>
        [\A e \in Events : (~Orphan(e) /\ Orphan(e)') => StoreAgain(e)]_vars
  <2> SUFFICES ASSUME IInv, Next, NEW e \in Events, ~Orphan(e), Orphan(e)'
               PROVE  StoreAgain(e)
    BY DEF vars
  <2>1. CASE \E f \in Events : PutEvent(f) \/ RequestReceived(f) \/ ServeCompleted(f)
    BY <2>1, RequestLeavesNoOrphan
  <2>2. CASE \E b \in Admins : AdminCall(b)
    BY <2>2, AdminLeavesNoOrphan
  <2> QED BY <2>1, <2>2 DEF Next
<1> QED BY <1>1, Invariance, PTL DEF Spec, OrphansAreStoredLate

-----------------------------------------------------------------------------
(* A journal that nobody resets or removes from: the limit holds, evictions *)
(* that overlap undershoot it by fewer events than there are server         *)
(* threads, and the journal implements BoundedLog.                          *)

\* Where the ids are: what is in the deque is in the map, what an eviction has
\* polled is not in the deque, and no count has to visit what is not linked.
Placed ==
  /\ AllListed
  /\ \A e \in Events : pc[e] = "link" => e \in held
  /\ \A e \in Events : victim[e] \notin ToSet(deque)
  /\ \A e, f \in Events : pc[e] \in {"new", "link"} => e \notin ToSet(left[f])

\* What a count may still come to: what it has counted and what it has yet to
\* visit that is still there.
Ahead(e) == ToSet(left[e]) \cap ToSet(deque)
Potential(e) == n[e] + Cardinality(Ahead(e))

\* A journal over its limit is noticed: some request is about to count it, or
\* its count will come to all there is.
Noticed ==
  Len(deque) > MaxEntries =>
    \E e \in Events :
      \/ pc[e] \in {"count", "poll", "drop"}
      \/ pc[e] = "visit" /\ Potential(e) >= Len(deque)

\* The requests that have counted too many, or may.
Decided ==
  {e \in Events : pc[e] = "poll" \/ (pc[e] = "visit" /\ Potential(e) > MaxEntries)}

\* What they poll is a surplus until one of them has; from then on each polls
\* one at most.
Spared ==
  \/ Len(deque) = Cardinality(Linked) /\ (Decided = {} \/ Len(deque) > MaxEntries)
  \/ Len(deque) + Workers > MaxEntries + Cardinality(Decided)

Handed == Cardinality(InHand) <= Workers

Alone == Placed /\ Noticed /\ Spared /\ Handed

-----------------------------------------------------------------------------
(* Sizes.                                                                  *)

LEMMA Sizes ==
  ASSUME IInv
  PROVE  /\ IsFiniteSet(ToSet(deque)) /\ Len(deque) = Cardinality(ToSet(deque))
         /\ Len(deque) \in Nat
         /\ \A e \in Events :
              /\ IsFiniteSet(Ahead(e)) /\ Cardinality(Ahead(e)) \in Nat
              /\ n[e] \in Nat /\ Potential(e) \in Nat
         /\ \A T \in SUBSET Events : IsFiniteSet(T) /\ Cardinality(T) \in Nat
<1>1. IsFiniteSet(ToSet(deque)) /\ Len(deque) = Cardinality(ToSet(deque)) /\ Len(deque) \in Nat
  BY LenOnce, JournalAssumption DEF IInv, TypeOK
<1>2. ASSUME NEW e \in Events
      PROVE  /\ IsFiniteSet(Ahead(e)) /\ Cardinality(Ahead(e)) \in Nat
             /\ n[e] \in Nat /\ Potential(e) \in Nat
  <2>1. Ahead(e) \subseteq ToSet(deque)
    BY DEF Ahead
  <2>2. IsFiniteSet(Ahead(e)) /\ Cardinality(Ahead(e)) \in Nat
    BY <1>1, <2>1, FS_Subset, FS_CardinalityType
  <2>3. n[e] \in Nat
    BY FS_CardinalityType, JournalAssumption DEF IInv, TypeOK
  <2> QED BY <2>2, <2>3 DEF Potential
<1>3. \A T \in SUBSET Events : IsFiniteSet(T) /\ Cardinality(T) \in Nat
  BY FS_Subset, FS_CardinalityType, JournalAssumption
<1> QED BY <1>1, <1>2, <1>3

LEMMA Fewer ==
  ASSUME NEW T \in SUBSET Events, NEW U \in SUBSET T
  PROVE  Cardinality(U) <= Cardinality(T)
<1>1. IsFiniteSet(T)
  BY FS_Subset, JournalAssumption
<1> QED BY <1>1, FS_Subset

\* The requests that may poll are in hand.
LEMMA DecidedAreInHand ==
  ASSUME IInv, Handed
  PROVE  Cardinality(Decided) <= Workers
<1>1. Decided \subseteq InHand /\ InHand \subseteq Events
  BY DEF Decided, InHand
<1>2. Cardinality(Decided) <= Cardinality(InHand)
  BY <1>1, Fewer
<1>3. Cardinality(Decided) \in Nat /\ Cardinality(InHand) \in Nat
  BY <1>1, Sizes
<1> QED BY <1>2, <1>3, JournalAssumption DEF Handed

LEMMA InitAlone ==
  ASSUME Init
  PROVE  Alone
<1>1. IInv
  BY InitIInv
<1>2. Len(deque) = 0 /\ ToSet(deque) = {}
  BY DEF Init, ToSet
<1>3. Placed
  BY <1>2, JournalAssumption DEF Init, Placed, AllListed, ToSet
<1>4. Noticed
  BY <1>2, JournalAssumption DEF Noticed
<1>5. Linked = {} /\ Decided = {} /\ InHand = {}
  BY DEF Init, Linked, Decided, InHand
<1>6. Spared /\ Handed
  BY <1>2, <1>5, FS_EmptySet, JournalAssumption DEF Spared, Handed
<1> QED BY <1>3, <1>4, <1>6 DEF Alone

-----------------------------------------------------------------------------
(* Steps of requests, one by one.                                          *)

LEMMA PutEventAlone ==
  ASSUME IInv, Alone, NEW e \in Events, PutEvent(e)
  PROVE  Alone'
<1> USE DEF PutEvent, Goto
<1>1. /\ pc[e] = "new" /\ pc' = [pc EXCEPT ![e] = "link"] /\ pc = [f \in Events |-> pc[f]]
      /\ UNCHANGED <<deque, left, n, victim>> /\ held' = held \cup {e}
  BY DEF IInv, TypeOK
<1>2. Placed'
  BY <1>1 DEF Alone, Placed, AllListed
<1>3. \A f \in Events : Potential(f)' = Potential(f)
  BY <1>1 DEF Potential, Ahead
<1>4. Noticed'
  BY <1>1, <1>3 DEF Alone, Noticed
<1>5. Decided' = Decided /\ Linked' = Linked
  BY <1>1, <1>3 DEF Decided, Linked
<1>6. Spared'
  BY <1>1, <1>5 DEF Alone, Spared
<1>7. Handed'
  <2>1. InHand' = InHand \cup {e}
    BY <1>1 DEF InHand
  <2>2. IsFiniteSet(InHand) /\ Cardinality(InHand) \in Nat
    BY Sizes DEF InHand
  <2>3. Cardinality(InHand') <= Cardinality(InHand) + 1
    BY <2>1, <2>2, FS_AddElement
  <2>4. Cardinality(InHand') \in Nat
    BY <2>1, <2>2, FS_AddElement, FS_CardinalityType
  <2> QED BY <2>2, <2>3, <2>4, JournalAssumption DEF Handed
<1> QED BY <1>2, <1>4, <1>6, <1>7 DEF Alone

LEMMA LinkEventAlone ==
  ASSUME IInv, Alone, NEW e \in Events, LinkEvent(e)
  PROVE  Alone'
<1> USE DEF LinkEvent, Goto
<1>1. /\ pc[e] = "link" /\ pc' = [pc EXCEPT ![e] = "count"] /\ pc = [f \in Events |-> pc[f]]
      /\ UNCHANGED <<held, left, n, victim>> /\ deque \in Seq(Events) /\ Once(deque)
      /\ e \notin ToSet(deque)
  BY DEF IInv, TypeOK, Fresh
<1>2. ToSet(deque') = ToSet(deque) \cup {e} /\ Len(deque') = Len(deque) + 1
  BY <1>1, LinkOnce
<1>3. Placed'
  <2>1. \A f \in Events : victim[f] # e
    BY <1>1 DEF IInv, Fresh
  <2> QED BY <1>1, <1>2, <2>1 DEF Alone, Placed, AllListed
<1>4. \A f \in Events : Potential(f)' = Potential(f)
  <2>1. \A f \in Events : e \notin ToSet(left[f])
    BY <1>1 DEF Alone, Placed
  <2>2. \A f \in Events : Ahead(f)' = Ahead(f)
    BY <1>1, <1>2, <2>1 DEF Ahead
  <2> QED BY <1>1, <2>2 DEF Potential
<1>5. Noticed'
  BY <1>1 DEF Noticed
<1>6. Decided' = Decided /\ Linked' = Linked \cup {e} /\ e \notin Linked /\ InHand' = InHand
  BY <1>1, <1>4 DEF Decided, Linked, InHand
<1>7. Cardinality(Linked') = Cardinality(Linked) + 1
  BY <1>6, Sizes, FS_AddElement DEF Linked
<1>8. Spared'
  <2>1. Len(deque) \in Nat /\ Cardinality(Linked) \in Nat /\ Cardinality(Decided) \in Nat
    BY Sizes DEF Linked, Decided
  <2> QED BY <1>2, <1>6, <1>7, <2>1, JournalAssumption DEF Alone, Spared
<1>9. Handed'
  BY <1>6 DEF Alone, Handed
<1> QED BY <1>3, <1>5, <1>8, <1>9 DEF Alone

LEMMA StartCountAlone ==
  ASSUME IInv, Alone, NEW e \in Events, StartCount(e)
  PROVE  Alone'
<1> USE DEF StartCount, Goto
<1>1. /\ pc[e] = "count" /\ pc' = [pc EXCEPT ![e] = "visit"] /\ pc = [f \in Events |-> pc[f]]
      /\ UNCHANGED <<held, deque, victim>>
      /\ left' = [left EXCEPT ![e] = deque] /\ left \in [Events -> Seq(Events)]
      /\ n' = [n EXCEPT ![e] = 0] /\ n \in [Events -> 0 .. Cardinality(Events)]
  BY DEF IInv, TypeOK
<1>2. Placed'
  <2>1. \A f \in Events : pc[f] \in {"new", "link"} => f \notin ToSet(deque)
    BY DEF IInv, Fresh
  <2> QED BY <1>1, <2>1 DEF Alone, Placed, AllListed
<1>3. \A f \in Events \ {e} : Potential(f)' = Potential(f)
  BY <1>1 DEF Potential, Ahead
<1>4. Potential(e)' = Len(deque)
  <2>1. Ahead(e)' = ToSet(deque)
    BY <1>1 DEF Ahead
  <2> QED BY <1>1, <2>1, Sizes DEF Potential
<1>5. Noticed'
  BY <1>1, <1>4, Sizes DEF Noticed
<1>6. /\ Linked' = Linked /\ InHand' = InHand
      /\ Decided' = IF Len(deque) > MaxEntries THEN Decided \cup {e} ELSE Decided
  <2>1. Decided' \ {e} = Decided \ {e}
    BY <1>1, <1>3 DEF Decided
  <2>2. e \notin Decided
    BY <1>1 DEF Decided
  <2>3. e \in Decided' <=> Len(deque) > MaxEntries
    BY <1>1, <1>4 DEF Decided
  <2>4. Linked' = Linked /\ InHand' = InHand
    BY <1>1 DEF Linked, InHand
  <2> QED BY <2>1, <2>2, <2>3, <2>4
<1>7. Handed'
  BY <1>6 DEF Alone, Handed
<1>8. Spared'
  <2>1. CASE Len(deque) > MaxEntries
    <3>1. IInv'
      BY StartCountIInv
    <3>2. Cardinality(Decided') <= Workers
      <4>1. Decided' \subseteq InHand' /\ InHand' \subseteq Events
        BY DEF Decided, InHand
      <4>2. Cardinality(Decided') <= Cardinality(InHand')
        BY <4>1, Fewer
      <4>3. Cardinality(Decided') \in Nat /\ Cardinality(InHand') \in Nat
        BY <4>1, Sizes
      <4> QED BY <1>7, <4>2, <4>3, JournalAssumption DEF Handed
    <3>3. Len(deque) \in Nat /\ Cardinality(Decided') \in Nat
      BY Sizes DEF Decided
    <3> QED BY <1>1, <2>1, <3>2, <3>3, JournalAssumption DEF Spared
  <2>2. CASE ~(Len(deque) > MaxEntries)
    BY <1>1, <1>6, <2>2 DEF Alone, Spared
  <2> QED BY <2>1, <2>2
<1> QED BY <1>2, <1>5, <1>7, <1>8 DEF Alone

LEMMA VisitNextAlone ==
  ASSUME IInv, Alone, NEW e \in Events, VisitNext(e)
  PROVE  Alone'
<1> USE DEF VisitNext
<1>1. /\ pc[e] = "visit" /\ UNCHANGED <<deque, held, pc, victim>>
      /\ left' = [left EXCEPT ![e] = Tail(left[e])] /\ left \in [Events -> Seq(Events)]
      /\ left[e] # <<>> /\ n \in [Events -> 0 .. Cardinality(Events)]
  BY DEF IInv, TypeOK
<1>2. /\ Head(left[e]) \notin ToSet(Tail(left[e]))
      /\ ToSet(left[e]) = ToSet(Tail(left[e])) \cup {Head(left[e])}
  BY <1>1, TailOnce DEF IInv, Counts
<1>3. Placed'
  BY <1>1, <1>2 DEF Alone, Placed, AllListed
<1>4. \A f \in Events \ {e} : Potential(f)' = Potential(f)
  BY <1>1 DEF Potential, Ahead
<1>5. Potential(e)' = Potential(e)
  <2> DEFINE h == Head(left[e])
  <2>1. h \in Listed <=> h \in ToSet(deque)
    BY DEF Listed, Contains, ToSet, Alone, Placed, AllListed, IInv, TypeOK
  <2>2. Ahead(e)' = Ahead(e) \ {h} /\ (h \in Ahead(e) <=> h \in ToSet(deque))
    BY <1>1, <1>2 DEF Ahead
  <2>3. IsFiniteSet(Ahead(e)) /\ Cardinality(Ahead(e)) \in Nat /\ n[e] \in Nat
    BY Sizes
  <2>4. CASE h \in ToSet(deque)
    <3>1. Cardinality(Ahead(e)') = Cardinality(Ahead(e)) - 1
      BY <2>2, <2>3, <2>4, FS_RemoveElement
    <3>2. n'[e] = n[e] + 1
      BY <1>1, <2>1, <2>4
    <3> QED BY <2>3, <3>1, <3>2 DEF Potential
  <2>5. CASE h \notin ToSet(deque)
    <3>1. Ahead(e)' = Ahead(e)
      BY <2>2, <2>5
    <3>2. n'[e] = n[e]
      BY <2>1, <2>5
    <3> QED BY <3>1, <3>2 DEF Potential
  <2> QED BY <2>4, <2>5
<1>6. \A f \in Events : Potential(f)' = Potential(f)
  BY <1>4, <1>5
<1>7. Noticed'
  BY <1>1, <1>6 DEF Alone, Noticed
<1>8. Decided' = Decided /\ Linked' = Linked /\ InHand' = InHand
  BY <1>1, <1>6 DEF Decided, Linked, InHand
<1>9. Spared' /\ Handed'
  BY <1>1, <1>8 DEF Alone, Spared, Handed
<1> QED BY <1>3, <1>7, <1>9 DEF Alone

LEMMA CountedAlone ==
  ASSUME IInv, Alone, NEW e \in Events, Counted(e)
  PROVE  Alone'
<1> USE DEF Counted, Goto
<1>1. /\ pc[e] = "visit" /\ left[e] = <<>>
      /\ pc' = [pc EXCEPT ![e] = IF n[e] > MaxEntries THEN "poll" ELSE "sent"]
      /\ pc = [f \in Events |-> pc[f]] /\ UNCHANGED <<deque, held, left, n, victim>>
  BY DEF IInv, TypeOK, TooMany
<1>2. Placed'
  BY <1>1 DEF Alone, Placed, AllListed
<1>3. \A f \in Events : Potential(f)' = Potential(f)
  BY <1>1 DEF Potential, Ahead
<1>4. Potential(e) = n[e] /\ n[e] \in Nat
  <2>1. Ahead(e) = {}
    BY <1>1 DEF Ahead, ToSet
  <2> QED BY <2>1, FS_EmptySet, Sizes DEF Potential
<1>5. Noticed'
  <2> SUFFICES ASSUME Len(deque) > MaxEntries
               PROVE  \E f \in Events :
                        \/ pc'[f] \in {"count", "poll", "drop"}
                        \/ pc'[f] = "visit" /\ Potential(f)' >= Len(deque)
    BY <1>1 DEF Noticed
  <2>1. PICK f \in Events : \/ pc[f] \in {"count", "poll", "drop"}
                            \/ pc[f] = "visit" /\ Potential(f) >= Len(deque)
    BY DEF Alone, Noticed
  <2>2. CASE f = e
    <3>1. n[e] > MaxEntries
      BY <1>1, <1>4, <2>1, <2>2, Sizes, JournalAssumption
    <3> QED BY <1>1, <3>1
  <2>3. CASE f # e
    BY <1>1, <1>3, <2>1, <2>3
  <2> QED BY <2>2, <2>3
<1>6. /\ Decided' = Decided
      /\ Linked' = Linked
      /\ InHand' = InHand
  <2>1. \A f \in Events : f \in Decided' <=> f \in Decided
    BY <1>1, <1>3, <1>4 DEF Decided
  <2>2. Decided' = Decided
    BY <2>1 DEF Decided
  <2> QED BY <1>1, <2>2 DEF Linked, InHand
<1>7. Spared' /\ Handed'
  BY <1>1, <1>6 DEF Alone, Spared, Handed
<1> QED BY <1>2, <1>5, <1>7 DEF Alone
LEMMA PollLastAlone ==
  ASSUME IInv, Alone, NEW e \in Events, PollLast(e)
  PROVE  Alone'
<1> USE DEF PollLast, Goto
<1>1. /\ pc[e] = "poll" /\ pc = [f \in Events |-> pc[f]]
      /\ UNCHANGED <<held, left, n>>
      /\ deque \in Seq(Events) /\ Once(deque) /\ victim \in [Events -> Events \cup {None}]
      /\ Len(deque) \in Nat
  BY DEF IInv, TypeOK
<1>2. IInv'
  BY PollLastIInv
<1>3. CASE deque = <<>>
  <2>1. pc' = [pc EXCEPT ![e] = "count"] /\ UNCHANGED <<deque, victim>>
    BY <1>3
  <2>2. Placed'
    BY <1>1, <2>1 DEF Alone, Placed, AllListed
  <2>3. \A f \in Events : Potential(f)' = Potential(f)
    BY <1>1, <2>1 DEF Potential, Ahead
  <2>4. Noticed'
    BY <1>1, <2>1 DEF Noticed
  <2>5. Decided' \subseteq Decided /\ Linked' = Linked /\ InHand' = InHand
    BY <1>1, <2>1, <2>3 DEF Decided, Linked, InHand
  <2>6. Cardinality(Decided') <= Cardinality(Decided)
    BY <2>5, Fewer DEF Decided
  <2>7. Cardinality(Decided') \in Nat /\ Cardinality(Decided) \in Nat
    BY Sizes, <1>2 DEF Decided
  <2>8. Spared' /\ Handed'
    <3>1. Decided = {} => Decided' = {}
      BY <2>5
    <3> QED BY <1>1, <2>1, <2>5, <2>6, <2>7, <3>1, JournalAssumption DEF Alone, Spared, Handed
  <2> QED BY <2>2, <2>4, <2>8 DEF Alone
<1>4. CASE deque # <<>>
  <2> DEFINE v == Last(deque)
  <2>1. /\ pc' = [pc EXCEPT ![e] = "drop"] /\ deque' = Front(deque)
        /\ victim' = [victim EXCEPT ![e] = v]
    BY <1>4
  <2>2. /\ Len(deque') = Len(deque) - 1 /\ v \in Events
        /\ v \notin ToSet(deque') /\ ToSet(deque) = ToSet(deque') \cup {v}
    BY <1>1, <1>4, <2>1, FrontOnce
  <2> HIDE DEF v
  <2>3. Placed'
    BY <1>1, <2>1, <2>2 DEF Alone, Placed, AllListed
  <2>4. \A f \in Events : Potential(f)' <= Potential(f) /\ Potential(f)' \in Nat
    <3> SUFFICES ASSUME NEW f \in Events
                 PROVE  Potential(f)' <= Potential(f) /\ Potential(f)' \in Nat
      OBVIOUS
    <3>1. Ahead(f)' \subseteq Ahead(f)
      BY <1>1, <2>2 DEF Ahead
    <3>2. IsFiniteSet(Ahead(f)) /\ Cardinality(Ahead(f)) \in Nat /\ n[f] \in Nat
      BY Sizes
    <3>3. Cardinality(Ahead(f)') <= Cardinality(Ahead(f)) /\ Cardinality(Ahead(f)') \in Nat
      BY <3>1, <3>2, FS_Subset, FS_CardinalityType
    <3> QED BY <1>1, <3>2, <3>3 DEF Potential
  <2>5. Noticed'
    BY <1>1, <2>1 DEF Noticed
  <2>6. Decided' \subseteq Decided \ {e} /\ e \in Decided
    <3>1. \A f \in Events : Potential(f) \in Nat
      BY Sizes
    <3> QED BY <1>1, <2>1, <2>4, <3>1, JournalAssumption DEF Decided
  <2>7. /\ Linked' = Linked /\ InHand' = InHand
    BY <1>1, <2>1 DEF Linked, InHand
  <2>8. /\ Cardinality(Decided') <= Cardinality(Decided) - 1
        /\ Cardinality(Decided') \in Nat /\ Cardinality(Decided) \in Nat
    <3>1. IsFiniteSet(Decided) /\ Cardinality(Decided) \in Nat
      BY Sizes DEF Decided
    <3>2. IsFiniteSet(Decided \ {e}) /\ Cardinality(Decided \ {e}) = Cardinality(Decided) - 1
      BY <2>6, <3>1, FS_RemoveElement
    <3>3. Cardinality(Decided') <= Cardinality(Decided \ {e}) /\ Cardinality(Decided') \in Nat
      BY <2>6, <3>2, FS_Subset, FS_CardinalityType
    <3> QED BY <3>1, <3>2, <3>3
  <2>9. Spared'
    <3>1. CASE Len(deque) + Workers > MaxEntries + Cardinality(Decided)
      BY <1>1, <2>2, <2>8, <3>1, JournalAssumption DEF Spared
    <3>2. CASE Decided = {} \/ Len(deque) > MaxEntries
      <4>1. Cardinality(Decided) <= Workers
        BY DecidedAreInHand DEF Alone
      <4>2. Len(deque) > MaxEntries
        BY <2>6, <3>2
      <4> QED BY <1>1, <2>2, <2>8, <4>1, <4>2, JournalAssumption DEF Spared
    <3> QED BY <3>1, <3>2 DEF Alone, Spared
  <2>10. Handed'
    BY <2>7 DEF Alone, Handed
  <2> QED BY <2>3, <2>5, <2>9, <2>10 DEF Alone
<1> QED BY <1>3, <1>4

LEMMA DropEventAlone ==
  ASSUME IInv, Alone, NEW e \in Events, DropEvent(e)
  PROVE  Alone'
<1> USE DEF DropEvent, Goto
<1>1. /\ pc[e] = "drop" /\ pc' = [pc EXCEPT ![e] = "count"] /\ pc = [f \in Events |-> pc[f]]
      /\ UNCHANGED <<deque, left, n>> /\ held' = held \ {victim[e]}
      /\ victim' = [victim EXCEPT ![e] = None] /\ deque \in Seq(Events)
      /\ victim \in [Events -> Events \cup {None}]
  BY DEF IInv, TypeOK
<1>2. Placed'
  <2>1. None \notin ToSet(deque)
    BY <1>1, JournalAssumption DEF ToSet
  <2>2. \A f \in Events : pc[f] = "link" => victim[e] # f
    BY DEF IInv, Fresh
  <2> QED BY <1>1, <2>1, <2>2 DEF Alone, Placed, AllListed
<1>3. \A f \in Events : Potential(f)' = Potential(f)
  BY <1>1 DEF Potential, Ahead
<1>4. Noticed'
  BY <1>1 DEF Noticed
<1>5. Decided' = Decided /\ Linked' = Linked /\ InHand' = InHand
  BY <1>1, <1>3 DEF Decided, Linked, InHand
<1>6. Spared' /\ Handed'
  BY <1>1, <1>5 DEF Alone, Spared, Handed
<1> QED BY <1>2, <1>4, <1>6 DEF Alone

\* serveCompleted touches neither the deque nor a count.
LEMMA ServeCompletedAlone ==
  ASSUME IInv, Alone, NEW e \in Events, ServeCompleted(e)
  PROVE  Alone'
<1> USE DEF ServeCompleted, CheckLinked, StoreAgain, Goto
<1>1. /\ pc[e] \in {"sent", "store"} /\ pc'[e] \in {"store", "done"}
      /\ pc = [f \in Events |-> pc[f]] /\ \A f \in Events \ {e} : pc'[f] = pc[f]
      /\ UNCHANGED <<deque, left, n, victim>> /\ held \subseteq held'
  BY DEF IInv, TypeOK
<1>2. Placed'
  BY <1>1 DEF Alone, Placed, AllListed
<1>3. \A f \in Events : Potential(f)' = Potential(f)
  BY <1>1 DEF Potential, Ahead
<1>4. Noticed'
  BY <1>1, <1>3 DEF Alone, Noticed
<1>5. Decided' = Decided /\ Linked' = Linked /\ InHand' \subseteq InHand
  BY <1>1, <1>3 DEF Decided, Linked, InHand
<1>6. Handed'
  <2>1. Cardinality(InHand') <= Cardinality(InHand)
    BY <1>5, Fewer DEF InHand
  <2>2. Cardinality(InHand) \in Nat /\ Cardinality(InHand') \in Nat
    BY <1>5, Sizes DEF InHand
  <2> QED BY <2>1, <2>2, JournalAssumption DEF Alone, Handed
<1>7. Spared'
  BY <1>1, <1>5 DEF Alone, Spared
<1> QED BY <1>2, <1>4, <1>6, <1>7 DEF Alone

LEMMA StepAlone ==
  ASSUME Admins = {}, IInv, Alone, [Next]_vars
  PROVE  Alone'
<1>1. CASE UNCHANGED vars
  BY <1>1 DEF vars, requestVars, Alone, Placed, AllListed, Noticed, Spared, Handed,
             Decided, Linked, InHand, Potential, Ahead
<1>2. CASE \E e \in Events : PutEvent(e) \/ RequestReceived(e) \/ ServeCompleted(e)
  BY <1>2, PutEventAlone, LinkEventAlone, StartCountAlone, VisitNextAlone, CountedAlone,
     PollLastAlone, DropEventAlone, ServeCompletedAlone
     DEF RequestReceived, RemoveOldEntries
<1> QED BY <1>1, <1>2 DEF Next

LEMMA AloneInvariance ==
  ASSUME Admins = {}
  PROVE  Spec => []Alone
<1>1. IInv /\ Alone /\ [Next]_vars => Alone'
  BY StepAlone
<1> QED BY <1>1, InitAlone, Invariance, PTL DEF Spec

-----------------------------------------------------------------------------
(* The limit.                                                              *)

\* AbstractRequestJournal.removeOldEntries keeps its promise: with none of them
\* under way the journal lists no more than maxEntries events.
THEOREM ListIsAlwaysBounded == Spec => []ListIsBounded
<1>1. ASSUME Admins = {}
      PROVE  IInv /\ Alone => ListIsBounded
  <2> SUFFICES ASSUME IInv, Alone, Evicting = {}
               PROVE  Cardinality(Listed) <= MaxEntries
    BY DEF ListIsBounded
  <2>1. ~(Len(deque) > MaxEntries)
    BY DEF Alone, Noticed, Evicting
  <2>2. Listed \subseteq ToSet(deque)
    BY DEF Listed, Contains, ToSet, IInv, TypeOK
  <2>3. Cardinality(Listed) <= Cardinality(ToSet(deque)) /\ Cardinality(Listed) \in Nat
    BY <2>2, Sizes, FS_Subset, FS_CardinalityType
  <2> QED BY <2>1, <2>3, Sizes, JournalAssumption
<1>2. CASE Admins = {}
  <2>1. IInv /\ Alone => ListIsBounded
    BY <1>1, <1>2
  <2>2. Spec => []Alone
    BY <1>2, AloneInvariance
  <2> QED BY <2>1, <2>2, Invariance, PTL
<1>3. CASE Admins # {}
  <2>1. TypeOK => ListIsBounded
    BY <1>3 DEF ListIsBounded
  <2> QED BY <2>1, TypeCorrect, PTL
<1> QED BY <1>2, <1>3

\* Evictions that overlap leave the journal short of its limit by fewer events
\* than there are server threads.
THEOREM OvershootIsAlwaysBounded == Spec => []OvershootIsBounded
<1>1. IInv /\ Alone => OvershootIsBounded
  <2> SUFFICES ASSUME IInv, Alone
               PROVE  Len(deque) = Cardinality(Linked) \/ Len(deque) + Workers > MaxEntries
    BY DEF OvershootIsBounded
  <2>1. Cardinality(Decided) \in Nat /\ Len(deque) \in Nat
    BY Sizes DEF Decided
  <2> QED BY <2>1, JournalAssumption DEF Alone, Spared
<1>2. CASE Admins = {}
  <2>1. Spec => []Alone
    BY <1>2, AloneInvariance
  <2> QED BY <1>1, <2>1, Invariance, PTL
<1>3. CASE Admins # {}
  <2>1. TypeOK => OvershootIsBounded
    BY <1>3 DEF OvershootIsBounded
  <2> QED BY <2>1, TypeCorrect, PTL
<1> QED BY <1>2, <1>3
-----------------------------------------------------------------------------
(* The refinement: the journal implements BoundedLog.                      *)

LEMMA LogOfType ==
  ASSUME NEW s \in Seq(Events)
  PROVE  /\ LogOf(s) \in Seq(Events)
         /\ Len(LogOf(s)) = IF Len(s) > MaxEntries THEN MaxEntries ELSE Len(s)
         /\ \A i \in 1 .. Len(LogOf(s)) : LogOf(s)[i] = s[i] /\ i \in 1 .. Len(s)
<1>1. CASE Len(s) > MaxEntries
  <2>1. \A i \in 1 .. MaxEntries : i \in 1 .. Len(s) /\ s[i] \in Events
    BY <1>1, JournalAssumption
  <2>2. /\ SubSeq(s, 1, MaxEntries) \in Seq(Events)
        /\ Len(SubSeq(s, 1, MaxEntries)) = MaxEntries
        /\ \A i \in 1 .. MaxEntries : SubSeq(s, 1, MaxEntries)[i] = s[i]
    BY <2>1, JournalAssumption, SubSeqProperties
  <2> QED BY <1>1, <2>1, <2>2 DEF LogOf
<1>2. CASE ~(Len(s) > MaxEntries)
  BY <1>2 DEF LogOf
<1> QED BY <1>1, <1>2

\* What the log keeps does not depend on what has been dropped from its end.
LEMMA LogOfPrefix ==
  ASSUME NEW s \in Seq(Events), NEW t \in Seq(Events), Len(t) >= MaxEntries, Len(s) >= MaxEntries,
         \A i \in 1 .. MaxEntries : s[i] = t[i]
  PROVE  LogOf(s) = LogOf(t)
<1>1. /\ LogOf(s) \in Seq(Events) /\ LogOf(t) \in Seq(Events)
      /\ Len(LogOf(s)) = MaxEntries /\ Len(LogOf(t)) = MaxEntries
  BY LogOfType, JournalAssumption
<1>2. \A i \in 1 .. MaxEntries : LogOf(s)[i] = LogOf(t)[i]
  BY <1>1, LogOfType
<1> QED BY <1>1, <1>2, SeqEqual

LEMMA NewestIsLogOf == \A s : Log!Newest(s) = LogOf(s)
BY DEF Log!Newest, LogOf

\* Linking an event records it.
LEMMA LinkRecords ==
  ASSUME IInv, NEW e \in Events, LinkEvent(e)
  PROVE  Log!Record(e)
<1>1. /\ deque \in Seq(Events) /\ Once(deque) /\ e \notin ToSet(deque)
      /\ deque' = <<e>> \o deque /\ Len(deque) \in Nat
  BY DEF LinkEvent, IInv, TypeOK, Fresh
<1>2. \A i \in 1 .. Len(LogOf(deque)) : LogOf(deque)[i] # e
  BY <1>1, LogOfType DEF ToSet
<1>3. /\ deque' \in Seq(Events) /\ Len(deque') = Len(deque) + 1 /\ deque'[1] = e
      /\ \A i \in 2 .. Len(deque) + 1 : deque'[i] = deque[i - 1]
  BY <1>1, LinkOnce
<1>4. LogOf(deque') = LogOf(<<e>> \o LogOf(deque))
  <2>1. CASE ~(Len(deque) > MaxEntries)
    BY <1>1, <2>1 DEF LogOf
  <2>2. CASE Len(deque) > MaxEntries
    <3> DEFINE l == LogOf(deque)
               t == <<e>> \o l
    <3>1. l \in Seq(Events) /\ Len(l) = MaxEntries
          /\ \A i \in 1 .. MaxEntries : l[i] = deque[i]
      BY <1>1, <2>2, LogOfType
    <3> HIDE DEF l
    <3>2. Once(l) /\ e \notin ToSet(l)
      <4>1. \A i \in 1 .. MaxEntries : i \in 1 .. Len(deque)
        BY <1>1, <2>2, JournalAssumption
      <4>2. DOMAIN l = 1 .. MaxEntries /\ DOMAIN deque = 1 .. Len(deque)
        BY <1>1, <3>1
      <4>3. \A i, j \in 1 .. MaxEntries : l[i] = l[j] => i = j
        BY <1>1, <3>1, <4>1, <4>2 DEF Once
      <4>4. \A i \in 1 .. MaxEntries : l[i] # e
        BY <1>1, <3>1, <4>1, <4>2 DEF ToSet
      <4>5. Once(l)
        BY <4>2, <4>3 DEF Once
      <4> QED BY <4>2, <4>4, <4>5 DEF ToSet
    <3>3. /\ t \in Seq(Events) /\ Len(t) = MaxEntries + 1 /\ t[1] = e
          /\ \A i \in 2 .. MaxEntries + 1 : t[i] = l[i - 1]
      BY <3>1, <3>2, LinkOnce
    <3> HIDE DEF t
    <3>4. \A i \in 1 .. MaxEntries : deque'[i] = t[i]
      <4> SUFFICES ASSUME NEW i \in 1 .. MaxEntries
                   PROVE  deque'[i] = t[i]
        OBVIOUS
      <4>1. CASE i = 1
        BY <1>3, <3>3, <4>1
      <4>2. CASE i # 1
        <5>1. /\ i \in 2 .. Len(deque) + 1 /\ i \in 2 .. MaxEntries + 1
              /\ i - 1 \in 1 .. MaxEntries
          BY <1>1, <2>2, <4>2, JournalAssumption
        <5> QED BY <1>3, <3>1, <3>3, <5>1
      <4> QED BY <4>1, <4>2
    <3>5. Len(deque') >= MaxEntries /\ Len(t) >= MaxEntries
      BY <1>1, <1>3, <2>2, <3>3, JournalAssumption
    <3>6. LogOf(deque') = LogOf(t)
      BY <1>3, <3>3, <3>4, <3>5, LogOfPrefix
    <3> QED BY <3>6 DEF t, l
  <2> QED BY <2>1, <2>2
<1>5. LogOf(deque)' = LogOf(deque')
  BY DEF LogOf
<1> QED BY <1>2, <1>4, <1>5, NewestIsLogOf DEF Log!Record

\* An eviction removes what the log does not keep, or it is overdue.
LEMMA PollLoses ==
  ASSUME IInv, NEW e \in Events, PollLast(e)
  PROVE  Log!LoseOldest \/ LogOf(deque') = LogOf(deque)
<1>1. deque \in Seq(Events) /\ Once(deque) /\ Len(deque) \in Nat /\ pc[e] = "poll"
  BY DEF PollLast, IInv, TypeOK
<1>2. CASE deque = <<>>
  BY <1>2 DEF PollLast
<1>3. CASE deque # <<>> /\ Len(deque) > MaxEntries
  <2>a. deque' = Front(deque)
    BY <1>3 DEF PollLast
  <2>b. /\ Front(deque) \in Seq(Events) /\ Len(Front(deque)) = Len(deque) - 1
        /\ \A i \in 1 .. Len(deque) - 1 : Front(deque)[i] = deque[i]
    BY <1>1, <1>3, FrontOnce
  <2>1. /\ deque' \in Seq(Events) /\ Len(deque') = Len(deque) - 1
        /\ \A i \in 1 .. Len(deque) - 1 : deque'[i] = deque[i]
    BY <2>a, <2>b
  <2>2. /\ Len(deque') >= MaxEntries /\ Len(deque) >= MaxEntries
        /\ \A i \in 1 .. MaxEntries : i \in 1 .. Len(deque) - 1
    BY <1>1, <1>3, <2>1, JournalAssumption
  <2> QED BY <1>1, <2>1, <2>2, LogOfPrefix
<1>4. CASE deque # <<>> /\ ~(Len(deque) > MaxEntries)
  <2>1. deque' = Front(deque) /\ Len(Front(deque)) = Len(deque) - 1
    BY <1>1, <1>4, FrontOnce DEF PollLast
  <2>2. ~(Len(deque') > MaxEntries) /\ LogOf(deque) = deque
    BY <1>1, <1>4, <2>1, JournalAssumption DEF LogOf
  <2>3. LogOf(deque') = SubSeq(deque, 1, Len(deque) - 1)
    BY <2>1, <2>2 DEF LogOf, Front
  <2>4. Overdue
    BY <1>1, <1>4, JournalAssumption DEF Overdue
  <2>5. LogOf(deque)' = LogOf(deque')
    BY DEF LogOf
  <2> QED BY <1>4, <2>2, <2>3, <2>4, <2>5 DEF Log!LoseOldest
<1> QED BY <1>2, <1>3, <1>4

LEMMA InitLog == Init => Log!Init
<1> SUFFICES ASSUME Init PROVE Log!Init
  OBVIOUS
<1>1. LogOf(<<>>) = <<>>
  BY JournalAssumption DEF LogOf
<1>2. ~Overdue
  BY DEF Init, Overdue
<1> QED BY <1>1, <1>2 DEF Init, Log!Init

LEMMA StepLog ==
  ASSUME Admins = {}, IInv, [Next]_vars
  PROVE  [Log!Next]_(Log!vars)
<1>1. Overdue' \in BOOLEAN
  BY DEF Overdue
<1>2. CASE UNCHANGED vars
  BY <1>2 DEF vars, requestVars, Log!vars, LogOf, Overdue
<1>3. CASE Next
  <2>1. PICK e \in Events : PutEvent(e) \/ RequestReceived(e) \/ ServeCompleted(e)
    BY <1>3 DEF Next
  <2>2. \/ Log!Record(e) \/ Log!LoseOldest \/ LogOf(deque') = LogOf(deque)
    <3>1. CASE LinkEvent(e)
      BY <3>1, LinkRecords
    <3>2. CASE PollLast(e)
      BY <3>2, PollLoses
    <3>3. CASE ~LinkEvent(e) /\ ~PollLast(e)
      BY <2>1, <3>3 DEF PutEvent, RequestReceived, RemoveOldEntries, StartCount, VisitNext,
                        Counted, DropEvent, ServeCompleted, CheckLinked, StoreAgain
    <3> QED BY <3>1, <3>2, <3>3
  <2>3. LogOf(deque)' = LogOf(deque')
    BY DEF LogOf
  <2> QED BY <1>1, <2>2, <2>3 DEF Log!Next
<1> QED BY <1>2, <1>3

\* A journal that nobody resets or removes from implements BoundedLog, with all
\* of it listed: it has the newest events, and loses one that is not surplus
\* only to an eviction that was decided on when there was one.
THEOREM JournalKeepsTheNewest ==
  ASSUME Admins = {}
  PROVE  Spec => KeepsTheNewest
<1>1. IInv /\ [Next]_vars => [Log!Next]_(Log!vars)
  BY StepLog
<1>2. Alone => AllListed
  BY DEF Alone, Placed
<1> QED BY <1>1, <1>2, InitLog, Invariance, AloneInvariance, PTL
        DEF Spec, KeepsTheNewest, Log!Spec

-----------------------------------------------------------------------------
(* The recorder.  What is in one order is never met in the other: removals  *)
(* keep the order of the deque, and what is linked is new and comes first.  *)

Precedes(s, x, y) == \E i, j \in DOMAIN s : i < j /\ s[i] = x /\ s[j] = y

LEMMA OnceIsStrict ==
  ASSUME NEW s, Once(s), DOMAIN s \subseteq Nat, NEW x, NEW y, Precedes(s, x, y)
  PROVE  ~Precedes(s, y, x) /\ x # y
BY DEF Precedes, Once

LEMMA PrecedesIn ==
  ASSUME NEW s, NEW x, NEW y, Precedes(s, x, y)
  PROVE  x \in ToSet(s) /\ y \in ToSet(s)
BY DEF Precedes, ToSet

LEMMA TailKeepsOrder ==
  ASSUME NEW S, NEW s \in Seq(S), s # <<>>, NEW x, NEW y
  PROVE  /\ Precedes(Tail(s), x, y) => Precedes(s, x, y)
         /\ y \in ToSet(Tail(s)) => Precedes(s, Head(s), y)
         /\ ToSet(Tail(s)) \subseteq ToSet(s)
<1>1. /\ Tail(s) \in Seq(S)
      /\ Len(Tail(s)) = Len(s) - 1
      /\ \A i \in 1 .. Len(Tail(s)) : Tail(s)[i] = s[i + 1]
      /\ Head(s) = s[1]
  BY HeadTailProperties
<1>2. DOMAIN s = 1 .. Len(s) /\ DOMAIN Tail(s) = 1 .. Len(s) - 1 /\ Len(s) \in Nat \ {0}
  BY <1>1, EmptySeq
<1>3. \A i \in 1 .. Len(s) - 1 : i + 1 \in 1 .. Len(s) /\ Tail(s)[i] = s[i + 1] /\ 1 < i + 1
  BY <1>1, <1>2
<1>4. Precedes(Tail(s), x, y) => Precedes(s, x, y)
  <2> SUFFICES ASSUME NEW i \in 1 .. Len(s) - 1, NEW j \in 1 .. Len(s) - 1,
                      i < j, Tail(s)[i] = x, Tail(s)[j] = y
               PROVE  Precedes(s, x, y)
    BY <1>2 DEF Precedes
  <2>1. i + 1 < j + 1
    BY <1>2
  <2> QED BY <1>2, <1>3, <2>1 DEF Precedes
<1>5. y \in ToSet(Tail(s)) => Precedes(s, Head(s), y)
  BY <1>1, <1>2, <1>3 DEF Precedes, ToSet
<1>6. ToSet(Tail(s)) \subseteq ToSet(s)
  BY <1>2, <1>3 DEF ToSet
<1> QED BY <1>4, <1>5, <1>6

LEMMA FrontKeepsOrder ==
  ASSUME NEW S, NEW s \in Seq(S), s # <<>>, Once(s), NEW x, NEW y, Precedes(Front(s), x, y)
  PROVE  Precedes(s, x, y)
<1>1. DOMAIN s = 1 .. Len(s) /\ DOMAIN Front(s) = 1 .. Len(s) - 1 /\ Len(s) \in Nat
  BY FrontOnce
<1>2. \A i \in 1 .. Len(s) - 1 : Front(s)[i] = s[i] /\ i \in 1 .. Len(s)
  BY <1>1, FrontOnce
<1> QED BY <1>1, <1>2 DEF Precedes

LEMMA RemoveKeepsOrder ==
  ASSUME NEW S, NEW s \in Seq(S), NEW k \in DOMAIN s,
         NEW x, NEW y, Precedes(RemoveAt(s, k), x, y)
  PROVE  Precedes(s, x, y)
<1> DEFINE t == RemoveAt(s, k)
           p(i) == IF i < k THEN i ELSE i + 1
<1>1. DOMAIN s = 1 .. Len(s) /\ Len(s) \in Nat /\ k \in 1 .. Len(s)
  OBVIOUS
<1>2. DOMAIN t = 1 .. Len(s) - 1
  BY RemoveAtProperties
<1>3. \A i \in 1 .. Len(s) - 1 : t[i] = s[p(i)] /\ p(i) \in 1 .. Len(s)
  BY <1>1, RemoveAtProperties
<1>4. \A i, j \in 1 .. Len(s) - 1 : i < j => p(i) < p(j)
  BY <1>1
<1>5. PICK i \in 1 .. Len(s) - 1, j \in 1 .. Len(s) - 1 : i < j /\ t[i] = x /\ t[j] = y
  BY <1>2 DEF Precedes
<1> HIDE DEF t, p
<1>6. p(i) \in DOMAIN s /\ p(j) \in DOMAIN s /\ p(i) < p(j) /\ s[p(i)] = x /\ s[p(j)] = y
  BY <1>1, <1>3, <1>4, <1>5
<1> QED BY <1>6 DEF Precedes

LEMMA LinkKeepsOrder ==
  ASSUME NEW S, NEW s \in Seq(S), NEW e \in S, Once(s), e \notin ToSet(s),
         NEW x, NEW y, Precedes(<<e>> \o s, x, y)
  PROVE  Precedes(s, x, y) \/ x = e
<1> DEFINE t == <<e>> \o s
<1>1. DOMAIN s = 1 .. Len(s) /\ Len(s) \in Nat /\ DOMAIN t = 1 .. Len(s) + 1
  BY LinkOnce
<1>2. t[1] = e /\ \A i \in 2 .. Len(s) + 1 : t[i] = s[i - 1]
  BY LinkOnce
<1>3. PICK i \in 1 .. Len(s) + 1, j \in 1 .. Len(s) + 1 : i < j /\ t[i] = x /\ t[j] = y
  BY <1>1 DEF Precedes
<1> HIDE DEF t
<1>4. CASE i = 1
  BY <1>2, <1>3, <1>4
<1>5. CASE i # 1
  <2>1. /\ i \in 2 .. Len(s) + 1 /\ j \in 2 .. Len(s) + 1
        /\ i - 1 \in 1 .. Len(s) /\ j - 1 \in 1 .. Len(s) /\ i - 1 < j - 1
    BY <1>1, <1>3, <1>5
  <2> QED BY <1>1, <1>2, <1>3, <2>1 DEF Precedes
<1> QED BY <1>4, <1>5

LEMMA AppendKeepsOrder ==
  ASSUME NEW S, NEW s \in Seq(S), NEW e \in S, NEW x, NEW y
  PROVE  /\ Precedes(Append(s, e), x, y) => Precedes(s, x, y) \/ (x \in ToSet(s) /\ y = e)
         /\ ToSet(Append(s, e)) = ToSet(s) \cup {e}
<1>1. /\ Len(Append(s, e)) = Len(s) + 1 /\ Len(s) \in Nat
      /\ DOMAIN s = 1 .. Len(s) /\ DOMAIN Append(s, e) = 1 .. Len(s) + 1
      /\ \A i \in 1 .. Len(s) : Append(s, e)[i] = s[i]
      /\ Append(s, e)[Len(s) + 1] = e
  BY AppendProperties
<1>2. \A i \in 1 .. Len(s) + 1 : i \in 1 .. Len(s) \/ i = Len(s) + 1
  BY <1>1
<1>3. \A i, j \in 1 .. Len(s) + 1 : i < j => i \in 1 .. Len(s)
  BY <1>1
<1>4. \A i \in 1 .. Len(s) : i \in 1 .. Len(s) + 1
  BY <1>1
<1>5. Precedes(Append(s, e), x, y) => Precedes(s, x, y) \/ (x \in ToSet(s) /\ y = e)
  BY <1>1, <1>2, <1>3 DEF Precedes, ToSet
<1>6. Len(s) + 1 \in 1 .. Len(s) + 1
  BY <1>1
<1>7. ToSet(Append(s, e)) = ToSet(s) \cup {e}
  <2>1. ToSet(Append(s, e)) \subseteq ToSet(s) \cup {e}
    BY <1>1, <1>2 DEF ToSet
  <2>2. ToSet(s) \cup {e} \subseteq ToSet(Append(s, e))
    BY <1>1, <1>4, <1>6 DEF ToSet
  <2> QED BY <2>1, <2>2
<1> QED BY <1>5, <1>7

-----------------------------------------------------------------------------
(* The invariant of the recorder                                           *)

\* There is a recording, or a stop is still at work on one.
Live == recorder.status = "Recording" \/ stage \in {"remove", "take"}

\* The recording a status belongs to.
StatusInv ==
  /\ Live /\ recorder.start # None => recorder.start \in known
  /\ ~Live \/ recorder.start = None => known = {}
  /\ stage = "start" => recorder.status # "Recording"
  /\ stage = "stop" => recorder.status = "Recording"
  /\ stage \in {"remove", "take"} => recorder.status = "Stopped"
  /\ stage = "none" => visited = <<>>
  /\ stage \in {"none", "remove", "take"} => ahead = <<>>

\* The stubs at every stage; the proxy stub is there until it is cut.
StubsInv ==
  /\ stubs \subseteq Proxies \cup CatchAlls
  /\ fresh \subseteq Proxies \ stubs
  /\ own \subseteq CatchAlls
  /\ failed \subseteq Proxies \ fresh
  /\ cut \in BOOLEAN
  /\ Proxy \in Proxies \cup {None}
  /\ stubs = own \cup failed \cup (IF cut THEN {} ELSE {Proxy} \ {None})
  /\ cut => Proxy \notin stubs
  /\ Proxy \notin failed \cup fresh
  /\ stage = "remove" => Proxy # None

\* What was in the deque when the recording started had been linked.
OlderInv == \A e \in older : pc[e] \notin {"new", "link"}

\* x may come before y in the journal: nothing older comes before anything
\* newer, and nothing that was listed before the event the recording starts at.
InOrder(x, y) ==
  /\ x \in older => y \in older
  /\ x \in known => y # recorder.start

DequeInv == \A x, y \in Events : Precedes(deque, x, y) => InOrder(x, y)

\* The order in which a walk through the journal meets the events.
Meets(x, y) ==
  \/ Precedes(visited, x, y)
  \/ x \in ToSet(visited) /\ y \in ToSet(ahead)
  \/ Precedes(ahead, x, y)

WalkInv ==
  /\ stage = "start" => ToSet(visited) \cup ToSet(ahead) \subseteq older
  /\ \A x, y \in Events : Meets(x, y) =>
       /\ InOrder(x, y)
       /\ stage = "start" => ~Precedes(deque, y, x)

RInv ==
  RecorderTypeOK /\ StatusInv /\ StubsInv /\ OlderInv /\ DequeInv /\ WalkInv

LEMMA RecorderInitRInv == RecorderInit => RInv
<1> SUFFICES ASSUME RecorderInit PROVE RInv
  OBVIOUS
<1>1. <<>> \in Seq(Events) /\ DOMAIN <<>> = {} /\ ToSet(<<>>) = {}
  BY DEF ToSet
<1>2. \A x, y : ~Precedes(<<>>, x, y)
  BY <1>1 DEF Precedes
<1>3. RecorderTypeOK
  <2>1. stubs \subseteq CatchAlls /\ fresh = Proxies /\ own = stubs /\ failed = {} /\ cut = FALSE
    BY DEF RecorderInit
  <2>2. fresh \subseteq Proxies \ stubs /\ failed \subseteq Proxies \ fresh
    BY <2>1, RecorderAssumption
  <2>3. calls \in 0 .. MaxCalls
    BY RecorderAssumption DEF RecorderInit
  <2>4. /\ recorder \in [status : {"NeverStarted", "Recording", "Stopped"},
                        start : Events \cup {None}, proxy : Proxies \cup {None}]
        /\ stage = "none" /\ built = None
    BY DEF RecorderInit
  <2>5. ahead \in Seq(Events) /\ visited \in Seq(Events) /\ known = {} /\ older = {}
    BY <1>1 DEF RecorderInit
  <2> QED BY <2>1, <2>2, <2>3, <2>4, <2>5 DEF RecorderTypeOK
<1>4. StatusInv /\ OlderInv
  BY DEF RecorderInit, StatusInv, Live, OlderInv
<1>6. StubsInv
  BY RecorderAssumption DEF RecorderInit, StubsInv, Proxy
<1>5. DequeInv /\ WalkInv
  BY <1>1, <1>2 DEF RecorderInit, Init, DequeInv, WalkInv, Meets
<1> QED BY <1>3, <1>4, <1>5, <1>6 DEF RInv

\* A step of the journal keeps the order of its ids, and puts only new ones
\* before others.
LEMMA JournalKeepsOrder ==
  ASSUME IInv, Next, NEW x \in Events, NEW y \in Events, Precedes(deque', x, y)
  PROVE  Precedes(deque, x, y) \/ (pc[x] = "link" /\ y \in ToSet(deque))
<1> USE DEF requestVars, adminVars
<1>1. deque \in Seq(Events) /\ Once(deque)
  BY DEF IInv, TypeOK
<1>2. ASSUME NEW e \in Events, PutEvent(e) \/ RequestReceived(e) \/ ServeCompleted(e)
      PROVE  Precedes(deque, x, y) \/ (pc[x] = "link" /\ y \in ToSet(deque))
  <2>1. CASE LinkEvent(e)
    <3>1. deque' = <<e>> \o deque /\ pc[e] = "link" /\ e \notin ToSet(deque)
      BY <2>1 DEF LinkEvent, IInv, Fresh
    <3>2. ToSet(deque') = ToSet(deque) \cup {e} /\ Once(deque') /\ DOMAIN deque' \subseteq Nat
      BY <1>1, <3>1, LinkOnce
    <3>3. Precedes(deque, x, y) \/ x = e
      BY <1>1, <3>1, LinkKeepsOrder
    <3>4. y \in ToSet(deque') /\ x # y
      BY <3>2, PrecedesIn, OnceIsStrict
    <3> QED BY <3>1, <3>2, <3>3, <3>4
  <2>2. CASE PollLast(e)
    BY <1>1, <2>2, FrontKeepsOrder DEF PollLast
  <2>3. CASE UNCHANGED deque
    BY <2>3
  <2> QED BY <1>2, <2>1, <2>2, <2>3
           DEF RequestReceived, RemoveOldEntries, ServeCompleted, PutEvent, StartCount,
               VisitNext, Counted, DropEvent, CheckLinked, StoreAgain
<1>3. ASSUME NEW a \in Admins, AdminCall(a)
      PROVE  Precedes(deque, x, y)
  <2>1. CASE ClearPolls(a)
    BY <1>1, <2>1, TailKeepsOrder DEF ClearPolls
  <2>2. CASE \E e \in Events : RemoveLink(a, e)
    BY <1>1, <2>2, RemoveKeepsOrder DEF RemoveLink
  <2>3. CASE UNCHANGED deque
    BY <2>3
  <2> QED BY <1>3, <2>1, <2>2, <2>3
           DEF AdminCall, Reset, DequeCleared, ClearBin, AskRemoval, RemoveEvent
<1> QED BY <1>2, <1>3 DEF Next

\* A step of the journal is one of one thread: at most one admin call begins.
LEMMA OneCallBegins ==
  ASSUME IInv, Next
  PROVE  Cardinality({a \in Admins : doing[a] = "none" /\ doing'[a] # "none"}) \in Nat
<1> DEFINE B == {a \in Admins : doing[a] = "none" /\ doing'[a] # "none"}
<1> USE DEF requestVars, adminVars
<1>1. CASE \E e \in Events : PutEvent(e) \/ RequestReceived(e) \/ ServeCompleted(e)
  <2>1. doing' = doing
    BY <1>1 DEF RequestReceived, RemoveOldEntries, ServeCompleted, PutEvent, LinkEvent,
                StartCount, VisitNext, Counted, PollLast, DropEvent, CheckLinked, StoreAgain
  <2>2. B = {}
    BY <2>1
  <2> QED BY <2>2, FS_EmptySet
<1>2. CASE \E a \in Admins : AdminCall(a)
  <2> PICK a \in Admins : AdminCall(a)
    BY <1>2
  <2>1. \A b \in Admins \ {a} : doing'[b] = doing[b]
    BY DEF AdminCall, Reset, ClearPolls, DequeCleared, ClearBin, AskRemoval, RemoveLink,
           RemoveEvent, Does, IInv, TypeOK
  <2>2. B = {} \/ B = {a}
    BY <2>1
  <2> QED BY <2>2, FS_EmptySet, FS_Singleton
<1> QED BY <1>1, <1>2 DEF Next

\* The stubs alone: whatever the recorder or an admin does to them.
LEMMA StartStubs ==
  ASSUME StatusInv, StubsInv, StartRecording
  PROVE  StubsInv'
<1>1. Proxy = None
  BY DEF StartRecording, Proxy
<1>2. stubs = own \cup failed
  BY <1>1 DEF StubsInv
<1>3. stage' = "start" /\ Proxy' = built' /\ cut' = FALSE /\ own' = own /\ failed' = failed
  BY DEF StartRecording, Proxy
<1>4. CASE built' = None /\ UNCHANGED <<stubs, fresh>>
  BY <1>2, <1>3, <1>4, RecorderAssumption DEF StubsInv
<1>5. ASSUME NEW p \in fresh, built' = p, stubs' = stubs \cup {p}, fresh' = fresh \ {p}
      PROVE  StubsInv'
  <2>1. p \in Proxies /\ p # None /\ p \notin failed
    BY RecorderAssumption DEF StubsInv
  <2> DEFINE s == stubs \cup {p}
             f == fresh \ {p}
  <2>2. /\ s \subseteq Proxies \cup CatchAlls /\ f \subseteq Proxies \ s
        /\ failed \subseteq Proxies \ f /\ own \subseteq CatchAlls
        /\ s = own \cup failed \cup ({p} \ {None}) /\ p \notin failed \cup f
    BY <1>2, <2>1 DEF StubsInv
  <2> QED BY <1>3, <1>5, <2>1, <2>2 DEF StubsInv
<1> QED BY <1>4, <1>5 DEF StartRecording

LEMMA StartFailsStubs ==
  ASSUME StatusInv, StubsInv, StartFails
  PROVE  StubsInv'
<1>1. Proxy = built /\ Proxy' = None
  BY DEF StartFails, Proxy, StatusInv
<1>2. UNCHANGED <<stubs, fresh, own, cut>> /\ failed' = failed \cup ({Proxy} \cap stubs)
  BY <1>1 DEF StartFails
<1>3. None \notin stubs /\ None \notin Proxies
  BY RecorderAssumption DEF StubsInv
<1>4. {Proxy} \cap stubs \subseteq Proxies \ fresh
  BY <1>3 DEF StubsInv
<1>5. stubs = own \cup failed'
  BY <1>2, <1>3 DEF StubsInv
<1> QED BY <1>1, <1>2, <1>3, <1>4, <1>5 DEF StubsInv, StartFails

LEMMA TakeOutStubs ==
  ASSUME StatusInv, StubsInv, stage = "remove", TakeOutProxy
  PROVE  /\ stubs' \subseteq stubs
         /\ own' \subseteq own /\ failed' \subseteq failed
         /\ stubs' = own' \cup failed'
<1>1. Proxy = recorder.proxy /\ Proxy \in Proxies
  BY DEF Proxy, StubsInv
<1>2. CASE cut
  BY <1>1, <1>2 DEF TakeOutProxy, StubsInv
<1>3. CASE ~cut
  <2>1. Proxy \in stubs /\ Proxy \notin own \cup failed /\ stubs = own \cup failed \cup {Proxy}
    BY <1>1, <1>3, RecorderAssumption DEF StubsInv
  <2>2. stubs' = stubs \ {Proxy} /\ own' = own /\ failed' = failed
    BY <1>1, <1>3, <2>1 DEF TakeOutProxy
  <2> QED BY <2>1, <2>2
<1> QED BY <1>2, <1>3

\* Once the proxy stub is taken out, or is left by a stop that fails.
LEMMA RemoveStubsInv ==
  ASSUME StatusInv, StubsInv, RemoveProxy \/ RemoveFails
  PROVE  StubsInv'
<1>1. stage = "remove" /\ Proxy' = None /\ stage' # "remove" /\ UNCHANGED <<fresh, cut>>
  BY DEF RemoveProxy, RemoveFails, EndStop, Proxy, StatusInv
<1>2. None \notin stubs /\ None \notin Proxies
  BY RecorderAssumption DEF StubsInv
<1>3. Proxy = recorder.proxy /\ Proxy \in Proxies /\ Proxy \notin fresh
  BY <1>1 DEF Proxy, StubsInv
<1>4. CASE TakeOutProxy
  BY <1>1, <1>2, <1>4, TakeOutStubs DEF StubsInv
<1>5. CASE failed' = failed \cup ({recorder.proxy} \cap stubs) /\ UNCHANGED <<stubs, own>>
  BY <1>1, <1>2, <1>3, <1>5 DEF StubsInv
<1> QED BY <1>4, <1>5 DEF RemoveProxy, RemoveFails

LEMMA StubCallStubs ==
  ASSUME StubsInv, StubCall
  PROVE  StubsInv'
<1>1. Proxy' = Proxy /\ UNCHANGED <<fresh, stage>>
  BY DEF StubCall, recorderVars, Proxy
<1>2. ASSUME NEW u \in CatchAlls, AddStub(u)
      PROVE  StubsInv'
  <2>1. u \notin Proxies /\ u # None
    BY RecorderAssumption
  <2> QED BY <1>1, <1>2, <2>1 DEF AddStub, StubsInv
<1>3. ASSUME NEW S \in SUBSET stubs, RemoveStubs(S)
      PROVE  StubsInv'
  <2>1. /\ stubs' = stubs \ S /\ own' = own \ S /\ failed' = failed \ S
        /\ cut' = (cut \/ Proxy \in S)
    BY <1>3 DEF RemoveStubs
  <2>2. stubs' = own' \cup failed' \cup (IF cut' THEN {} ELSE {Proxy} \ {None})
    BY <2>1 DEF StubsInv
  <2> QED BY <1>1, <2>1, <2>2 DEF StubsInv
<1> QED BY <1>2, <1>3 DEF StubCall

LEMMA StubsStep ==
  ASSUME StatusInv, StubsInv, RecorderNext
  PROVE  StubsInv'
<1>1. ASSUME UNCHANGED <<stubVars, Proxy>>, stage' # "remove" \/ stage = "remove"
      PROVE  StubsInv'
  BY <1>1 DEF stubVars, StubsInv
<1>2. CASE JournalNext \/ VisitEvent
  BY <1>1, <1>2 DEF JournalNext, VisitEvent, recorderVars, Proxy
<1>3. CASE SetRecording
  <2>1. Proxy = built
    BY <1>3 DEF SetRecording, StatusInv, Proxy
  <2>2. stage' = "none" /\ recorder'.status = "Recording" /\ recorder'.proxy = built
    BY <1>3 DEF SetRecording
  <2>3. Proxy' = built
    BY <2>2 DEF Proxy
  <2> QED BY <1>1, <1>3, <2>1, <2>2, <2>3 DEF SetRecording
<1>6. CASE StopRecording
  BY <1>1, <1>6 DEF StopRecording, Proxy
<1>4. CASE SetStopped
  BY <1>4 DEF SetStopped, stubVars, StubsInv, StatusInv, Proxy
<1>5. CASE NothingRecorded \/ TakeSnapshot \/ SnapshotFails
  BY <1>1, <1>5 DEF NothingRecorded, TakeSnapshot, SnapshotFails, EndStop, StatusInv, Proxy
<1> QED
  BY <1>2, <1>3, <1>4, <1>5, <1>6, StartStubs, StartFailsStubs, RemoveStubsInv, StubCallStubs
  DEF RecorderNext, RecorderCall

LEMMA JournalStepRInv ==
  ASSUME IInv, RInv, JournalNext
  PROVE  RInv'
<1>9. UNCHANGED <<recorderVars, walkVars, stubVars>>
  BY DEF JournalNext, recorderVars
<1>1. RecorderTypeOK'
  BY <1>9, OneCallBegins, RecorderAssumption
  DEF JournalNext, recorderVars, walkVars, stubVars, RInv, RecorderTypeOK
<1>2. StatusInv'
  BY <1>9 DEF recorderVars, walkVars, RInv, StatusInv, Live
<1>8. StubsInv'
  BY StubsStep DEF RInv, RecorderNext
<1>3. \A e \in Events : pc'[e] \in {"new", "link"} => pc[e] \in {"new", "link"}
  <2>1. ASSUME NEW e \in Events, PutEvent(e) \/ RequestReceived(e) \/ ServeCompleted(e)
        PROVE  \/ pc' = pc
               \/ /\ pc' = [pc EXCEPT ![e] = pc'[e]]
                  /\ pc'[e] = "link" => pc[e] = "new"
                  /\ pc'[e] # "new"
    BY <2>1 DEF RequestReceived, RemoveOldEntries, ServeCompleted, PutEvent, LinkEvent,
         StartCount, VisitNext, Counted, PollLast, DropEvent, CheckLinked, StoreAgain,
         Goto, IInv, TypeOK
  <2>2. ASSUME NEW a \in Admins, AdminCall(a)
        PROVE  pc' = pc
    BY <2>2 DEF AdminCall, Reset, ClearPolls, DequeCleared, ClearBin, AskRemoval, RemoveLink,
         RemoveEvent, requestVars
  <2>3. pc \in [Events -> {"new", "link", "count", "visit", "poll", "drop", "sent", "store", "done"}]
    BY DEF IInv, TypeOK
  <2> QED BY <2>1, <2>2, <2>3 DEF JournalNext, Next
<1>4. OlderInv'
  BY <1>3, <1>9 DEF walkVars, RInv, OlderInv, RecorderTypeOK
<1>5. \A x, y \in Events : Precedes(deque', x, y) =>
        Precedes(deque, x, y) \/ (x \notin older /\ y \in ToSet(deque))
  BY JournalKeepsOrder DEF JournalNext, RInv, OlderInv
<1>6. DequeInv'
  BY <1>5, <1>9 DEF recorderVars, walkVars, RInv, DequeInv, InOrder, RecorderTypeOK
<1>7. WalkInv'
  <2>1. \A x, y : Meets(x, y)' <=> Meets(x, y)
    BY <1>9 DEF walkVars, Meets
  <2>2. ASSUME NEW x \in Events, NEW y \in Events, Meets(x, y), stage = "start"
        PROVE  ~Precedes(deque', y, x)
    <3>1. y \in ToSet(visited) \cup ToSet(ahead)
      BY <2>2, PrecedesIn DEF Meets
    <3>2. y \in older
      BY <2>2, <3>1 DEF RInv, WalkInv
    <3> QED BY <1>5, <2>2, <3>2 DEF RInv, WalkInv
  <2> QED BY <1>9, <2>1, <2>2 DEF recorderVars, walkVars, RInv, WalkInv, InOrder
<1> QED BY <1>1, <1>2, <1>4, <1>6, <1>7, <1>8 DEF RInv

LEMMA EmptyWalk ==
  \A x, y : ~Precedes(<<>>, x, y) /\ x \notin ToSet(<<>>)
BY DEF Precedes, ToSet

LEMMA VisitEventRInv ==
  ASSUME IInv, RInv, VisitEvent
  PROVE  RInv'
<1> USE DEF vars, requestVars
<1> DEFINE h == Head(ahead)
<1>1. ahead \in Seq(Events) /\ visited \in Seq(Events) /\ ahead # <<>> /\ h \in Events
  BY HeadTailProperties DEF VisitEvent, RInv, RecorderTypeOK
<1>2. ahead' \in Seq(Events) /\ visited' \in Seq(Events)
  BY <1>1, HeadTailProperties, AppendProperties DEF VisitEvent
<1>3. h \in ToSet(ahead)
  BY <1>1, HeadTailProperties, EmptySeq DEF ToSet
<1>4. ToSet(visited') \subseteq ToSet(visited) \cup {h} /\ ToSet(ahead') \subseteq ToSet(ahead)
  BY <1>1, TailKeepsOrder, AppendKeepsOrder DEF VisitEvent
<1>5. \A x, y \in Events : Meets(x, y)' => Meets(x, y)
  <2> SUFFICES ASSUME NEW x \in Events, NEW y \in Events, Meets(x, y)'
               PROVE  Meets(x, y)
    OBVIOUS
  <2>1. ASSUME Precedes(visited', x, y) PROVE Meets(x, y)
    BY <1>1, <1>3, <2>1, AppendKeepsOrder DEF VisitEvent, Meets
  <2>2. ASSUME x \in ToSet(visited'), y \in ToSet(ahead') PROVE Meets(x, y)
    <3>1. y \in ToSet(Tail(ahead)) /\ y \in ToSet(ahead)
      BY <1>4, <2>2 DEF VisitEvent
    <3>2. Precedes(ahead, h, y)
      BY <1>1, <3>1, TailKeepsOrder
    <3> QED BY <1>4, <2>2, <3>1, <3>2 DEF Meets
  <2>3. ASSUME Precedes(ahead', x, y) PROVE Meets(x, y)
    BY <1>1, <2>3, TailKeepsOrder DEF VisitEvent, Meets
  <2> QED BY <2>1, <2>2, <2>3 DEF Meets
<1>6. RecorderTypeOK'
  BY <1>2 DEF VisitEvent, RInv, RecorderTypeOK, stubVars
<1>7. StatusInv' /\ OlderInv' /\ DequeInv'
  BY DEF VisitEvent, RInv, StatusInv, Live, OlderInv, DequeInv, InOrder
<1>9. StubsInv'
  BY StubsStep DEF RInv, RecorderNext, RecorderCall
<1>8. WalkInv'
  BY <1>3, <1>4, <1>5 DEF VisitEvent, RInv, WalkInv, InOrder
<1> QED BY <1>6, <1>7, <1>8, <1>9 DEF RInv

LEMMA StartRecordingRInv ==
  ASSUME IInv, RInv, StartRecording
  PROVE  RInv'
<1> USE DEF StartWalk, vars, requestVars
<1>1. deque \in Seq(Events) /\ Once(deque) /\ DOMAIN deque \subseteq Nat /\ ToSet(deque) \subseteq Events
  BY DEF IInv, TypeOK, ToSet
<1>2. ahead' = deque /\ visited' = <<>> /\ known' = {} /\ older' = ToSet(deque) /\ deque' = deque
  BY DEF StartRecording, RInv, StatusInv, Live
<1>9. StubsInv'
  BY StubsStep DEF RInv, RecorderNext, RecorderCall
<1>3. RecorderTypeOK'
  <2>1. built' \in Proxies \cup {None} /\ calls' \in 0 .. MaxCalls /\ recorder' = recorder
    BY RecorderAssumption DEF StartRecording, RInv, RecorderTypeOK
  <2>2. stage' = "start"
    BY DEF StartRecording
  <2> QED BY <1>1, <1>2, <1>9, <2>1, <2>2 DEF RInv, RecorderTypeOK, StubsInv
<1>4. StatusInv'
  BY <1>2 DEF StartRecording, RInv, StatusInv, Live
<1>5. OlderInv'
  <2>1. \A e \in ToSet(deque) : pc[e] \notin {"new", "link"}
    BY <1>1 DEF IInv, Fresh
  <2> QED BY <1>2, <2>1 DEF StartRecording, OlderInv
<1>6. \A x, y \in Events : Precedes(deque, x, y) => InOrder(x, y)' /\ ~Precedes(deque, y, x)
  BY <1>1, <1>2, PrecedesIn, OnceIsStrict DEF InOrder
<1>7. DequeInv'
  BY <1>2, <1>6 DEF DequeInv
<1>8. WalkInv'
  BY <1>2, <1>6, EmptyWalk DEF WalkInv, Meets
<1> QED BY <1>3, <1>4, <1>5, <1>7, <1>8, <1>9 DEF RInv

LEMMA SetRecordingRInv ==
  ASSUME IInv, RInv, SetRecording
  PROVE  RInv'
<1> USE DEF WalkEnds, vars, requestVars
<1> DEFINE h == Head(visited)
<1>1. visited \in Seq(Events) /\ ToSet(visited) \subseteq older
  BY DEF SetRecording, RInv, RecorderTypeOK, WalkInv
<1>2. visited # <<>> =>
        h \in Events /\ h \in ToSet(visited) /\ \A y \in ToSet(visited) : y = h \/ Precedes(visited, h, y)
  <2> SUFFICES ASSUME visited # <<>>
               PROVE  h \in Events /\ h \in ToSet(visited) /\ \A y \in ToSet(visited) : y = h \/ Precedes(visited, h, y)
    OBVIOUS
  <2>1. h \in Events /\ h = visited[1] /\ 1 \in DOMAIN visited
    BY <1>1, HeadTailProperties, EmptySeq
  <2>2. \A j \in DOMAIN visited : j = 1 \/ 1 < j
    BY <1>1
  <2> QED BY <2>1, <2>2 DEF Precedes, ToSet
<1>3. visited = <<>> => ToSet(visited) = {}
  BY DEF ToSet
<1>4. /\ visited' = <<>> /\ ahead' = <<>> /\ deque' = deque /\ pc' = pc /\ older' = older
      /\ known' = ToSet(visited) /\ stage' = "none"
      /\ recorder'.start = IF visited = <<>> THEN None ELSE h
      /\ recorder'.status = "Recording" /\ recorder'.proxy = built
      /\ built' = None /\ calls' = calls
  BY DEF SetRecording
<1>10. StubsInv'
  BY StubsStep DEF RInv, RecorderNext, RecorderCall
<1>5. RecorderTypeOK'
  <2>1. visited' \in Seq(Events) /\ ahead' \in Seq(Events)
    BY <1>4
  <2>2. recorder' \in [status : {"NeverStarted", "Recording", "Stopped"},
                       start : Events \cup {None}, proxy : Proxies \cup {None}]
    BY <1>2 DEF SetRecording, RInv, RecorderTypeOK
  <2>3. known' \subseteq older' /\ older' \subseteq Events /\ stage' = "none"
    BY <1>1, <1>4 DEF RInv, RecorderTypeOK
  <2> QED BY <1>4, <1>10, <2>1, <2>2, <2>3 DEF RInv, RecorderTypeOK, StubsInv
<1>6. StatusInv'
  BY <1>2, <1>3, <1>4, JournalAssumption DEF StatusInv, Live
<1>7. OlderInv'
  BY <1>4 DEF RInv, OlderInv
<1>8. DequeInv'
  <2> SUFFICES ASSUME NEW x \in Events, NEW y \in Events, Precedes(deque, x, y)
               PROVE  InOrder(x, y)'
    BY <1>4 DEF DequeInv
  <2>1. x \in older => y \in older
    BY DEF RInv, DequeInv, InOrder
  <2>2. ASSUME x \in ToSet(visited), y = recorder'.start PROVE FALSE
    <3>1. visited # <<>> /\ y = h
      BY <1>3, <1>4, <2>2
    <3>2. x # y
      <4>1. Once(deque) /\ DOMAIN deque \subseteq Nat
        BY DEF IInv, TypeOK
      <4> QED BY <4>1, OnceIsStrict
    <3>3. Precedes(visited, y, x)
      BY <1>2, <2>2, <3>1, <3>2
    <3> QED BY <3>3 DEF RInv, WalkInv, Meets, SetRecording
  <2> QED BY <1>4, <2>1, <2>2 DEF InOrder
<1>9. WalkInv'
  BY <1>4, EmptyWalk DEF WalkInv, Meets
<1> QED BY <1>5, <1>6, <1>7, <1>8, <1>9, <1>10 DEF RInv

LEMMA StopRecordingRInv ==
  ASSUME IInv, RInv, StopRecording
  PROVE  RInv'
<1> USE DEF StartWalk, vars, requestVars
<1>1. deque \in Seq(Events)
  BY DEF IInv, TypeOK
<1>2. /\ ahead' = deque /\ visited' = <<>> /\ stage' = "stop"
      /\ UNCHANGED <<deque, pc, calls, recorder, built, known, older>>
  BY DEF StopRecording, RInv, StatusInv
<1>6. StubsInv'
  BY StubsStep DEF RInv, RecorderNext, RecorderCall
<1>3. RecorderTypeOK'
  BY <1>1, <1>2, <1>6 DEF RInv, RecorderTypeOK, StubsInv
<1>4. StatusInv' /\ OlderInv' /\ DequeInv'
  BY <1>2 DEF StopRecording, RInv, StatusInv, Live, OlderInv, DequeInv, InOrder
<1>5. WalkInv'
  BY <1>2, EmptyWalk DEF RInv, DequeInv, WalkInv, Meets, InOrder
<1> QED BY <1>3, <1>4, <1>5, <1>6 DEF RInv

\* The steps of a stop that only read: the order of what it has visited stays.
LEMMA SetStoppedRInv ==
  ASSUME RInv, SetStopped
  PROVE  RInv'
<1> USE DEF WalkEnds, vars, requestVars, stubVars
<1>1. /\ ahead = <<>> /\ recorder.status = "Recording" /\ stage' \in {"remove", "take"}
      /\ recorder'.status = "Stopped" /\ recorder'.start = recorder.start
      /\ recorder'.proxy = recorder.proxy
      /\ UNCHANGED <<deque, pc, calls, built, ahead, visited, known, older>>
  BY DEF SetStopped, RInv, RecorderTypeOK, StatusInv
<1>2. StubsInv'
  BY StubsStep DEF RInv, RecorderNext, RecorderCall
<1>3. RecorderTypeOK'
  <2>1. recorder' \in [status : {"NeverStarted", "Recording", "Stopped"},
                       start : Events \cup {None}, proxy : Proxies \cup {None}]
    BY DEF SetStopped, RInv, RecorderTypeOK
  <2> QED BY <1>1, <1>2, <2>1 DEF RInv, RecorderTypeOK, StubsInv
<1>4. StatusInv'
  BY <1>1 DEF RInv, StatusInv, Live
<1>5. OlderInv' /\ DequeInv'
  BY <1>1 DEF RInv, OlderInv, DequeInv, InOrder
<1>6. WalkInv'
  BY <1>1 DEF RInv, WalkInv, Meets, InOrder
<1> QED BY <1>2, <1>3, <1>4, <1>5, <1>6 DEF RInv

LEMMA RemoveProxyRInv ==
  ASSUME RInv, RemoveProxy
  PROVE  RInv'
<1> USE DEF vars, requestVars, walkVars
<1>1. /\ stage = "remove" /\ stage' = "take"
      /\ UNCHANGED <<deque, pc, calls, recorder, built, ahead, visited, known, older>>
  BY DEF RemoveProxy
<1>2. StubsInv'
  BY StubsStep DEF RInv, RecorderNext, RecorderCall
<1>3. RecorderTypeOK'
  BY <1>1, <1>2 DEF RInv, RecorderTypeOK, StubsInv
<1>4. StatusInv' /\ OlderInv' /\ DequeInv'
  BY <1>1 DEF RInv, StatusInv, Live, OlderInv, DequeInv, InOrder
<1>5. WalkInv'
  BY <1>1 DEF RInv, WalkInv, Meets, InOrder
<1> QED BY <1>2, <1>3, <1>4, <1>5 DEF RInv

LEMMA StubCallRInv ==
  ASSUME RInv, StubCall
  PROVE  RInv'
<1> USE DEF vars, requestVars, recorderVars, walkVars
<1>1. UNCHANGED <<deque, pc, stage, recorder, built, ahead, visited, known, older>>
  BY DEF StubCall
<1>2. StubsInv'
  BY StubsStep DEF RInv, RecorderNext
<1>3. RecorderTypeOK'
  <2>1. calls' \in 0 .. MaxCalls
    BY RecorderAssumption DEF StubCall, RInv, RecorderTypeOK
  <2> QED BY <1>1, <1>2, <2>1 DEF RInv, RecorderTypeOK, StubsInv
<1>4. StatusInv' /\ OlderInv' /\ DequeInv'
  BY <1>1 DEF RInv, StatusInv, Live, OlderInv, DequeInv, InOrder
<1>5. WalkInv'
  BY <1>1 DEF RInv, WalkInv, Meets, InOrder
<1> QED BY <1>2, <1>3, <1>4, <1>5 DEF RInv

\* The ends of a start that fails, and of every stop.
CallEnds ==
  \/ StartFails \/ RemoveFails
  \/ NothingRecorded \/ TakeSnapshot \/ SnapshotFails

LEMMA CallEndsRInv ==
  ASSUME RInv, CallEnds
  PROVE  RInv'
<1> USE DEF vars, requestVars, EndStop
<1>1. /\ stage' = "none" /\ ahead' = <<>> /\ visited' = <<>> /\ known' = {} /\ older' = {}
      /\ UNCHANGED <<calls, recorder>> /\ recorder.status # "Recording"
  BY DEF CallEnds, StartFails, RemoveFails, NothingRecorded, TakeSnapshot, SnapshotFails, RInv,
         StatusInv, Live
<1>2. built' \in Proxies \cup {None}
  BY DEF CallEnds, StartFails, RemoveFails, NothingRecorded, TakeSnapshot, SnapshotFails, RInv,
         RecorderTypeOK
<1>3. StubsInv'
  BY StubsStep DEF RInv, RecorderNext, RecorderCall, CallEnds
<1>4. RecorderTypeOK'
  BY <1>1, <1>2, <1>3 DEF RInv, RecorderTypeOK, StubsInv
<1>5. StatusInv' /\ OlderInv'
  BY <1>1 DEF StatusInv, Live, OlderInv
<1>6. DequeInv' /\ WalkInv'
  BY <1>1, EmptyWalk DEF DequeInv, WalkInv, Meets, InOrder
<1> QED BY <1>3, <1>4, <1>5, <1>6 DEF RInv

LEMMA RecorderRefines == [RecorderNext]_recordingVars => [Next]_vars
BY DEF RecorderNext, recordingVars, JournalNext, StubCall, RecorderCall, StartRecording,
       StartFails, StopRecording, VisitEvent, SetRecording, SetStopped, RemoveProxy, RemoveFails,
       NothingRecorded, TakeSnapshot, SnapshotFails, EndStop, StartWalk, WalkEnds

\* The recorder only reads the journal.
THEOREM RecorderUsesJournal == RecorderSpec => Spec
<1>1. RecorderInit => Init
  BY DEF RecorderInit
<1> QED BY <1>1, RecorderRefines, PTL DEF RecorderSpec, Spec

LEMMA StepRInv ==
  ASSUME IInv, RInv, [RecorderNext]_recordingVars
  PROVE  RInv'
<1>1. CASE UNCHANGED recordingVars
  <2> USE DEF recordingVars, recorderVars, walkVars, stubVars, vars, requestVars
  <2>1. RecorderTypeOK' /\ StatusInv' /\ StubsInv'
    BY <1>1 DEF RInv, RecorderTypeOK, StatusInv, Live, StubsInv, Proxy
  <2>2. OlderInv' /\ DequeInv' /\ WalkInv'
    BY <1>1 DEF RInv, OlderInv, DequeInv, InOrder, WalkInv, Meets
  <2> QED BY <2>1, <2>2 DEF RInv
<1>2. CASE JournalNext
  BY <1>2, JournalStepRInv
<1>3. CASE RecorderCall
  BY <1>3, VisitEventRInv, StartRecordingRInv, SetRecordingRInv, StopRecordingRInv,
     SetStoppedRInv, RemoveProxyRInv, CallEndsRInv
     DEF RecorderCall, CallEnds
<1>4. CASE StubCall
  BY <1>4, StubCallRInv
<1> QED BY <1>1, <1>2, <1>3, <1>4 DEF RecorderNext

LEMMA RecorderInvariance == RecorderSpec => []RInv
<1>1. IInv /\ RInv /\ [RecorderNext]_recordingVars => RInv'
  BY StepRInv
<1> QED BY <1>1, RecorderInitRInv, RecorderUsesJournal, Invariance, PTL DEF RecorderSpec

LEMMA RecorderTypeCorrect == RecorderSpec => []RecorderTypeOK
<1>1. RInv => RecorderTypeOK
  BY DEF RInv
<1> QED BY <1>1, RecorderInvariance, PTL

\* Starts and stops of recordings, failing ones included, and the admin calls
\* they overlap account for every stub that matches any request.
THEOREM RecordingsAlwaysCleanUp == RecorderSpec => []RecordingsCleanUp
<1>1. ASSUME RInv PROVE RecordingsCleanUp
  <2>1. stage = "none" =>
          Proxy = IF recorder.status = "Recording" THEN recorder.proxy ELSE None
    BY DEF Proxy
  <2> QED BY <1>1, <2>1 DEF RInv, StubsInv, RecordingsCleanUp
<1> QED BY <1>1, RecorderInvariance, PTL

LEMMA SnapshotIsTheRecording ==
  ASSUME RInv, TakeSnapshot
  PROVE  /\ SinceStart \cap known = {}
         /\ ToSet(visited) \ older \subseteq SinceStart
<1>1. visited \in Seq(Events) /\ DOMAIN visited = 1 .. Len(visited) /\ Len(visited) \in Nat
  BY DEF RInv, RecorderTypeOK
<1>2. \A i, j \in DOMAIN visited : i < j => InOrder(visited[i], visited[j])
  BY <1>1 DEF RInv, WalkInv, Meets, Precedes
<1>3. known # {} => recorder.start \in known
  BY DEF RInv, StatusInv
<1>8. recorder.start # None => recorder.start \in known
  BY DEF TakeSnapshot, RInv, StatusInv, Live
<1>4. ASSUME NEW j \in DOMAIN visited, visited[j] \in known,
             \A k \in 1 .. j : visited[k] # recorder.start
      PROVE  FALSE
  <2>1. recorder.start # None
    BY <1>4 DEF RInv, StatusInv
  <2>2. PICK m \in DOMAIN visited : visited[m] = recorder.start
    BY <1>1, <2>1 DEF TakeSnapshot, StartFound, Contains
  <2>3. j < m
    BY <1>1, <1>4, <2>2
  <2> QED BY <1>2, <1>4, <2>2, <2>3 DEF InOrder
<1>5. ASSUME NEW j \in DOMAIN visited, visited[j] \notin older,
             NEW k \in 1 .. j, visited[k] = recorder.start
      PROVE  FALSE
  <2>1. k \in DOMAIN visited
    BY <1>1
  <2>2. recorder.start \in older
    BY <1>1, <1>5, <1>8, <2>1, JournalAssumption DEF RInv, RecorderTypeOK
  <2>3. k < j
    BY <1>1, <1>5, <2>2
  <2> QED BY <1>2, <1>5, <2>1, <2>2, <2>3 DEF InOrder
<1>6. SinceStart \cap known = {}
  BY <1>4 DEF SinceStart
<1>7. ToSet(visited) \ older \subseteq SinceStart
  BY <1>5 DEF SinceStart, ToSet
<1> QED BY <1>6, <1>7

\* Recorder.stopRecording takes what was journalled since startRecording and
\* nothing that was there before, whatever the journal lost between the two.
THEOREM SnapshotAlwaysCaptures == RecorderSpec => CapturesTheRecording
<1>1. RInv /\ [RecorderNext]_recordingVars =>
        [TakeSnapshot =>
           /\ SinceStart \cap known = {}
           /\ ToSet(visited) \ older \subseteq SinceStart]_recordingVars
  BY SnapshotIsTheRecording
<1> QED BY <1>1, RecorderInvariance, PTL DEF RecorderSpec, CapturesTheRecording

\* A reset clears what it found, whatever the recorder does meanwhile.
THEOREM RecordingResetsClear == RecorderSpec => []ResetClears
BY RecorderUsesJournal, ResetAlwaysClears
=============================================================================
