------------------------- MODULE MessageJournalProofs -------------------------
(***************************************************************************)
(* Proofs about MessageJournal, for any number of messages and of threads  *)
(* that wait, any count waited for and any limit: type correctness, and    *)
(* that a wait which comes back short has missed nothing.                  *)
(***************************************************************************)
EXTENDS MessageJournal, FiniteSetTheorems, SequenceTheorems, TLAPS

\* What a look collects and what a listener notes matches the pattern.
MatchInv ==
  \A w \in Waiters :
    /\ ever[w] \subseteq Matching
    /\ latch[w] # None => latch[w] \in Matching

\* The last look is made when the time is up, and meets all that has lasted.
LastLookInv ==
  \A w \in Waiters : at[w] = "final" => w \in expired /\ lasting[w] \subseteq steady[w]

\* A wait that was there when an event was linked is told of it, or has been
\* told of one.
PresentInv ==
  \A e \in Events : \A w \in present[e] :
    /\ e \in Matching /\ pc[e] \in {"snapshot", "tell"}
    /\ w \in Singles /\ at[w] = "await"
    /\ pc[e] = "tell" => w \in tell[e] \/ latch[w] # None

\* A wait that has been told of an event goes on to return it.
ToldInv == \A w \in told : w \in Singles /\ at[w] = "await" /\ latch[w] # None

IInv == TypeOK /\ MatchInv /\ LastLookInv /\ PresentInv /\ ToldInv

-----------------------------------------------------------------------------
(* The deque                                                               *)

LEMMA FrontTyped ==
  ASSUME NEW S, NEW s \in Seq(S), s # <<>>
  PROVE  Front(s) \in Seq(S) /\ Last(s) \in S
<1>1. DOMAIN s = 1 .. Len(s) /\ Len(s) \in Nat \ {0}
  BY EmptySeq
<1>2. \A i \in 1 .. Len(s) - 1 : s[i] \in S
  BY <1>1
<1> QED BY <1>1, <1>2, SubSeqProperties DEF Front, Last

LEMMA RemoveAtTyped ==
  ASSUME NEW S, NEW s \in Seq(S), NEW k \in DOMAIN s
  PROVE  RemoveAt(s, k) \in Seq(S)
<1>1. DOMAIN s = 1 .. Len(s) /\ Len(s) \in Nat
  OBVIOUS
<1>2. SubSeq(s, 1, k - 1) \in Seq(S)
  <2>1. \A i \in 1 .. k - 1 : s[i] \in S
    BY <1>1
  <2> QED BY <1>1, <2>1, SubSeqProperties
<1>3. SubSeq(s, k + 1, Len(s)) \in Seq(S)
  <2>1. \A i \in k + 1 .. Len(s) : s[i] \in S
    BY <1>1
  <2> QED BY <1>1, <2>1, SubSeqProperties
<1> QED BY <1>2, <1>3, ConcatProperties DEF RemoveAt

\* There is something to evict when there is too much.
LEMMA TooManyAreSome ==
  ASSUME Cardinality(Listed) > MaxEntries
  PROVE  deque # <<>>
<1>1. SUFFICES ASSUME deque = <<>> PROVE FALSE
  OBVIOUS
<1>2. Listed = {}
  BY <1>1 DEF Listed, ToSet
<1> QED BY <1>2, FS_EmptySet, MessageJournalAssumption

LEMMA CollectedTyped ==
  ASSUME MatchInv, NEW w \in Waiters, NEW S \in Collected(w)
  PROVE  /\ S \subseteq Matching /\ IsFiniteSet(S) /\ Cardinality(S) \in Nat
         /\ \A R \in Returned(w, S) : R \subseteq S
<1>1. S \subseteq Matching
  BY DEF Collected, MatchInv
<1>2. IsFiniteSet(S) /\ Cardinality(S) \in Nat
  BY <1>1, MessageJournalAssumption, FS_Subset, FS_CardinalityType
<1> QED BY <1>1, <1>2 DEF Returned

-----------------------------------------------------------------------------
(* What the steps do to a wait and to what it is told.                     *)

Flow ==
  /\ expired \subseteq expired'
  /\ \A w \in Waiters :
       /\ at'[w] = "final" => w \in expired'
       /\ at[w] = "await" /\ at'[w] = "await" /\ latch[w] # None => latch'[w] # None
       /\ latch'[w] # None => latch'[w] \in Matching
  /\ \A w \in Singles :
       at[w] = "await" /\ at'[w] # "await" =>
         at'[w] = "done" \/ (at'[w] = "final" /\ latch[w] = None)
  /\ \A e \in Events :
       /\ pc[e] # "tell" /\ pc'[e] = "tell" => tell'[e] = Listeners
       /\ pc[e] = "tell" /\ pc'[e] # "tell" => tell[e] = {}
       /\ pc'[e] = "tell" => pc[e] \in {"snapshot", "tell"}
       /\ pc'[e] = "snapshot" => pc[e] \in {"link", "snapshot"}
       /\ pc[e] = "snapshot" => pc'[e] \in {"snapshot", "tell"}
  /\ \A e \in Matching, w \in Waiters :
       pc[e] = "tell" /\ w \in tell[e] /\ at'[w] = "await"
         => w \in tell'[e] \/ latch'[w] # None

Good == TypeOK' /\ Flow

LEMMA SenderGood ==
  ASSUME IInv, NEW e \in Events, PutEvent(e) \/ MessageReceived(e)
  PROVE  Good
<1> USE MessageJournalAssumption DEF IInv, Waiters
<1>1. CASE PutEvent(e)
  BY <1>1 DEF PutEvent, Goto, Good, TypeOK, Flow, MatchInv, LastLookInv, Listeners, waits
<1>2. CASE LinkEvent(e)
  <2>1. deque' \in Seq(Events)
    BY <1>2, ConcatProperties DEF LinkEvent, TypeOK
  <2> QED BY <1>2, <2>1 DEF LinkEvent, Goto, Good, TypeOK, Flow, MatchInv, LastLookInv, Listeners, waits
<1>3. CASE NotifyListeners(e)
  BY <1>3 DEF NotifyListeners, Goto, Good, TypeOK, Flow, MatchInv, LastLookInv, Listeners,
              journal, waits
<1>4. ASSUME NEW w \in Waiters, Tell(e, w) PROVE Good
  <2>1. TypeOK'
    BY <1>4 DEF Tell, TypeOK, Listeners, journal
  <2>2. Flow
    BY <1>4 DEF Tell, TypeOK, Flow, MatchInv, LastLookInv, Listeners, journal
  <2> QED BY <2>1, <2>2 DEF Good
<1>5. CASE AllTold(e)
  BY <1>5 DEF AllTold, Goto, Good, TypeOK, Flow, MatchInv, LastLookInv, Listeners, journal, waits
<1>6. CASE RemoveLast(e)
  <2>1. CASE Cardinality(Listed) > MaxEntries
    <3>1. /\ deque' \in Seq(Events) /\ victim' = [victim EXCEPT ![e] = Last(deque)]
          /\ Last(deque) \in Events /\ pc' = [pc EXCEPT ![e] = "drop"]
      BY <1>6, <2>1, TooManyAreSome, FrontTyped DEF RemoveLast, Goto, TypeOK
    <3> QED BY <1>6, <3>1 DEF RemoveLast, Good, TypeOK, Flow, MatchInv, LastLookInv, Listeners, waits
  <2>2. CASE ~(Cardinality(Listed) > MaxEntries)
    BY <1>6, <2>2 DEF RemoveLast, Goto, Good, TypeOK, Flow, MatchInv, LastLookInv, Listeners, waits
  <2> QED BY <2>1, <2>2
<1>7. CASE DropEvent(e)
  BY <1>7 DEF DropEvent, Goto, Good, TypeOK, Flow, MatchInv, LastLookInv, Listeners, waits
<1> QED BY <1>1, <1>2, <1>3, <1>4, <1>5, <1>6, <1>7 DEF MessageReceived

LEMMA AdminGood ==
  ASSUME IInv, AdminCall
  PROVE  Good
<1>1. UNCHANGED <<senders, waits>>
  BY DEF AdminCall, ClearDeque, ClearEvents, RemoveLink, RemoveEvent
<1> DEFINE Admins == [at : {"none", "events", "event"}, id : Events \cup {None}, calls : 0 .. MaxCalls]
<1>2. deque' \in Seq(Events) /\ held' \subseteq Events /\ admin' \in Admins
  <2> USE DEF IInv, TypeOK
  <2>0. MaxCalls \in Nat /\ admin.calls \in 0 .. MaxCalls /\ admin.id \in Events \cup {None}
    BY MessageJournalAssumption
  <2>1. CASE ClearDeque
    <3>1. admin.calls + 1 \in 0 .. MaxCalls
      BY <2>0, <2>1 DEF ClearDeque
    <3>2. admin' = [admin EXCEPT !.at = "events", !.calls = @ + 1] /\ admin \in Admins
      BY <2>1 DEF ClearDeque
    <3>3. admin' \in Admins
      BY <3>1, <3>2
    <3> QED BY <2>1, <3>3 DEF ClearDeque
  <2>2. CASE ClearEvents
    BY <2>0, <2>2 DEF ClearEvents
  <2>3. ASSUME NEW e \in Events, RemoveLink(e)
        PROVE  deque' \in Seq(Events) /\ held' \subseteq Events /\ admin' \in Admins
    <3>1. deque' \in Seq(Events)
      BY <2>3, RemoveAtTyped DEF RemoveLink
    <3> QED BY <2>0, <2>3, <3>1 DEF RemoveLink
  <2>4. CASE RemoveEvent
    BY <2>0, <2>4 DEF RemoveEvent
  <2> QED BY <2>1, <2>2, <2>3, <2>4 DEF AdminCall
<1> QED BY <1>1, <1>2
        DEF senders, waits, IInv, TypeOK, Good, Flow, MatchInv, LastLookInv, Listeners

\* A wait whose round is over is no longer told of anything.
LEMMA RoundOverGood ==
  ASSUME IInv, NEW w \in Waiters, at[w] = "await", Unregister(w),
         NEW label \in {"look", "final", "done"}, at' = [at EXCEPT ![w] = label],
         found' \in [Waiters -> SUBSET Matching],
         UNCHANGED <<journal, pc, victim, admin, expired>>,
         label = "final" => w \in expired,
         w \in Singles => label = "done" \/ (label = "final" /\ latch[w] = None)
  PROVE  Good
<1>1. /\ \A e \in Events : tell'[e] = tell[e] \ {w}
      /\ latch' = [latch EXCEPT ![w] = None]
      /\ tell' = [e \in Events |-> tell[e] \ {w}]
  BY DEF Unregister
<1>2. TypeOK'
  BY <1>1 DEF IInv, TypeOK, Listeners, journal
<1>3. Flow
  BY <1>1, MessageJournalAssumption DEF IInv, TypeOK, Flow, MatchInv, LastLookInv, journal, Waiters
<1> QED BY <1>2, <1>3 DEF Good

\* A wait that is not registered and does not become so.
LEMMA UnregisteredGood ==
  ASSUME IInv, NEW w \in Waiters, at[w] # "await",
         NEW label \in {"look", "register", "await", "final", "done"},
         at' = [at EXCEPT ![w] = label], found' \in [Waiters -> SUBSET Matching],
         UNCHANGED <<journal, senders, admin, expired, latch>>,
         label = "final" => w \in expired
  PROVE  Good
<1>1. TypeOK'
  BY DEF IInv, TypeOK, Listeners, journal, senders
<1>2. Flow
  BY MessageJournalAssumption DEF IInv, TypeOK, Flow, MatchInv, LastLookInv, journal, senders, Waiters
<1> QED BY <1>1, <1>2 DEF Good

LEMMA WaiterGood ==
  ASSUME IInv, NEW w \in Waiters, Begin(w) \/ Wait(w) \/ TimeIsUp(w)
  PROVE  Good
<1> USE DEF IInv
<1>0. found \in [Waiters -> SUBSET Matching]
  BY DEF TypeOK
<1>1. CASE Begin(w)
  <2>1. PICK label \in {"look", "final"} :
          at' = [at EXCEPT ![w] = label] /\ (label = "final" => w \in expired)
    BY <1>1 DEF Begin, LookOrGiveUp, Does
  <2> QED BY <1>0, <1>1, <2>1, UnregisteredGood DEF Begin
<1>2. CASE Look(w)
  <2>1. PICK S \in Collected(w) :
          IF Cardinality(S) >= Enough(w)
          THEN \E R \in Returned(w, S) : found' = [found EXCEPT ![w] = R] /\ Does(w, "done")
          ELSE /\ Does(w, IF w \in Batchers /\ w \in expired THEN "final" ELSE "register")
               /\ UNCHANGED found
    BY <1>2 DEF Look
  <2>2. found' \in [Waiters -> SUBSET Matching]
    BY <1>0, <2>1, CollectedTyped
  <2>3. PICK label \in {"register", "final", "done"} :
          at' = [at EXCEPT ![w] = label] /\ (label = "final" => w \in expired)
    BY <2>1 DEF Does
  <2> QED BY <1>2, <2>2, <2>3, UnregisteredGood DEF Look
<1>3. CASE Register(w)
  BY <1>0, <1>3, UnregisteredGood DEF Register, Does
<1>4. CASE Woken(w)
  <2>1. found' \in [Waiters -> SUBSET Matching]
    BY <1>0, <1>4 DEF Woken, MatchInv
  <2>2. PICK label \in {"look", "final", "done"} :
          /\ at' = [at EXCEPT ![w] = label]
          /\ label = "final" => w \in expired
          /\ w \in Singles => label = "done"
    BY <1>4 DEF Woken, LookOrGiveUp, Does
  <2> QED BY <1>4, <2>1, <2>2, RoundOverGood DEF Woken
<1>5. CASE Elapsed(w)
  <2>1. PICK label \in {"look", "final", "done"} :
          /\ at' = [at EXCEPT ![w] = label]
          /\ label = "final" => w \in expired
          /\ w \in Singles => label = "final"
    BY <1>5, MessageJournalAssumption DEF Elapsed, LookOrGiveUp, Does
  <2> QED BY <1>0, <1>5, <2>1, RoundOverGood DEF Elapsed
<1>6. CASE FinalLook(w)
  <2>1. found' \in [Waiters -> SUBSET Matching]
    BY <1>0, <1>6, CollectedTyped DEF FinalLook
  <2> QED BY <1>6, <2>1, UnregisteredGood DEF FinalLook, Does
<1>7. CASE TimeIsUp(w)
  BY <1>7, MessageJournalAssumption
     DEF TimeIsUp, Good, TypeOK, Flow, MatchInv, LastLookInv, Listeners, journal, senders, Waiters
<1> QED BY <1>1, <1>2, <1>3, <1>4, <1>5, <1>6, <1>7 DEF Wait

-----------------------------------------------------------------------------
(* What has been noted of the walks and the waits.                         *)

LEMMA TrackInv ==
  ASSUME IInv, Good, Track
  PROVE  IInv'
<1> USE DEF IInv, Good
<1>1. MatchesListed' \subseteq Matching
  BY DEF MatchesListed
<1>2. MatchInv'
  BY <1>1 DEF MatchInv, Flow, Track
<1>3. LastLookInv'
  <2> SUFFICES ASSUME NEW w \in Waiters, at'[w] = "final"
               PROVE  w \in expired' /\ lasting'[w] \subseteq steady'[w]
    BY DEF LastLookInv
  <2>1. w \in expired'
    BY DEF Flow
  <2>2. lasting'[w] = IF w \in expired' \ expired THEN MatchesListed'
                      ELSE IF w \in expired THEN lasting[w] \cap MatchesListed' ELSE {}
    BY DEF Track
  <2>3. steady'[w] = IF at'[w] # at[w] THEN MatchesListed' ELSE steady[w] \cap MatchesListed'
    BY DEF Track, Looking
  <2>4. at'[w] = at[w] => w \in expired /\ lasting[w] \subseteq steady[w]
    BY DEF LastLookInv
  <2> QED BY <2>1, <2>2, <2>3, <2>4
<1>4. PresentInv'
  <2> SUFFICES ASSUME NEW e \in Events, NEW w \in present'[e]
               PROVE  /\ e \in Matching /\ pc'[e] \in {"snapshot", "tell"}
                      /\ w \in Singles /\ at'[w] = "await"
                      /\ pc'[e] = "tell" => w \in tell'[e] \/ latch'[w] # None
    BY DEF PresentInv
  <2>1. w \in Singles /\ at'[w] = "await" /\ w \in Waiters
    BY DEF Track, Awaiting, Waiters
  <2>2. CASE e \in Matching /\ pc[e] = "link" /\ pc'[e] = "snapshot"
    BY <2>1, <2>2
  <2>3. CASE pc'[e] \in {"snapshot", "tell"} /\ w \in present[e]
    <3>1. /\ e \in Matching /\ pc[e] \in {"snapshot", "tell"} /\ at[w] = "await"
          /\ pc[e] = "tell" => w \in tell[e] \/ latch[w] # None
      BY <2>3 DEF PresentInv
    <3>2. CASE pc[e] = "tell" /\ pc'[e] = "tell"
      BY <2>1, <3>1, <3>2 DEF Flow
    <3>3. CASE pc[e] = "snapshot" /\ pc'[e] = "tell"
      BY <2>1, <3>1, <3>3 DEF Flow, Listeners
    <3> QED BY <2>1, <2>3, <3>1, <3>2, <3>3
  <2> QED BY <2>2, <2>3 DEF Track
<1>5. ToldInv'
  <2> SUFFICES ASSUME NEW w \in told'
               PROVE  w \in Singles /\ at'[w] = "await" /\ latch'[w] # None
    BY DEF ToldInv
  <2>1. w \in Singles /\ w \in Waiters /\ at'[w] # "done"
    BY DEF Track, Waiters
  <2>2. at[w] = "await" /\ latch[w] # None
    <3>1. CASE w \in told
      BY <3>1 DEF ToldInv
    <3>2. ASSUME NEW e \in Matching, pc[e] # "count", pc'[e] = "count", w \in present[e]
          PROVE  at[w] = "await" /\ latch[w] # None
      <4>1. e \in Events
        BY MessageJournalAssumption
      <4>2. /\ pc[e] \in {"snapshot", "tell"} /\ at[w] = "await"
            /\ pc[e] = "tell" => w \in tell[e] \/ latch[w] # None
        BY <3>2, <4>1 DEF PresentInv
      <4>3. pc[e] = "tell" /\ tell[e] = {}
        BY <3>2, <4>1, <4>2 DEF Flow
      <4> QED BY <4>2, <4>3
    <3> QED BY <3>1, <3>2 DEF Track
  <2>3. at'[w] = "await"
    BY <2>1, <2>2 DEF Flow
  <2> QED BY <2>1, <2>2, <2>3 DEF Flow
<1> QED BY <1>2, <1>3, <1>4, <1>5

LEMMA InitIInv == Init => IInv
<1> SUFFICES ASSUME Init PROVE IInv
  OBVIOUS
<1>1. TypeOK
  BY MessageJournalAssumption DEF Init, TypeOK
<1>2. MatchInv /\ LastLookInv
  BY DEF Init, MatchInv, LastLookInv
<1>3. PresentInv /\ ToldInv
  BY DEF Init, PresentInv, ToldInv
<1> QED BY <1>1, <1>2, <1>3 DEF IInv

LEMMA StepInv == IInv /\ [Next]_vars => IInv'
<1> SUFFICES ASSUME IInv, [Next]_vars PROVE IInv'
  OBVIOUS
<1>1. CASE Next
  BY <1>1, SenderGood, AdminGood, WaiterGood, TrackInv DEF Next, Step
<1>2. CASE UNCHANGED vars
  <2>1. UNCHANGED <<journal, senders, admin, waits, history>>
    BY <1>2 DEF vars, state
  <2>2. TypeOK'
    BY <2>1 DEF IInv, TypeOK, journal, senders, waits, Listeners
  <2>3. MatchInv' /\ LastLookInv' /\ PresentInv' /\ ToldInv'
    BY <2>1 DEF IInv, MatchInv, LastLookInv, PresentInv, ToldInv, senders, waits, history
  <2> QED BY <2>2, <2>3 DEF IInv
<1> QED BY <1>1, <1>2

LEMMA Invariance == Spec => []IInv
BY InitIInv, StepInv, PTL DEF Spec

\* Every variable keeps its type; only listeners that are registered are told.
THEOREM TypeCorrect == Spec => []TypeOK
<1>1. IInv => TypeOK
  BY DEF IInv
<1> QED BY <1>1, Invariance, PTL

-----------------------------------------------------------------------------
(* What a wait returns.                                                    *)

\* The events of a look that finds enough, limited to as many, are enough.
LEMMA EnoughIsReturned ==
  ASSUME MatchInv, NEW w \in Waiters, NEW S \in Collected(w), NEW R \in Returned(w, S)
  PROVE  \/ Cardinality(R) = Enough(w)
         \/ R = S /\ Cardinality(S) < Enough(w)
<1>1. IsFiniteSet(S) /\ R \subseteq S
  BY CollectedTyped
<1>2. Cardinality(R) = IF Cardinality(S) < Enough(w) THEN Cardinality(S) ELSE Enough(w)
  BY DEF Returned
<1>3. Cardinality(R) = Cardinality(S) => R = S
  BY <1>1, FS_Subset
<1> QED BY <1>2, <1>3

LEMMA ShortIsJustified ==
  ASSUME IInv, Next, NEW w \in Waiters, at[w] # "done", at'[w] = "done",
         Cardinality(found'[w]) < Enough(w)
  PROVE  lasting[w] \subseteq found'[w] /\ w \notin told
<1> USE DEF IInv
<1>0. Enough(w) \in Nat
  BY MessageJournalAssumption DEF Enough
<1>1. Look(w) \/ Woken(w) \/ Elapsed(w) \/ FinalLook(w)
  <2>1. at \in [Waiters -> {"idle", "look", "register", "await", "final", "done"}]
    BY DEF TypeOK
  <2>2. ASSUME NEW e \in Events, PutEvent(e) \/ MessageReceived(e) PROVE UNCHANGED at
    BY <2>2 DEF PutEvent, MessageReceived, LinkEvent, NotifyListeners, Tell, AllTold, RemoveLast,
                DropEvent, waits
  <2>3. AdminCall => UNCHANGED at
    BY DEF AdminCall, ClearDeque, ClearEvents, RemoveLink, RemoveEvent, waits
  <2>4. PICK u \in Waiters : Begin(u) \/ Wait(u) \/ TimeIsUp(u)
    BY <2>2, <2>3 DEF Next, Step
  <2>5. ~TimeIsUp(u) /\ ~Begin(u) /\ ~Register(u)
    BY <2>1, <2>4 DEF TimeIsUp, Begin, Register, LookOrGiveUp, Does
  <2>6. u = w
    BY <2>1, <2>4, <2>5 DEF Wait, Look, Woken, Elapsed, FinalLook, LookOrGiveUp, Does
  <2> QED BY <2>4, <2>5, <2>6 DEF Wait
<1>2. found \in [Waiters -> SUBSET Matching] /\ at \in [Waiters -> {"idle", "look", "register", "await", "final", "done"}]
  BY DEF TypeOK
<1>3. ~Look(w)
  <2> SUFFICES ASSUME Look(w) PROVE FALSE
    OBVIOUS
  <2>1. PICK S \in Collected(w) :
          /\ Cardinality(S) >= Enough(w)
          /\ \E R \in Returned(w, S) : found' = [found EXCEPT ![w] = R]
    BY <1>2 DEF Look, Does
  <2>2. PICK R \in Returned(w, S) : found'[w] = R
    BY <1>2, <2>1
  <2>3. Cardinality(S) \in Nat
    BY CollectedTyped
  <2>4. Cardinality(R) = Enough(w)
    BY <1>0, <2>1, <2>3, EnoughIsReturned
  <2> QED BY <1>0, <2>2, <2>4
<1>4. ~Woken(w)
  <2> SUFFICES ASSUME Woken(w) PROVE FALSE
    OBVIOUS
  <2>1. w \in Singles /\ found'[w] = {latch[w]}
    BY <1>2 DEF Woken, LookOrGiveUp, Does
  <2>2. Cardinality({latch[w]}) = 1
    BY FS_Singleton
  <2> QED BY <2>1, <2>2 DEF Enough
<1>5. ~Elapsed(w)
  BY <1>2 DEF Elapsed, LookOrGiveUp, Does
<1>6. FinalLook(w)
  BY <1>1, <1>3, <1>4, <1>5
<1>7. PICK S \in Collected(w) : found'[w] \in Returned(w, S)
  BY <1>2, <1>6 DEF FinalLook
<1>8. found'[w] = S
  BY <1>0, <1>7, EnoughIsReturned
<1>9. lasting[w] \subseteq steady[w] /\ steady[w] \subseteq S
  BY <1>6 DEF FinalLook, LastLookInv, Collected
<1> QED BY <1>6, <1>7, <1>8, <1>9 DEF ToldInv, FinalLook

\* A wait that comes back with less than it asked for has met every event that
\* was there since its time was up, and was told of none while it awaited.
THEOREM EmptyIsAlwaysJustified == Spec => EmptyIsJustified
<1> DEFINE Justified ==
      \A w \in Waiters :
        (at[w] # "done" /\ at'[w] = "done" /\ Cardinality(found'[w]) < Enough(w)) =>
          /\ lasting[w] \subseteq found'[w]
          /\ w \notin told
<1>1. IInv /\ [Next]_vars => [Justified]_vars
  BY ShortIsJustified
<1> QED BY <1>1, Invariance, PTL DEF Spec, EmptyIsJustified
=============================================================================
