------------------------- MODULE FileObjectStoreProofs -------------------------
(***************************************************************************)
(* Proofs about KeyLocks and about FileObjectStore, for any number of      *)
(* threads, writers and calls: what the counters of the locks and the map  *)
(* entry always say, and that mutual exclusion holds until a thread slips  *)
(* in between a counter's return to 0 and the removal of the entry.  The   *)
(* store is shown to use the lock as KeyLocks says, so that all of this    *)
(* holds of it too.                                                        *)
(***************************************************************************)
EXTENDS FileObjectStore, FiniteSetTheorems, TLAPS

Holding == {"critical", "release", "unlock"}
Busy == Inside \cup Leaving

\* A thread refers to wrappers exactly while its call needs them.
Refs ==
  \A t \in Threads :
    /\ pc[t] = "idle" => mine[t] = None /\ found[t] = None
    /\ pc[t] # "idle" => mine[t] \in Wrappers
    /\ pc[t] \in {"unlock", "decrement", "remove"} => found[t] \in Wrappers
    /\ pc[t] \in Inside => found[t] = None

\* A thread in its action holds the lock it has queued for; the lock of the
\* wrapper in the map is held by such a thread or by nobody.
Holders ==
  /\ \A t \in Threads : pc[t] \in Holding => holder[mine[t]] = t
  /\ entry # None /\ holder[entry] # None =>
       pc[holder[entry]] \in Holding /\ mine[holder[entry]] = entry

\* A thread that looks up another wrapper than its own has lost its own from
\* the map, and does not hold the other one.
Lookups ==
  \A t \in Threads :
    /\ (pc[t] \in Leaving \cup {"remove"} /\ found[t] # mine[t]) => entry # mine[t]
    /\ (pc[t] = "unlock" /\ holder[found[t]] = t) => found[t] = mine[t]
    /\ pc[t] \in {"decrement", "remove"} => found[t] = mine[t]

\* A counter is never below the number of threads that use its wrapper, and
\* equals it while the wrapper is in the map.
Counts ==
  \A w \in Wrappers :
    /\ Cardinality(Users(w)) <= queue[w]
    /\ entry = w => queue[w] = Cardinality(Users(w))

IInv == TypeOK /\ Refs /\ Holders /\ Lookups /\ Counts /\ EntryIsInUse

-----------------------------------------------------------------------------
(* Counting the users of a wrapper.                                        *)

LEMMA UsersFinite ==
  \A w : IsFiniteSet(Users(w)) /\ Cardinality(Users(w)) \in Nat
<1>1. \A w : Users(w) \subseteq Threads
  BY DEF Users
<1> QED BY <1>1, WrappersAssumption, FS_Subset, FS_CardinalityType

LEMMA OneMoreUser ==
  ASSUME NEW w, NEW t, t \notin Users(w), Users(w)' = Users(w) \cup {t}
  PROVE  Cardinality(Users(w)') = Cardinality(Users(w)) + 1
BY UsersFinite, FS_AddElement

LEMMA OneUserLess ==
  ASSUME NEW w, NEW t, t \in Users(w), Users(w)' = Users(w) \ {t}
  PROVE  /\ Cardinality(Users(w)') = Cardinality(Users(w)) - 1
         /\ Cardinality(Users(w)) > 0
<1>1. Cardinality(Users(w)') = Cardinality(Users(w)) - 1
  BY UsersFinite, FS_RemoveElement
<1>2. Cardinality(Users(w)) # 0
  BY UsersFinite, FS_EmptySet
<1> QED BY <1>1, <1>2, UsersFinite

-----------------------------------------------------------------------------
(* The inductive invariant, action by action.                              *)

LEMMA InitIInv == Init => IInv
<1> SUFFICES ASSUME Init PROVE IInv
  OBVIOUS
<1>1. TypeOK /\ Refs /\ Holders /\ Lookups /\ EntryIsInUse
  BY WrappersAssumption
     DEF Init, TypeOK, Refs, Holders, Lookups, EntryIsInUse, Inside, Leaving, Holding
<1>2. \A w \in Wrappers : Users(w) = {}
  BY DEF Init, Users, Inside, Leaving
<1>3. Counts
  BY <1>2, FS_EmptySet, WrappersAssumption DEF Init, Counts
<1> QED BY <1>1, <1>3 DEF IInv

LEMMA MakeWrapperIInv ==
  ASSUME IInv, NEW t \in Threads, NEW w \in Wrappers, MakeWrapper(t, w)
  PROVE  IInv'
<1> USE WrappersAssumption DEF IInv, MakeWrapper, Goto
<1>1. TypeOK'
  BY DEF TypeOK, Inside
<1>2. /\ pc'[t] = "queued" /\ mine'[t] = w /\ found' = found
      /\ \A u \in Threads \ {t} : pc'[u] = pc[u] /\ mine'[u] = mine[u]
      /\ \A u \in Threads : mine[u] # w /\ found[u] # w
      /\ \A x \in Wrappers \ {w} : holder'[x] = holder[x] /\ queue'[x] = queue[x]
      /\ holder'[w] = None /\ queue'[w] = 1
      /\ pc[t] = "idle" /\ entry' = w
  BY DEF TypeOK, Unreferenced
<1>3. Refs'
  BY <1>2 DEF Refs, Inside
<1>4. Holders'
  BY <1>2 DEF Holders, Refs, Holding
<1>5. Lookups'
  BY <1>2 DEF Lookups, Refs, Leaving
<1>6. Users(w) = {} /\ Users(w)' = {t}
  BY <1>2 DEF Users, Inside
<1>7. \A x \in Wrappers \ {w} : Users(x)' = Users(x)
  BY <1>2 DEF Users, Inside, Leaving
<1>8. Counts'
  <2>1. Cardinality(Users(w)') = 1
    BY <1>6, FS_Singleton
  <2> QED BY <1>2, <1>7, <2>1 DEF Counts
<1>9. EntryIsInUse'
  BY <1>2, <1>6 DEF EntryIsInUse
<1> QED BY <1>1, <1>3, <1>4, <1>5, <1>8, <1>9

LEMMA JoinQueueIInv ==
  ASSUME IInv, NEW t \in Threads, JoinQueue(t)
  PROVE  IInv'
<1> USE WrappersAssumption DEF IInv, JoinQueue, Goto
<1>1. TypeOK'
  BY DEF TypeOK, Inside
<1>2. /\ pc'[t] = "queued" /\ mine'[t] = entry /\ pc[t] = "idle"
      /\ \A u \in Threads \ {t} : pc'[u] = pc[u] /\ mine'[u] = mine[u]
      /\ \A x \in Wrappers \ {entry} : queue'[x] = queue[x]
      /\ queue'[entry] = queue[entry] + 1
      /\ entry \in Wrappers /\ queue[entry] \in Nat
      /\ UNCHANGED <<entry, holder, found>>
  BY DEF TypeOK
<1>3. Refs'
  BY <1>2 DEF Refs, Inside
<1>4. Holders'
  BY <1>2 DEF Holders, Refs, Holding, TypeOK
<1>5. Lookups'
  BY <1>2 DEF Lookups, Refs, Leaving
<1>6. t \notin Users(entry) /\ Users(entry)' = Users(entry) \cup {t}
  BY <1>2 DEF Users, Inside, Leaving
<1>7. \A x \in Wrappers \ {entry} : Users(x)' = Users(x)
  BY <1>2 DEF Users, Inside, Leaving, Refs
<1>8. Counts'
  <2>1. Cardinality(Users(entry)') = Cardinality(Users(entry)) + 1
    BY <1>6, OneMoreUser
  <2> QED BY <1>2, <1>7, <2>1, UsersFinite DEF Counts
<1>9. EntryIsInUse'
  BY <1>2, <1>6 DEF EntryIsInUse
<1> QED BY <1>1, <1>3, <1>4, <1>5, <1>8, <1>9

\* Steps that neither add to nor take from the users of a wrapper.
LEMMA SameUsers ==
  ASSUME TypeOK, NEW t \in Threads, UNCHANGED <<queue, entry, mine>>, pc[t] \in Busy, pc'[t] \in Busy,
         \A u \in Threads \ {t} : pc'[u] = pc[u],
         Counts, EntryIsInUse, \A u \in Threads \ {t} : found'[u] = found[u]
  PROVE  Counts' /\ EntryIsInUse'
<1>1. \A w : Users(w)' = Users(w)
  BY DEF Users, Busy
<1>2. Counts'
  BY <1>1 DEF Counts
<1>3. EntryIsInUse'
  BY <1>1 DEF EntryIsInUse, Busy, Inside, Leaving
<1> QED BY <1>2, <1>3

LEMMA AcquireIInv ==
  ASSUME IInv, NEW t \in Threads, Acquire(t)
  PROVE  IInv'
<1> USE WrappersAssumption DEF IInv, Acquire, Goto
<1>1. TypeOK'
  BY DEF TypeOK, Inside
<1>2. /\ pc[t] = "queued" /\ pc'[t] = "critical" /\ mine[t] \in Wrappers
      /\ holder[mine[t]] = None /\ holder'[mine[t]] = t
      /\ \A u \in Threads \ {t} : pc'[u] = pc[u]
      /\ \A x \in Wrappers \ {mine[t]} : holder'[x] = holder[x]
      /\ UNCHANGED <<entry, queue, mine, found>>
  BY DEF TypeOK, Refs
<1>3. Refs'
  BY <1>2 DEF Refs, Inside
<1>4. Holders'
  BY <1>2 DEF Holders, Refs, Holding, TypeOK
<1>5. Lookups'
  BY <1>2 DEF Lookups, Refs, Leaving
<1>6. Counts' /\ EntryIsInUse'
  BY <1>2, SameUsers DEF Busy, Inside
<1> QED BY <1>1, <1>3, <1>4, <1>5, <1>6

LEMMA EndActionIInv ==
  ASSUME IInv, NEW t \in Threads, EndAction(t)
  PROVE  IInv'
<1> USE WrappersAssumption DEF IInv, EndAction, Goto
<1>1. TypeOK'
  BY DEF TypeOK, Inside
<1>2. /\ pc[t] = "critical" /\ pc'[t] = "release"
      /\ \A u \in Threads \ {t} : pc'[u] = pc[u]
      /\ UNCHANGED <<entry, queue, holder, mine, found>>
  BY DEF TypeOK
<1>3. Refs'
  BY <1>2 DEF Refs, Inside
<1>4. Holders'
  BY <1>2 DEF Holders, Holding, TypeOK
<1>5. Lookups'
  BY <1>2 DEF Lookups, Leaving
<1>6. Counts' /\ EntryIsInUse'
  BY <1>2, SameUsers DEF Busy, Inside
<1> QED BY <1>1, <1>3, <1>4, <1>5, <1>6

LEMMA LookUpIInv ==
  ASSUME IInv, NEW t \in Threads, LookUp(t)
  PROVE  IInv'
<1> USE WrappersAssumption DEF IInv, LookUp, Goto
<1>1. TypeOK'
  BY DEF TypeOK, Inside, Leaving
<1>2. /\ pc[t] = "release" /\ pc'[t] = "unlock" /\ entry \in Wrappers /\ found'[t] = entry
      /\ \A u \in Threads \ {t} : pc'[u] = pc[u] /\ found'[u] = found[u]
      /\ UNCHANGED <<entry, queue, holder, mine>>
  BY DEF TypeOK
<1>3. Refs'
  BY <1>2 DEF Refs, Inside
<1>4. Holders'
  BY <1>2 DEF Holders, Holding, TypeOK
<1>5. Lookups'
  BY <1>2 DEF Lookups, Leaving, Holders
<1>6. Counts' /\ EntryIsInUse'
  BY <1>2, SameUsers DEF Busy, Inside, Leaving
<1> QED BY <1>1, <1>3, <1>4, <1>5, <1>6

LEMMA UnlockIInv ==
  ASSUME IInv, NEW t \in Threads, Unlock(t)
  PROVE  IInv'
<1> USE WrappersAssumption DEF IInv, Unlock, Goto
<1>1. TypeOK'
  BY DEF TypeOK, Inside, Leaving
<1>2. /\ pc[t] = "unlock" /\ pc'[t] = "decrement" /\ found[t] \in Wrappers
      /\ found[t] = mine[t] /\ holder'[mine[t]] = None
      /\ \A x \in Wrappers \ {mine[t]} : holder'[x] = holder[x]
      /\ \A u \in Threads \ {t} : pc'[u] = pc[u]
      /\ UNCHANGED <<entry, queue, mine, found>>
  BY DEF TypeOK, Refs, Lookups
<1>3. Refs'
  BY <1>2 DEF Refs, Inside
<1>4. Holders'
  <2>1. \A u \in Threads \ {t} : pc[u] \in Holding => mine[u] # mine[t]
    BY <1>2 DEF Holders, Holding
  <2> QED BY <1>2, <2>1 DEF Holders, Holding, TypeOK, Refs
<1>5. Lookups'
  BY <1>2 DEF Lookups, Leaving, Refs
<1>6. Counts' /\ EntryIsInUse'
  BY <1>2, SameUsers DEF Busy, Leaving
<1> QED BY <1>1, <1>3, <1>4, <1>5, <1>6

\* A call that ends in an exception takes its thread from the users of a
\* wrapper that is not in the map any more.
LEMMA FailIInv ==
  ASSUME IInv, NEW t \in Threads, LookUpFails(t) \/ UnlockFails(t)
  PROVE  IInv'
<1> USE WrappersAssumption DEF IInv
<1>0. PICK w : w = mine[t]
  OBVIOUS
<1>1. TypeOK'
  BY DEF TypeOK, LookUpFails, UnlockFails, Forget, Goto
<1>2. /\ pc[t] \in {"release", "unlock"} /\ mine[t] = w /\ w \in Wrappers
      /\ pc'[t] = "idle" /\ mine'[t] = None /\ found'[t] = None
      /\ \A u \in Threads \ {t} :
           pc'[u] = pc[u] /\ mine'[u] = mine[u] /\ found'[u] = found[u]
      /\ UNCHANGED <<entry, queue, holder>>
  BY <1>0 DEF TypeOK, Refs, LookUpFails, UnlockFails, Forget, Goto
<1>3. entry # w
  <2>1. CASE LookUpFails(t)
    BY <1>2, <2>1 DEF LookUpFails
  <2>2. CASE UnlockFails(t)
    <3>1. pc[t] = "unlock" /\ holder[found[t]] # t
      BY <2>2 DEF UnlockFails
    <3>2. found[t] # mine[t]
      BY <3>1 DEF Holders, Holding
    <3> QED BY <1>0, <3>1, <3>2 DEF Lookups, Leaving
  <2> QED BY <2>1, <2>2
<1>4. Refs'
  BY <1>2 DEF Refs
<1>5. Holders'
  <2>1. entry # None /\ holder[entry] # None => holder[entry] # t
    BY <1>2, <1>3 DEF Holders
  <2> QED BY <1>2, <2>1 DEF Holders, Holding, TypeOK
<1>6. Lookups'
  BY <1>2 DEF Lookups, Leaving
<1>7. t \in Users(w) /\ Users(w)' = Users(w) \ {t}
  BY <1>2 DEF Users, Inside, Leaving
<1>8. \A x \in Wrappers \ {w} : Users(x)' = Users(x)
  BY <1>2 DEF Users, Inside, Leaving
<1>9. Counts'
  <2>1. Cardinality(Users(w)') = Cardinality(Users(w)) - 1
    BY <1>7, OneUserLess
  <2>2. Cardinality(Users(w)') <= queue[w]
    BY <1>2, <2>1, UsersFinite DEF Counts, TypeOK
  <2> QED BY <1>2, <1>3, <1>8, <2>2 DEF Counts
<1>10. EntryIsInUse'
  <2>1. entry # None => Users(entry)' = Users(entry)
    BY <1>2, <1>3, <1>8 DEF TypeOK
  <2> QED BY <1>2, <2>1 DEF EntryIsInUse
<1> QED BY <1>1, <1>4, <1>5, <1>6, <1>9, <1>10

\* The thread whose decrement brings the counter to 0 is the one that will
\* remove the entry; otherwise another user remains.
LEMMA DecrementIInv ==
  ASSUME IInv, NEW t \in Threads, Decrement(t)
  PROVE  IInv'
<1> USE WrappersAssumption DEF IInv
<1>0. PICK w : w = mine[t]
  OBVIOUS
<1>1. /\ pc[t] = "decrement" /\ mine[t] = w /\ found[t] = w /\ w \in Wrappers /\ queue[w] \in Nat
      /\ pc'[t] = IF queue[w] = 1 THEN "remove" ELSE "idle"
      /\ mine'[t] = (IF queue[w] = 1 THEN w ELSE None)
      /\ found'[t] = (IF queue[w] = 1 THEN w ELSE None)
      /\ queue'[w] = queue[w] - 1
      /\ \A x \in Wrappers \ {w} : queue'[x] = queue[x]
      /\ \A u \in Threads \ {t} :
           pc'[u] = pc[u] /\ mine'[u] = mine[u] /\ found'[u] = found[u]
      /\ UNCHANGED <<entry, holder>>
  BY <1>0 DEF TypeOK, Refs, Lookups, Decrement, Forget, Goto
<1>2. t \in Users(w) /\ Users(w)' = Users(w) \ {t}
  BY <1>1 DEF Users, Inside, Leaving
<1>3. /\ Cardinality(Users(w)') = Cardinality(Users(w)) - 1
      /\ Cardinality(Users(w)) > 0
  BY <1>2, OneUserLess
<1>4. queue[w] >= 1
  BY <1>1, <1>3, UsersFinite DEF Counts
<1>5. TypeOK'
  <2>1. queue[w] - 1 \in Nat
    BY <1>1, <1>4
  <2>2. queue' = [queue EXCEPT ![w] = queue[w] - 1]
    BY <1>1 DEF Decrement, TypeOK
  <2>3. queue' \in [Wrappers -> Nat]
    BY <2>1, <2>2 DEF TypeOK
  <2> QED BY <2>3 DEF TypeOK, Decrement, Forget, Goto
<1>6. Refs'
  BY <1>1 DEF Refs, Inside
<1>7. Holders'
  BY <1>1 DEF Holders, Holding, TypeOK
<1>8. Lookups'
  BY <1>1 DEF Lookups, Leaving
<1>9. \A x \in Wrappers \ {w} : Users(x)' = Users(x)
  BY <1>1 DEF Users, Inside, Leaving
<1>10. Counts'
  <2>1. /\ Cardinality(Users(w)') <= queue'[w]
        /\ entry' = w => queue'[w] = Cardinality(Users(w)')
    BY <1>1, <1>3, UsersFinite DEF Counts
  <2> QED BY <1>1, <1>9, <2>1 DEF Counts
<1>11. EntryIsInUse'
  <2>1. CASE entry = w /\ queue[w] = 1
    BY <1>1, <2>1 DEF EntryIsInUse
  <2>2. CASE entry = w /\ queue[w] # 1
    <3>1. Cardinality(Users(w)') # 0
      BY <1>1, <1>3, <1>4, <2>2, UsersFinite DEF Counts
    <3>2. Users(w)' # {}
      BY <3>1, FS_EmptySet
    <3> QED BY <1>1, <2>2, <3>2 DEF EntryIsInUse
  <2>3. CASE entry # w
    <3>1. entry # None => Users(entry)' = Users(entry)
      BY <1>1, <1>9, <2>3 DEF TypeOK
    <3> QED BY <1>1, <2>3, <3>1 DEF EntryIsInUse
  <2> QED BY <2>1, <2>2, <2>3
<1> QED BY <1>5, <1>6, <1>7, <1>8, <1>10, <1>11

LEMMA RemoveEntryIInv ==
  ASSUME IInv, NEW t \in Threads, RemoveEntry(t)
  PROVE  IInv'
<1> USE WrappersAssumption DEF IInv
<1>1. TypeOK'
  BY DEF TypeOK, RemoveEntry, Forget, Goto
<1>2. /\ pc[t] = "remove" /\ pc'[t] = "idle" /\ mine'[t] = None /\ found'[t] = None
      /\ \A u \in Threads \ {t} :
           pc'[u] = pc[u] /\ mine'[u] = mine[u] /\ found'[u] = found[u]
      /\ UNCHANGED <<queue, holder>>
      /\ entry' = None \/ (entry' = entry /\ entry # found[t])
  BY DEF TypeOK, RemoveEntry, Forget, Goto
<1>3. Refs'
  BY <1>2 DEF Refs
<1>4. Holders'
  BY <1>2 DEF Holders, Holding, TypeOK
<1>5. Lookups'
  BY <1>2 DEF Lookups, Leaving, Refs
<1>6. \A w \in Wrappers : Users(w)' = Users(w)
  BY <1>2 DEF Users, Inside, Leaving
<1>7. Counts'
  BY <1>2, <1>6 DEF Counts
<1>8. EntryIsInUse'
  <2>1. CASE entry' = None
    BY <2>1 DEF EntryIsInUse
  <2>2. CASE entry' = entry /\ entry # found[t] /\ entry # None
    <3>1. Users(entry)' = Users(entry)
      BY <1>6, <2>2 DEF TypeOK
    <3> QED BY <1>2, <2>2, <3>1 DEF EntryIsInUse
  <2> QED BY <1>2, <2>1, <2>2
<1> QED BY <1>1, <1>3, <1>4, <1>5, <1>7, <1>8

LEMMA StepIInv == IInv /\ [Next]_vars => IInv'
<1> SUFFICES ASSUME IInv, [Next]_vars PROVE IInv'
  OBVIOUS
<1>1. ASSUME NEW t \in Threads, Enter(t) PROVE IInv'
  BY <1>1, MakeWrapperIInv, JoinQueueIInv DEF Enter
<1>2. ASSUME NEW t \in Threads, Acquire(t) PROVE IInv'
  BY <1>2, AcquireIInv
<1>3. ASSUME NEW t \in Threads, EndAction(t) PROVE IInv'
  BY <1>3, EndActionIInv
<1>4. ASSUME NEW t \in Threads, Leave(t) PROVE IInv'
  BY <1>4, LookUpIInv, FailIInv, UnlockIInv, DecrementIInv, RemoveEntryIInv DEF Leave
<1>5. CASE UNCHANGED vars
  BY <1>5 DEF vars, IInv, TypeOK, Refs, Holders, Lookups, Counts, EntryIsInUse, Users
<1> QED BY <1>1, <1>2, <1>3, <1>4, <1>5 DEF Next

\* Whatever threads are under way in withLock, and whichever calls fail, each is
\* at a wrapper it may hold, and wrappers count their users exactly.
THEOREM Invariant == Spec => []IInv
BY InitIInv, StepIInv, PTL DEF Spec

\* Every variable keeps its type; in particular no counter goes below zero.
THEOREM TypeCorrect == Spec => []TypeOK
<1>1. IInv => TypeOK
  BY DEF IInv
<1> QED BY <1>1, Invariant, PTL

\* The counter of the wrapper in the map is exact, even when calls fail.
THEOREM CountIsExact == Spec => []EntryCountIsExact
<1>1. IInv => EntryCountIsExact
  BY DEF IInv, TypeOK, Counts, EntryCountIsExact
<1> QED BY <1>1, Invariant, PTL

\* The map does not keep a wrapper that nobody uses.
THEOREM MapDoesNotLeak == Spec => []EntryIsInUse
<1>1. IInv => EntryIsInUse
  BY DEF IInv
<1> QED BY <1>1, Invariant, PTL

-----------------------------------------------------------------------------
(* Until a thread slips into the gap.                                      *)

\* Every thread in withLock uses the wrapper in the map; the thread about to
\* remove it is alone; and no unlock has failed.
Undisturbed ==
  /\ \A t \in Threads : pc[t] \in Busy => mine[t] = entry
  /\ \A t \in Threads : pc[t] = "remove" =>
       /\ entry = found[t]
       /\ \A u \in Threads \ {t} : pc[u] = "idle"
  /\ failed = {}

CalmInv == ~slipped => Undisturbed

\* The counter of a wrapper that is about to be removed is at 0.
LEMMA RemoverIsAlone ==
  ASSUME IInv, Undisturbed, NEW t \in Threads, pc[t] = "remove"
  PROVE  entry \in Wrappers /\ queue[entry] = 0
<1>1. entry \in Wrappers
  BY DEF Undisturbed, IInv, Refs
<1>2. Users(entry) = {}
  BY DEF Undisturbed, Users, Inside, Leaving
<1> QED BY <1>1, <1>2, FS_EmptySet DEF IInv, Counts

LEMMA CalmStepInv == IInv /\ CalmInv /\ [Next]_vars => CalmInv'
<1> SUFFICES ASSUME IInv, CalmInv, [Next]_vars, ~slipped' PROVE Undisturbed'
  BY DEF CalmInv
<1>a. ASSUME UNCHANGED slipped PROVE ~slipped /\ Undisturbed
  BY <1>a DEF CalmInv
<1>b. ASSUME NEW t \in Threads, JoinQueue(t) PROVE ~slipped /\ Undisturbed
  BY <1>b DEF CalmInv, JoinQueue
<1>c. UNCHANGED slipped \/ \E t \in Threads : JoinQueue(t)
  BY DEF Next, vars, Enter, MakeWrapper, Acquire, EndAction,
         Leave, LookUp, LookUpFails, Unlock, UnlockFails, Decrement, RemoveEntry
<1>0. ~slipped /\ Undisturbed
  BY <1>a, <1>b, <1>c
<1> USE <1>0 DEF Undisturbed, Busy
<1>1. ASSUME NEW t \in Threads, Enter(t) PROVE Undisturbed'
  <2>2. CASE JoinQueue(t)
    <3>1. \A u \in Threads : pc[u] # "remove"
      BY <2>2, RemoverIsAlone DEF JoinQueue
    <3> QED BY <3>1, <2>2 DEF IInv, TypeOK, JoinQueue, Goto
  <2>3. ASSUME NEW w \in Wrappers, MakeWrapper(t, w) PROVE Undisturbed'
    <3>1. \A u \in Threads : pc[u] # "remove"
      BY <2>3, RemoverIsAlone, WrappersAssumption DEF MakeWrapper
    <3>2. \A u \in Threads : pc[u] = "idle"
      BY <3>1, <2>3, WrappersAssumption DEF IInv, TypeOK, Refs, MakeWrapper, Inside, Leaving
    <3> QED BY <2>3, <3>2 DEF IInv, TypeOK, MakeWrapper, Goto, Inside, Leaving
  <2> QED BY <1>1, <2>2, <2>3 DEF Enter
<1>2. ASSUME NEW t \in Threads, Acquire(t) \/ EndAction(t) \/ LookUp(t) \/ Unlock(t)
      PROVE  Undisturbed'
  <2>1. /\ pc[t] \in Busy /\ pc'[t] \in Busy
        /\ \A u \in Threads \ {t} : pc'[u] = pc[u] /\ found'[u] = found[u]
        /\ UNCHANGED <<entry, mine, failed>>
    BY <1>2 DEF IInv, TypeOK, Acquire, EndAction, LookUp, Unlock, Goto, Inside, Leaving
  <2> QED BY <2>1 DEF Inside, Leaving
<1>3. ASSUME NEW t \in Threads, LookUpFails(t) PROVE FALSE
  <2>1. mine[t] = entry /\ mine[t] \in Wrappers /\ entry = None
    BY <1>3 DEF IInv, Refs, LookUpFails, Inside
  <2> QED BY <2>1, WrappersAssumption
<1>4. ASSUME NEW t \in Threads, UnlockFails(t) PROVE FALSE
  <2>1. pc[t] = "unlock" /\ holder[found[t]] # t /\ mine[t] = entry
    BY <1>4 DEF UnlockFails, Leaving
  <2>2. found[t] = mine[t]
    BY <2>1 DEF IInv, Lookups, Leaving
  <2> QED BY <2>1, <2>2 DEF IInv, Holders, Holding
<1>5. ASSUME NEW t \in Threads, Decrement(t) PROVE Undisturbed'
  <2>1. /\ pc[t] = "decrement" /\ mine[t] = entry /\ found[t] = entry /\ entry \in Wrappers
    BY <1>5 DEF IInv, Lookups, Refs, Decrement, Leaving
  <2>2. \A u \in Threads : pc[u] # "remove"
    BY <2>1
  <2>3. CASE queue[entry] = 1
    <3>1. Cardinality(Users(entry)) = 1 /\ t \in Users(entry)
      BY <2>1, <2>3 DEF IInv, Counts, Users, Leaving
    <3>2. Users(entry) = {t}
      <4>1. PICK x : Users(entry) = {x}
        BY <3>1, UsersFinite, FS_Singleton
      <4> QED BY <3>1, <4>1
    <3>3. \A u \in Threads \ {t} : pc[u] = "idle"
      BY <2>2, <3>2 DEF Users, IInv, TypeOK
    <3> QED BY <1>5, <2>1, <2>3, <3>3 DEF IInv, TypeOK, Decrement, Goto, Inside, Leaving
  <2>4. CASE queue[entry] # 1
    BY <1>5, <2>1, <2>2, <2>4 DEF IInv, TypeOK, Decrement, Forget, Goto, Inside, Leaving
  <2> QED BY <2>3, <2>4
<1>6. ASSUME NEW t \in Threads, RemoveEntry(t) PROVE Undisturbed'
  BY <1>6 DEF IInv, TypeOK, RemoveEntry, Forget, Goto, Inside, Leaving
<1>7. CASE UNCHANGED vars
  BY <1>7 DEF vars
<1> QED BY <1>1, <1>2, <1>3, <1>4, <1>5, <1>6, <1>7 DEF Next, Leave

LEMMA CalmInvariant == Spec => [](IInv /\ CalmInv)
<1>1. Init => IInv /\ CalmInv
  BY InitIInv DEF Init, CalmInv, Undisturbed, Busy, Inside, Leaving
<1>2. (IInv /\ CalmInv) /\ [Next]_vars => (IInv /\ CalmInv)'
  BY StepIInv, CalmStepInv
<1> QED BY <1>1, <1>2, PTL DEF Spec

\* withLock excludes other threads until one has slipped into the gap between
\* the counter's return to 0 and the removal of the entry: that gap is the only
\* way in which KeyLocks loses mutual exclusion.
THEOREM MutualExclusionHolds == Spec => []MutualExclusion
<1>1. IInv /\ CalmInv => MutualExclusion
  <2> SUFFICES ASSUME IInv, CalmInv, ~slipped, NEW t \in Threads, NEW u \in Threads,
                      pc[t] = "critical", pc[u] = "critical"
               PROVE  t = u
    BY DEF MutualExclusion
  <2>1. mine[t] = entry /\ mine[u] = entry
    BY DEF CalmInv, Undisturbed, Busy, Inside
  <2> QED BY <2>1 DEF IInv, Holders, Holding
<1> QED BY <1>1, CalmInvariant, PTL

\* Nor does any call end in an exception of unlock until then.
THEOREM UnlockSucceedsHolds == Spec => []UnlockSucceeds
<1>1. IInv /\ CalmInv => UnlockSucceeds
  BY DEF CalmInv, Undisturbed, UnlockSucceeds
<1> QED BY <1>1, CalmInvariant, PTL

-----------------------------------------------------------------------------
(* The file store                                                          *)

\* Every step of the store is a step of KeyLocks, or leaves the lock alone.
LEMMA StoreStepLocks == [StoreNext]_storeVars => [Next]_vars
<1> SUFFICES ASSUME [StoreNext]_storeVars PROVE [Next]_vars
  OBVIOUS
<1>1. CASE UNCHANGED storeVars
  BY <1>1 DEF storeVars
<1>2. ASSUME NEW t \in Threads, EnterCompute(t) \/ Compute(t)
      PROVE  [Next]_vars
  <2>1. CASE EnterCompute(t)
    BY <2>1 DEF EnterCompute, Next
  <2>2. CASE Get(t)
    BY <2>2 DEF Get, Does
  <2>3. CASE FunctionThrows(t) \/ OpenFile(t) \/ WriteFile(t)
    BY <2>3 DEF FunctionThrows, OpenFile, WriteFile, Does
  <2>4. CASE LeaveCompute(t)
    BY <2>4 DEF LeaveCompute, Next
  <2> QED BY <1>2, <2>1, <2>2, <2>3, <2>4 DEF Compute
<1>3. ASSUME NEW w \in Writers, Write(w)
      PROVE  [Next]_vars
  BY <1>3 DEF Write, PutOpens, PutWrites, Remove, Unlocked
<1> QED BY <1>1, <1>2, <1>3 DEF StoreNext

\* compute runs its function and its accesses of the file as KeyLocks.withLock
\* runs an action: what is true of the lock in KeyLocks is true in the store.
THEOREM StoreUsesLocks == StoreSpec => Spec
<1>1. StoreInit => Init
  BY DEF StoreInit
<1> QED BY <1>1, StoreStepLocks, PTL DEF StoreSpec, Spec

\* At most one thread is between its read of the file and the end of its
\* write, until one has slipped into the gap of KeyLocks.
THEOREM ComputesExclude == StoreSpec => []MutualExclusion
BY StoreUsesLocks, MutualExclusionHolds, PTL

-----------------------------------------------------------------------------
(* Types                                                                   *)

\* The types of the variables that the store adds to those of KeyLocks.
FileTypes ==
  /\ file \in Contents
  /\ step \in [Threads -> {"get", "apply", "write", "end"}]
  /\ value \in [Threads -> Nat \cup {Absent}]
  /\ calls \in [Threads \cup Writers -> 0 .. Calls]
  /\ putting \subseteq Writers
  /\ applied \in Nat
  /\ clobbered \subseteq Threads

LEMMA InitFileTypes == StoreInit => FileTypes
BY StoreAssumption DEF StoreInit, FileTypes, Contents

LEMMA StepFileTypes ==
  ASSUME FileTypes, [StoreNext]_storeVars
  PROVE  FileTypes'
<1> USE StoreAssumption DEF FileTypes, Contents
<1>1. CASE UNCHANGED storeVars
  BY <1>1 DEF storeVars, fileVars
<1>2. ASSUME NEW t \in Threads, EnterCompute(t)
      PROVE  FileTypes'
  <2>1. calls[t] + 1 \in 0 .. Calls
    BY <1>2 DEF EnterCompute
  <2> QED BY <1>2, <2>1 DEF EnterCompute
<1>3. ASSUME NEW t \in Threads, Compute(t)
      PROVE  FileTypes'
  <2>1. CASE Get(t)
    BY <2>1 DEF Get, Does
  <2>2. CASE FunctionThrows(t) \/ OpenFile(t)
    BY <2>2 DEF FunctionThrows, OpenFile, Does
  <2>3. CASE WriteFile(t)
    BY <2>3 DEF WriteFile, NewValue, Does
  <2>4. CASE LeaveCompute(t)
    BY <2>4 DEF LeaveCompute, fileVars
  <2> QED BY <1>3, <2>1, <2>2, <2>3, <2>4 DEF Compute
<1>4. ASSUME NEW w \in Writers, Write(w)
      PROVE  FileTypes'
  <2>1. CASE PutOpens(w) \/ Remove(w)
    <3>1. calls[w] + 1 \in 0 .. Calls
      BY <2>1 DEF PutOpens, Remove, Unlocked
    <3> QED BY <2>1, <3>1 DEF PutOpens, Remove, Unlocked
  <2>2. CASE PutWrites(w)
    BY <2>2 DEF PutWrites
  <2> QED BY <1>4, <2>1, <2>2 DEF Write
<1> QED BY <1>1, <1>2, <1>3, <1>4 DEF StoreNext

LEMMA FileTypesHold == StoreSpec => []FileTypes
<1>1. FileTypes /\ [StoreNext]_storeVars => FileTypes'
  BY StepFileTypes
<1> QED BY <1>1, InitFileTypes, PTL DEF StoreSpec

\* Every variable of the store keeps its type: get reads a value or nothing,
\* never what a torn file holds.
THEOREM StoreTypeCorrect == StoreSpec => []StoreTypeOK
<1>1. FileTypes /\ TypeOK => StoreTypeOK
  BY DEF FileTypes, StoreTypeOK
<1> QED BY <1>1, FileTypesHold, StoreUsesLocks, TypeCorrect, PTL

-----------------------------------------------------------------------------
(* What a compute has read                                                 *)

\* A thread that waits for the lock has its compute before it.
WaitsFirst == \A t \in Threads : pc[t] = "queued" => step[t] = "get"

\* A thread about to apply its function has read what the file still holds.
ReadIsCurrent ==
  ~slipped =>
    \A t \in Threads :
      (pc[t] = "critical" /\ step[t] = "apply" /\ t \notin clobbered) => file = value[t]

LEMMA InitReads == StoreInit => WaitsFirst /\ ReadIsCurrent
BY DEF StoreInit, Init, WaitsFirst, ReadIsCurrent

LEMMA SlippedStays ==
  ASSUME TypeOK, [Next]_vars, ~slipped'
  PROVE  ~slipped
<1>1. slipped \in BOOLEAN
  BY DEF TypeOK
<1> QED
  BY <1>1 DEF Next, vars, Enter, MakeWrapper, JoinQueue, Acquire, EndAction, Leave,
     LookUp, LookUpFails, Unlock, UnlockFails, Decrement, RemoveEntry

\* Only Acquire makes a thread critical, and only Enter makes it wait.
LEMMA LockSteps ==
  ASSUME TypeOK, NEW t \in Threads, NEW u \in Threads, Acquire(u) \/ EndAction(u) \/ Leave(u)
  PROVE  /\ pc'[t] = "queued" => pc[t] = "queued"
         /\ pc'[t] = "critical" => pc[t] = "critical" \/ pc[t] = "queued"
BY DEF TypeOK, Acquire, EndAction, Leave, LookUp, LookUpFails, Unlock, UnlockFails,
   Decrement, RemoveEntry, Forget, Goto

LEMMA StepWaitsFirst ==
  ASSUME TypeOK, FileTypes, WaitsFirst, [StoreNext]_storeVars
  PROVE  WaitsFirst'
<1> SUFFICES ASSUME NEW t \in Threads, pc'[t] = "queued"
             PROVE  step'[t] = "get"
  BY DEF WaitsFirst
<1>1. CASE UNCHANGED storeVars
  BY <1>1 DEF WaitsFirst, storeVars, fileVars, vars
<1>2. ASSUME NEW u \in Threads, EnterCompute(u)
      PROVE  step'[t] = "get"
  <2>1. CASE t = u
    BY <1>2, <2>1 DEF EnterCompute, FileTypes
  <2>2. CASE t # u
    <3>1. pc[t] = "queued"
      BY <1>2, <2>2 DEF EnterCompute, TypeOK, Enter, MakeWrapper, JoinQueue, Goto
    <3> QED BY <1>2, <2>2, <3>1 DEF EnterCompute, FileTypes, WaitsFirst
  <2> QED BY <2>1, <2>2
<1>3. ASSUME NEW u \in Threads, Compute(u)
      PROVE  step'[t] = "get"
  <2>1. CASE Get(u) \/ FunctionThrows(u) \/ OpenFile(u) \/ WriteFile(u)
    <3>1. pc[u] = "critical" /\ pc' = pc /\ step' = [step EXCEPT ![u] = step'[u]]
      BY <2>1 DEF Get, FunctionThrows, OpenFile, WriteFile, Does, FileTypes, vars
    <3>2. t # u
      BY <3>1
    <3> QED BY <3>1, <3>2 DEF WaitsFirst, FileTypes
  <2>2. CASE LeaveCompute(u)
    <3>1. pc[t] = "queued" /\ step' = step
      BY <2>2, LockSteps DEF LeaveCompute, fileVars
    <3> QED BY <3>1 DEF WaitsFirst
  <2> QED BY <1>3, <2>1, <2>2 DEF Compute
<1>4. ASSUME NEW w \in Writers, Write(w)
      PROVE  step'[t] = "get"
  BY <1>4 DEF Write, PutOpens, PutWrites, Remove, Unlocked, vars, WaitsFirst
<1> QED BY <1>1, <1>2, <1>3, <1>4 DEF StoreNext

LEMMA StepReadIsCurrent ==
  ASSUME TypeOK, FileTypes, MutualExclusion, WaitsFirst, ReadIsCurrent,
         [StoreNext]_storeVars
  PROVE  ReadIsCurrent'
<1> SUFFICES ASSUME ~slipped', NEW t \in Threads,
                    pc'[t] = "critical", step'[t] = "apply", t \notin clobbered'
             PROVE  file' = value'[t]
  BY DEF ReadIsCurrent
<1>1. ~slipped
  BY StoreStepLocks, SlippedStays
<1>2. CASE UNCHANGED storeVars
  BY <1>1, <1>2 DEF ReadIsCurrent, storeVars, fileVars, vars
<1>3. ASSUME NEW u \in Threads, EnterCompute(u)
      PROVE  file' = value'[t]
  <2>1. t # u
    BY <1>3 DEF EnterCompute, FileTypes
  <2>2. pc[t] = "critical" /\ step[t] = "apply"
    BY <1>3, <2>1 DEF EnterCompute, FileTypes, TypeOK, Enter, MakeWrapper, JoinQueue, Goto
  <2> QED BY <1>1, <1>3, <2>2 DEF EnterCompute, ReadIsCurrent
<1>4. ASSUME NEW u \in Threads, Compute(u)
      PROVE  file' = value'[t]
  <2>1. CASE Get(u)
    <3>1. CASE t # u
      <4>1. pc[t] = "critical" /\ step[t] = "apply" /\ t \notin clobbered
        BY <2>1, <3>1 DEF Get, Does, FileTypes, vars
      <4> QED BY <1>1, <2>1, <3>1, <4>1 DEF Get, Does, FileTypes, ReadIsCurrent
    <3>2. CASE t = u
      BY <2>1, <3>2 DEF Get, Does, FileTypes
    <3> QED BY <3>1, <3>2
  <2>2. CASE FunctionThrows(u)
    BY <1>1, <2>2 DEF FunctionThrows, Does, FileTypes, vars, ReadIsCurrent
  <2>3. CASE OpenFile(u) \/ WriteFile(u)
    <3>1. pc[u] = "critical" /\ pc[t] = "critical" /\ step'[u] # "apply"
      BY <2>3 DEF OpenFile, WriteFile, Does, FileTypes, vars
    <3>2. t = u
      BY <1>1, <3>1 DEF MutualExclusion
    <3> QED BY <3>1, <3>2
  <2>4. CASE LeaveCompute(u)
    <3>1. /\ UNCHANGED <<file, step, value, clobbered>>
          /\ pc[t] \in {"critical", "queued"}
      BY <2>4, LockSteps DEF LeaveCompute, fileVars
    <3>2. pc[t] = "critical"
      BY <3>1 DEF WaitsFirst
    <3> QED BY <1>1, <3>1, <3>2 DEF ReadIsCurrent
  <2> QED BY <1>4, <2>1, <2>2, <2>3, <2>4 DEF Compute
<1>5. ASSUME NEW w \in Writers, Write(w)
      PROVE  file' = value'[t]
  <2>1. clobbered' = Threads
    BY <1>5 DEF Write, PutOpens, PutWrites, Remove, Unlocked
  <2> QED BY <2>1
<1> QED BY <1>2, <1>3, <1>4, <1>5 DEF StoreNext

LEMMA ReadsInvariance == StoreSpec => [](WaitsFirst /\ ReadIsCurrent)
<1>1. TypeOK /\ FileTypes /\ MutualExclusion /\ WaitsFirst /\ ReadIsCurrent
        /\ [StoreNext]_storeVars => (WaitsFirst /\ ReadIsCurrent)'
  BY StepWaitsFirst, StepReadIsCurrent
<1>2. StoreSpec => []TypeOK
  BY StoreUsesLocks, TypeCorrect, PTL
<1> QED
  BY <1>1, <1>2, InitReads, FileTypesHold, ComputesExclude, PTL DEF StoreSpec

\* A compute overwrites nothing it has not read, for any number of threads,
\* writers and calls: unless an unlocked put or remove has come in between, or
\* a thread has slipped into the gap of KeyLocks.
THEOREM ComputesNeverOverlap == StoreSpec => ComputesDoNotOverlap
<1>1. ReadIsCurrent =>
        \A t \in Threads : (OpenFile(t) /\ t \notin clobbered /\ ~slipped) => file = value[t]
  BY DEF ReadIsCurrent, OpenFile, Does
<1>2. ReadIsCurrent /\ [StoreNext]_storeVars =>
        [\A t \in Threads :
           (OpenFile(t) /\ t \notin clobbered /\ ~slipped) => file = value[t]]_storeVars
  BY <1>1
<1> QED BY <1>2, ReadsInvariance, PTL DEF StoreSpec, ComputesDoNotOverlap
=============================================================================
