------------------------------ MODULE KeyLocks ------------------------------
(***************************************************************************)
(* common/KeyLocks: a lock per key, made when a first thread asks for it   *)
(* and dropped when the last one leaves.  The map entry of one key and the *)
(* wrappers it has pointed to are modelled; keys do not interact.  Each    *)
(* access of the map, of a lock or of a counter is a step of its own.      *)
(***************************************************************************)
EXTENDS Naturals, FiniteSets

CONSTANTS
  Threads,
  Wrappers,     \* LockWrapper objects; one nobody refers to may be made anew
  None

ASSUME WrappersAssumption ==
  /\ None \notin Threads \cup Wrappers
  /\ IsFiniteSet(Threads)

VARIABLES
  entry,   \* the map's LockWrapper for the key, or None
  queue,   \* LockWrapper.numberOfThreadsInQueue
  holder,  \* the thread that holds LockWrapper.lock, or None
  pc,      \* where each thread is in withLock
  mine,    \* the wrapper compute gave the thread, which it queues for
  found,   \* the wrapper locks.get gave it, which it unlocks
  failed,  \* threads one of whose calls ended in an exception of unlock
  slipped  \* history: some thread has joined the queue of a wrapper whose
           \* counter was back at 0, before its entry was removed

vars == <<entry, queue, holder, pc, mine, found, failed, slipped>>

Inside == {"queued", "critical", "release"}
Leaving == {"unlock", "decrement"}

TypeOK ==
  /\ entry \in Wrappers \cup {None}
  /\ queue \in [Wrappers -> Nat]
  /\ holder \in [Wrappers -> Threads \cup {None}]
  /\ pc \in [Threads -> Inside \cup Leaving \cup {"idle", "remove"}]
  /\ mine \in [Threads -> Wrappers \cup {None}]
  /\ found \in [Threads -> Wrappers \cup {None}]
  /\ failed \subseteq Threads
  /\ slipped \in BOOLEAN

Init ==
  /\ entry = None
  /\ queue = [w \in Wrappers |-> 0]
  /\ holder = [w \in Wrappers |-> None]
  /\ pc = [t \in Threads |-> "idle"]
  /\ mine = [t \in Threads |-> None]
  /\ found = [t \in Threads |-> None]
  /\ failed = {}
  /\ slipped = FALSE

Goto(t, label) == pc' = [pc EXCEPT ![t] = label]

-----------------------------------------------------------------------------
(* lock: locks.compute is atomic for the key, lockWrapper.lock.lock() may   *)
(* have to wait.                                                           *)

\* A LockWrapper that is not in the map and that no thread refers to.
Unreferenced(w) ==
  /\ w # entry
  /\ \A u \in Threads : mine[u] # w /\ found[u] # w

\* Mutant: the maker of a wrapper is not counted.
MakeUncounted(t, w) ==
  /\ pc[t] = "idle"
  /\ entry = None
  /\ Unreferenced(w)
  /\ entry' = w
  /\ queue' = [queue EXCEPT ![w] = 0]
  /\ holder' = [holder EXCEPT ![w] = None]
  /\ mine' = [mine EXCEPT ![t] = w]
  /\ Goto(t, "queued")
  /\ UNCHANGED <<found, failed, slipped>>

\* numberOfThreadsInQueue starts at 1: its maker is in the queue.
MakeWrapper(t, w) ==
  /\ pc[t] = "idle"
  /\ entry = None
  /\ Unreferenced(w)
  /\ entry' = w
  /\ queue' = [queue EXCEPT ![w] = 1]
  /\ holder' = [holder EXCEPT ![w] = None]
  /\ mine' = [mine EXCEPT ![t] = w]
  /\ Goto(t, "queued")
  /\ UNCHANGED <<found, failed, slipped>>

\* Mutant: only the maker of a wrapper is counted.
JoinUncounted(t) ==
  /\ pc[t] = "idle"
  /\ entry # None
  /\ mine' = [mine EXCEPT ![t] = entry]
  /\ Goto(t, "queued")
  /\ UNCHANGED <<entry, queue, holder, found, failed, slipped>>

JoinQueue(t) ==
  /\ pc[t] = "idle"
  /\ entry # None
  /\ queue' = [queue EXCEPT ![entry] = @ + 1]
  /\ mine' = [mine EXCEPT ![t] = entry]
  /\ Goto(t, "queued")
  /\ slipped' = (slipped \/ queue[entry] = 0)
  /\ UNCHANGED <<entry, holder, found, failed>>

\* Mutant: a lock that is not waited for.
AcquireAnyway(t) ==
  /\ pc[t] = "queued"
  /\ holder' = [holder EXCEPT ![mine[t]] = t]
  /\ Goto(t, "critical")
  /\ UNCHANGED <<entry, queue, mine, found, failed, slipped>>

Acquire(t) ==
  /\ pc[t] = "queued"
  /\ holder[mine[t]] = None
  /\ holder' = [holder EXCEPT ![mine[t]] = t]
  /\ Goto(t, "critical")
  /\ UNCHANGED <<entry, queue, mine, found, failed, slipped>>

\* The action ends, normally or not: unlock runs in the finally block.
EndAction(t) ==
  /\ pc[t] = "critical"
  /\ Goto(t, "release")
  /\ UNCHANGED <<entry, queue, holder, mine, found, failed, slipped>>

-----------------------------------------------------------------------------
(* unlock: locks.get, lock.unlock, removeThreadFromQueue, locks.remove.     *)

\* The thread's references go with the end of its call.
Forget(t) ==
  /\ mine' = [mine EXCEPT ![t] = None]
  /\ found' = [found EXCEPT ![t] = None]
  /\ Goto(t, "idle")

\* The wrapper is looked up anew, and may not be the one that was locked.
LookUp(t) ==
  /\ pc[t] = "release"
  /\ entry # None
  /\ found' = [found EXCEPT ![t] = entry]
  /\ Goto(t, "unlock")
  /\ UNCHANGED <<entry, queue, holder, mine, failed, slipped>>

\* NullPointerException: no entry any more.  What was locked stays locked.
LookUpFails(t) ==
  /\ pc[t] = "release"
  /\ entry = None
  /\ Forget(t)
  /\ failed' = failed \cup {t}
  /\ UNCHANGED <<entry, queue, holder, slipped>>

Unlock(t) ==
  /\ pc[t] = "unlock"
  /\ holder[found[t]] = t
  /\ holder' = [holder EXCEPT ![found[t]] = None]
  /\ Goto(t, "decrement")
  /\ UNCHANGED <<entry, queue, mine, found, failed, slipped>>

\* IllegalMonitorStateException: the lock found is not the thread's.
UnlockFails(t) ==
  /\ pc[t] = "unlock"
  /\ holder[found[t]] # t
  /\ Forget(t)
  /\ failed' = failed \cup {t}
  /\ UNCHANGED <<entry, queue, holder, slipped>>

\* Mutants: the counter is compared with the wrong number.
DecrementKeeping(t) ==
  /\ pc[t] = "decrement"
  /\ queue' = [queue EXCEPT ![found[t]] = @ - 1]
  /\ Forget(t)
  /\ UNCHANGED <<entry, holder, failed, slipped>>
DecrementEarly(t) ==
  /\ pc[t] = "decrement"
  /\ queue' = [queue EXCEPT ![found[t]] = @ - 1]
  /\ IF queue[found[t]] <= 2
     THEN Goto(t, "remove") /\ UNCHANGED <<mine, found>>
     ELSE Forget(t)
  /\ UNCHANGED <<entry, holder, failed, slipped>>

Decrement(t) ==
  /\ pc[t] = "decrement"
  /\ queue' = [queue EXCEPT ![found[t]] = @ - 1]
  /\ IF queue[found[t]] = 1
     THEN Goto(t, "remove") /\ UNCHANGED <<mine, found>>
     ELSE Forget(t)
  /\ UNCHANGED <<entry, holder, failed, slipped>>

\* locks.remove(key, lockWrapper) removes the entry only if it is this one.
RemoveEntry(t) ==
  /\ pc[t] = "remove"
  /\ entry' = IF entry = found[t] THEN None ELSE entry
  /\ Forget(t)
  /\ UNCHANGED <<queue, holder, failed, slipped>>

-----------------------------------------------------------------------------

Enter(t) == JoinQueue(t) \/ \E w \in Wrappers : MakeWrapper(t, w)

Leave(t) ==
  \/ LookUp(t) \/ LookUpFails(t)
  \/ Unlock(t) \/ UnlockFails(t)
  \/ Decrement(t) \/ RemoveEntry(t)

Next == \E t \in Threads : Enter(t) \/ Acquire(t) \/ EndAction(t) \/ Leave(t)

Spec == Init /\ [][Next]_vars

-----------------------------------------------------------------------------
(* Properties                                                              *)

\* Threads counted in a wrapper's queue.
Users(w) == {t \in Threads : pc[t] \in Inside \cup Leaving /\ mine[t] = w}

\* The counter of the wrapper in the map is the number of threads that use
\* it, so it never lets go of a lock that has been asked for, or keeps one
\* that has not.
EntryCountIsExact == entry # None => queue[entry] = Cardinality(Users(entry))

\* No wrapper stays in the map when nobody uses it: the map does not leak.
EntryIsInUse ==
  entry # None =>
    \/ Users(entry) # {}
    \/ \E t \in Threads : pc[t] = "remove" /\ found[t] = entry

\* withLock: at most one thread runs an action under the key, as long as no
\* thread has slipped in between the counter's return to 0 and the removal of
\* the entry, which unlock does in two steps.
MutualExclusion ==
  ~slipped =>
    \A t, u \in Threads : (pc[t] = "critical" /\ pc[u] = "critical") => t = u

\* Every thread finds in the map the lock it has locked, and unlocks it; with
\* the same exception.
UnlockSucceeds == ~slipped => failed = {}
=============================================================================
