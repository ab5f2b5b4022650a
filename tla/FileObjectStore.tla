--------------------------- MODULE FileObjectStore ---------------------------
(***************************************************************************)
(* store/files/FileSourceJsonObjectStore: one value per key in a file of   *)
(* its own.  compute reads and writes the file under the key's lock of     *)
(* KeyLocks; put, remove, clear and get do not take the lock.  One key's   *)
(* file is modelled, holding a number; compute's function adds one to it.  *)
(***************************************************************************)
EXTENDS KeyLocks

CONSTANTS
  Writers,  \* threads that call put, remove or clear
  Calls,    \* bound: computes per thread, and calls per writer
  Absent,   \* there is no file
  Torn      \* the file has been opened for writing and has not its contents yet

ASSUME StoreAssumption == Calls \in Nat /\ {Absent, Torn} \cap Nat = {}

VARIABLES
  file,      \* the contents of the key's file
  step,      \* where a thread is in the action compute runs under the lock
  value,     \* what its get has read
  calls,     \* computes begun by each thread, calls begun by each writer
  putting,   \* writers between the opening of the file and its contents
  applied,   \* history: values compute has put since the last put or remove
  clobbered  \* history: threads whose read value an unlocked call has undone

fileVars == <<file, step, value, calls, putting, applied, clobbered>>
storeVars == <<vars, fileVars>>

Contents == Nat \cup {Absent, Torn}

StoreTypeOK ==
  /\ TypeOK
  /\ file \in Contents
  /\ step \in [Threads -> {"get", "apply", "write", "end"}]
  /\ value \in [Threads -> Nat \cup {Absent}]
  /\ calls \in [Threads \cup Writers -> 0 .. Calls]
  /\ putting \subseteq Writers
  /\ applied \in Nat
  /\ clobbered \subseteq Threads

StoreInit ==
  /\ Init
  /\ file = Absent
  /\ step = [t \in Threads |-> "get"]
  /\ value = [t \in Threads |-> Absent]
  /\ calls = [x \in Threads \cup Writers |-> 0]
  /\ putting = {}
  /\ applied = 0
  /\ clobbered = {}

-----------------------------------------------------------------------------
(* compute: withLock(key, () -> { get; valueFunction; put })               *)

Does(t, from, to) ==
  /\ pc[t] = "critical"
  /\ step[t] = from
  /\ step' = [step EXCEPT ![t] = to]
  /\ UNCHANGED vars

EnterCompute(t) ==
  /\ calls[t] < Calls
  /\ Enter(t)
  /\ calls' = [calls EXCEPT ![t] = @ + 1]
  /\ step' = [step EXCEPT ![t] = "get"]
  /\ UNCHANGED <<file, value, putting, applied, clobbered>>

\* Mutant: what a torn file holds is taken for a value.
GetUnchecked(t) ==
  /\ Does(t, "get", "apply")
  /\ value' = [value EXCEPT ![t] = file]
  /\ clobbered' = clobbered \ {t}
  /\ UNCHANGED <<file, calls, putting, applied>>

\* A missing file is an empty Optional; a torn one is no JSON, an exception.
Get(t) ==
  /\ IF file = Torn
     THEN Does(t, "get", "end") /\ UNCHANGED value
     ELSE Does(t, "get", "apply") /\ value' = [value EXCEPT ![t] = file]
  /\ clobbered' = clobbered \ {t}
  /\ UNCHANGED <<file, calls, putting, applied>>

\* Mutant: no finally block, so what a throwing function locked stays locked.
ThrowsThrough(t) ==
  /\ pc[t] = "critical"
  /\ step[t] = "apply"
  /\ Forget(t)
  /\ UNCHANGED <<entry, queue, holder, failed, slipped, fileVars>>

\* valueFunction may throw; else put opens, that is truncates, the file ...
FunctionThrows(t) ==
  /\ Does(t, "apply", "end")
  /\ UNCHANGED <<file, value, calls, putting, applied, clobbered>>

OpenFile(t) ==
  /\ Does(t, "apply", "write")
  /\ file' = Torn
  /\ UNCHANGED <<value, calls, putting, applied, clobbered>>

\* ... and writes the function's value for what was read.
NewValue(t) == IF value[t] = Absent THEN 1 ELSE value[t] + 1

WriteFile(t) ==
  /\ Does(t, "write", "end")
  /\ file' = NewValue(t)
  /\ applied' = applied + 1
  /\ UNCHANGED <<value, calls, putting, clobbered>>

LeaveCompute(t) ==
  /\ (step[t] = "end" /\ EndAction(t)) \/ Acquire(t) \/ Leave(t)
  /\ UNCHANGED fileVars

Compute(t) ==
  \/ Get(t)
  \/ FunctionThrows(t)
  \/ OpenFile(t) \/ WriteFile(t)
  \/ LeaveCompute(t)

-----------------------------------------------------------------------------
(* put, remove and clear, which know nothing of the lock.                  *)

Unlocked(w) ==
  /\ calls[w] < Calls
  /\ w \notin putting
  /\ calls' = [calls EXCEPT ![w] = @ + 1]
  /\ applied' = 0
  /\ clobbered' = Threads
  /\ UNCHANGED <<vars, step, value>>

PutOpens(w) ==
  /\ Unlocked(w)
  /\ file' = Torn
  /\ putting' = putting \cup {w}

PutWrites(w) ==
  /\ w \in putting
  /\ file' = 0
  /\ putting' = putting \ {w}
  /\ applied' = 0
  /\ clobbered' = Threads
  /\ UNCHANGED <<vars, step, value, calls>>

Remove(w) ==
  /\ Unlocked(w)
  /\ file' = Absent
  /\ UNCHANGED putting

-----------------------------------------------------------------------------

Write(w) == PutOpens(w) \/ PutWrites(w) \/ Remove(w)

StoreNext ==
  \/ \E t \in Threads : EnterCompute(t) \/ Compute(t)
  \/ \E w \in Writers : Write(w)

StoreSpec == StoreInit /\ [][StoreNext]_storeVars

\* The JVM keeps scheduling its threads, each of which has computes to do.
FairStoreSpec ==
  StoreSpec /\ \A t \in Threads : WF_storeVars(EnterCompute(t) \/ Compute(t))

-----------------------------------------------------------------------------
(* Properties                                                              *)

\* FileSourceJsonObjectStoreTest.computeValueConcurrently: when no thread is
\* in compute, and nobody has called put or remove, the file has counted every
\* compute that put its value.
Number(c) == IF c = Absent THEN 0 ELSE c

NoLostUpdate ==
  (Writers = {} /\ \A t \in Threads : pc[t] = "idle") => Number(file) = applied

\* A compute overwrites nothing it has not read: when it opens the file for
\* its new value the file still holds what it read, unless a put, remove or
\* clear came in between, which take no lock, or a thread has slipped into the
\* gap of KeyLocks.
ComputesDoNotOverlap ==
  [][\A t \in Threads :
       (OpenFile(t) /\ t \notin clobbered /\ ~slipped) => file = value[t]]_storeVars

\* Until then every compute ends, whatever the others do and although some of
\* their functions throw.
AllComputesEnd ==
  <>[](slipped \/ \A t \in Threads : pc[t] = "idle" /\ calls[t] = Calls)
=============================================================================
