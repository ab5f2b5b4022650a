-------------------------- MODULE StubServingProofs --------------------------
(***************************************************************************)
(* Proofs about StubServing, for any number of threads, any stubs in any   *)
(* order and any scenarios: type correctness, the three invariants about   *)
(* what a concurrent scan may answer, and what calls see that do not       *)
(* overlap.                                                                *)
(***************************************************************************)
EXTENDS SerialServing, TLAPS

\* A state a scenario can be in.
Reachable(sc) == PossibleStates(sc) \cup {Started}

\* Scenarios only ever hold a state that one of their stubs mentions, or the
\* first one.
StateInv == \A sc \in Scenarios : scenarioState[sc] \in Reachable(sc)

\* A scanning thread has noted the present state among those it may see.
SeenInv ==
  \A t \in Threads : pc[t] \in {"scan", "snapshot"} => scenarioState \in seen[t]

\* What a thread has copied of the store was there while it scanned.
SnapInv ==
  \A t \in Threads, sc \in Scenarios :
    snap[t][sc] # Null =>
      /\ snap[t][sc] \in Reachable(sc)
      /\ \E v \in seen[t] : v[sc] = snap[t][sc]

\* The stub at position i cannot answer the thread's request: its pattern or
\* its state in the complete snapshot excludes it.
Excluded(t, i) ==
  Order[i] \in Matching[req[t]] =>
    ~Independent(Order[i]) /\ Taken(t) /\ ~InSnapshot(t, Order[i])

\* Everything before the thread's position has been excluded.
ScanInv ==
  \A t \in Threads :
    pc[t] \in {"scan", "snapshot"} =>
      /\ chosen[t] = Null
      /\ \A i \in 1 .. pos[t] - 1 : Excluded(t, i)

\* What the thread has chosen: a stub its snapshot allows, or nothing after
\* every stub has been excluded.
ChosenInv ==
  \A t \in Threads :
    /\ pc[t] = "idle" => chosen[t] = Null /\ pos[t] = 1 /\ snap[t] = NoSnapshot
    /\ pc[t] \in {"serve", "advance", "answered"} => chosen[t] # Null
    /\ (chosen[t] \in Stubs /\ ~Independent(chosen[t]))
         => Taken(t) /\ InSnapshot(t, chosen[t])
    /\ chosen[t] = NotConfigured => \A i \in 1 .. Len(Order) : Excluded(t, i)
    /\ pc[t] = "advance" =>
         /\ chosen[t] \in Stubs
         /\ ScenarioOf[chosen[t]] # Null
         /\ NewState[chosen[t]] # Null

IInv == TypeOK /\ StateInv /\ SeenInv /\ SnapInv /\ ScanInv /\ ChosenInv

-----------------------------------------------------------------------------
(* The states of a scenario.                                               *)

LEMMA ReachableStates ==
  ASSUME NEW sc \in Scenarios
  PROVE  /\ Reachable(sc) \subseteq States
         /\ Null \notin Reachable(sc)
         /\ Started \in Reachable(sc)
  BY StubsAssumption DEF Reachable, PossibleStates, StubsOf

LEMMA NewStateReachable ==
  ASSUME NEW s \in Stubs, ScenarioOf[s] # Null, NewState[s] # Null
  PROVE  /\ ScenarioOf[s] \in Scenarios
         /\ NewState[s] \in States
         /\ NewState[s] \in Reachable(ScenarioOf[s])
  BY StubsAssumption DEF Reachable, PossibleStates, StubsOf

\* A put keeps the store well typed and, for a reachable state, StateInv; no
\* thread loses a state it has seen, and scanning threads see the new one.
LEMMA PutLemma ==
  ASSUME TypeOK, SeenInv, NEW sc \in Scenarios, NEW st \in States, Put(sc, st)
  PROVE  /\ scenarioState' \in StateVectors
         /\ seen' \in [Threads -> SUBSET StateVectors]
         /\ \A t \in Threads : seen[t] \subseteq seen'[t]
         /\ \A t \in Threads :
              pc[t] \in {"scan", "snapshot"} => scenarioState' \in seen'[t]
         /\ (StateInv /\ st \in Reachable(sc)) => StateInv'
<1> DEFINE new == [scenarioState EXCEPT ![sc] = st]
<1>1. new \in StateVectors
  BY DEF TypeOK, StateVectors
<1>2. scenarioState' = new
  BY DEF Put
<1>3. \A t \in Threads : seen'[t] = IF pc[t] \in {"scan", "snapshot"}
                                    THEN seen[t] \cup {new} ELSE seen[t]
  BY DEF Put
<1>4. seen' \in [Threads -> SUBSET StateVectors]
  <2>1. seen' = [t \in Threads |-> IF pc[t] \in {"scan", "snapshot"}
                                   THEN seen[t] \cup {new} ELSE seen[t]]
    BY DEF Put
  <2>2. \A t \in Threads : seen[t] \subseteq StateVectors
    BY DEF TypeOK
  <2> QED BY <1>1, <2>1, <2>2
<1>5. (StateInv /\ st \in Reachable(sc)) => StateInv'
  BY <1>2 DEF TypeOK, StateVectors, StateInv, Reachable
<1> QED BY <1>1, <1>2, <1>3, <1>4, <1>5
-----------------------------------------------------------------------------
(* Type correctness.                                                       *)

LEMMA InitTypeOK == Init => TypeOK
BY StubsAssumption
   DEF Init, TypeOK, StateVectors, NoSnapshot

LEMMA BeginTypeOK ==
  ASSUME TypeOK, NEW t \in Threads, NEW r \in Requests, Begin(t, r)
  PROVE  TypeOK'
BY DEF TypeOK, Begin

LEMMA ServeTypeOK ==
  ASSUME TypeOK, SeenInv, ChosenInv, NEW t \in Threads, Serve(t)
  PROVE  TypeOK'
<1> USE StubsAssumption
<1>1. CASE SkipUnmatched(t)
  BY <1>1 DEF TypeOK, SkipUnmatched, Scanning, Pass
<1>2. CASE TakeIndependent(t)
  BY <1>2 DEF TypeOK, TakeIndependent, Scanning, Choose, Current
<1>3. CASE ForceSnapshot(t)
  BY <1>3 DEF TypeOK, ForceSnapshot, Scanning
<1>4. ASSUME NEW sc \in Scenarios, CopyScenario(t, sc)
      PROVE  TypeOK'
  <2>1. scenarioState[sc] \in States
    BY DEF TypeOK, StateVectors
  <2>2. snap' \in [Threads -> [Scenarios -> States \cup {Null}]]
    BY <1>4, <2>1 DEF TypeOK, CopyScenario
  <2> QED BY <1>4, <2>2 DEF TypeOK, CopyScenario
<1>5. CASE SnapshotTaken(t)
  BY <1>5 DEF TypeOK, SnapshotTaken
<1>6. CASE TakeInState(t)
  BY <1>6 DEF TypeOK, TakeInState, Scanning, Choose, Current
<1>7. CASE SkipOtherState(t)
  BY <1>7 DEF TypeOK, SkipOtherState, Scanning, Pass
<1>8. CASE NothingLeft(t)
  BY <1>8 DEF TypeOK, NothingLeft, Choose
<1>9. CASE ServeReads(t)
  BY <1>9 DEF TypeOK, ServeReads
<1>10. CASE ServePuts(t)
  <2> DEFINE s == chosen[t]
  <2>1. s \in Stubs /\ ScenarioOf[s] # Null /\ NewState[s] # Null
    BY <1>10 DEF ChosenInv, ServePuts
  <2>2. Put(ScenarioOf[s], NewState[s])
    BY <1>10 DEF ServePuts
  <2>3. scenarioState' \in StateVectors /\ seen' \in [Threads -> SUBSET StateVectors]
    BY <2>1, <2>2, NewStateReachable, PutLemma
  <2> QED BY <1>10, <2>3 DEF TypeOK, ServePuts
<1>11. CASE Respond(t)
  BY <1>11 DEF TypeOK, Respond, NoSnapshot
<1> QED BY <1>1, <1>2, <1>3, <1>4, <1>5, <1>6, <1>7, <1>8, <1>9, <1>10, <1>11 DEF Serve

LEMMA AdminTypeOK ==
  ASSUME TypeOK, SeenInv, NEW a \in Admins, AdminCall(a)
  PROVE  TypeOK'
<1>1. ASSUME NEW sc \in Scenarios, NEW st \in States, AdminChanges(sc, st)
      PROVE  TypeOK'
  <2>1. scenarioState' \in StateVectors /\ seen' \in [Threads -> SUBSET StateVectors]
    BY <1>1, PutLemma DEF AdminChanges
  <2> QED BY <1>1, <2>1 DEF TypeOK, AdminChanges
<1>2. ASSUME NEW sc \in Scenarios, NEW st \in States, SetSingle(a, sc, st)
      PROVE  TypeOK'
  BY <1>1, <1>2 DEF SetSingle
<1>3. ASSUME NEW sc \in Scenarios, ResetSingle(a, sc)
      PROVE  TypeOK'
  BY <1>1, <1>3, StubsAssumption DEF ResetSingle
<1>4. CASE ResetAll(a)
  BY <1>4 DEF TypeOK, ResetAll
<1>5. ASSUME NEW sc \in Scenarios, ResetNext(a, sc)
      PROVE  TypeOK'
  <2>1. scenarioState' \in StateVectors /\ seen' \in [Threads -> SUBSET StateVectors]
    BY <1>5, PutLemma, StubsAssumption DEF ResetNext
  <2> QED BY <1>5, <2>1 DEF TypeOK, ResetNext
<1> QED BY <1>2, <1>3, <1>4, <1>5 DEF AdminCall
-----------------------------------------------------------------------------
(* The invariant, one step of one thread or admin at a time.               *)

LEMMA InitIInv == Init => IInv
<1> SUFFICES ASSUME Init PROVE IInv
  OBVIOUS
<1>1. TypeOK
  BY InitTypeOK
<1>2. StateInv
  BY ReachableStates DEF Init, StateInv
<1>3. SeenInv /\ SnapInv /\ ScanInv
  BY DEF Init, SeenInv, SnapInv, ScanInv, NoSnapshot
<1>4. ChosenInv
  BY StubsAssumption DEF Init, ChosenInv
<1> QED BY <1>1, <1>2, <1>3, <1>4 DEF IInv

\* A put by a thread past its scan, or by an admin, disturbs no other part of
\* the invariant than the store: the threads' locals do not change.
LEMMA PutIInv ==
  ASSUME IInv, TypeOK', NEW sc \in Scenarios, NEW st \in Reachable(sc), Put(sc, st),
         UNCHANGED <<req, pos, snap, chosen>>,
         \A t \in Threads :
           \/ pc'[t] = pc[t]
           \/ pc[t] = "advance" /\ pc'[t] = "answered"
  PROVE  IInv'
<1>1. st \in States
  BY ReachableStates
<1>2. /\ StateInv'
      /\ \A t \in Threads : seen[t] \subseteq seen'[t]
      /\ \A t \in Threads :
           pc[t] \in {"scan", "snapshot"} => scenarioState' \in seen'[t]
  BY <1>1, PutLemma DEF IInv
<1>3. SeenInv'
  BY <1>2 DEF SeenInv
<1>4. SnapInv'
  BY <1>2 DEF IInv, SnapInv, Reachable
<1>5. ScanInv'
  BY DEF IInv, ScanInv, Excluded, Taken, InSnapshot
<1>6. ChosenInv'
  BY DEF IInv, ChosenInv, Excluded, Taken, InSnapshot
<1> QED BY <1>2, <1>3, <1>4, <1>5, <1>6 DEF IInv

\* A thread that passes a stub its request or its snapshot excludes.
LEMMA PassIInv ==
  ASSUME IInv, TypeOK', NEW t \in Threads, Scanning(t), Excluded(t, pos[t]), Pass(t)
  PROVE  IInv'
<1>1. StateInv' /\ SeenInv' /\ SnapInv'
  BY DEF IInv, Pass, StateInv, SeenInv, SnapInv, Reachable
<1>2. ScanInv'
  <2> SUFFICES ASSUME NEW u \in Threads, pc'[u] \in {"scan", "snapshot"}
               PROVE  /\ chosen'[u] = Null
                      /\ \A i \in 1 .. pos'[u] - 1 : Excluded(u, i)'
    BY DEF ScanInv
  <2>1. /\ chosen[u] = Null
        /\ \A i \in 1 .. pos[u] - 1 : Excluded(u, i)
    BY DEF IInv, ScanInv, Pass
  <2>2. \A i \in Nat : Excluded(u, i) => Excluded(u, i)'
    BY DEF Pass, Excluded, Taken, InSnapshot
  <2>3. pos'[u] = IF u = t THEN pos[u] + 1 ELSE pos[u]
    BY DEF Pass, IInv, TypeOK
  <2>4. pos[u] \in Nat
    BY StubsAssumption DEF IInv, TypeOK
  <2> QED BY <2>1, <2>2, <2>3, <2>4 DEF Pass
<1>3. ChosenInv'
  <2>1. \A u \in Threads : pc[u] = "idle" => pos'[u] = pos[u]
    BY DEF Pass, Scanning, IInv, TypeOK
  <2>2. \A u \in Threads, i \in Nat : Excluded(u, i) => Excluded(u, i)'
    BY DEF Pass, Excluded, Taken, InSnapshot
  <2> QED BY <2>1, <2>2, StubsAssumption DEF IInv, Pass, ChosenInv, Taken, InSnapshot
<1> QED BY <1>1, <1>2, <1>3 DEF IInv

\* A thread that chooses a stub its snapshot allows, or nothing after the last.
LEMMA ChooseIInv ==
  ASSUME IInv, TypeOK', NEW t \in Threads, pc[t] = "scan",
         NEW s \in Stubs \cup {NotConfigured}, Choose(t, s),
         (s \in Stubs /\ ~Independent(s)) => Taken(t) /\ InSnapshot(t, s),
         s = NotConfigured => pos[t] > Len(Order)
  PROVE  IInv'
<1>1. StateInv' /\ SeenInv' /\ SnapInv'
  BY DEF IInv, TypeOK, Choose, StateInv, SeenInv, SnapInv, Reachable
<1>2. ScanInv'
  BY DEF IInv, TypeOK, Choose, ScanInv, Excluded, Taken, InSnapshot
<1>3. ChosenInv'
  <2>1. \A u \in Threads, i \in Nat : Excluded(u, i) => Excluded(u, i)'
    BY DEF Choose, Excluded, Taken, InSnapshot
  <2>2. ASSUME s = NotConfigured
        PROVE  \A i \in 1 .. Len(Order) : Excluded(t, i)
    <3>1. \A i \in 1 .. pos[t] - 1 : Excluded(t, i)
      BY DEF IInv, ScanInv
    <3> QED BY <2>2, <3>1, StubsAssumption DEF IInv, TypeOK
  <2>3. s # Null
    BY StubsAssumption
  <2>4. ASSUME NEW u \in Threads, u # t
        PROVE  pc'[u] = pc[u] /\ chosen'[u] = chosen[u]
    BY <2>4 DEF Choose, IInv, TypeOK
  <2>5. pc'[t] = "serve" /\ chosen'[t] = s
    BY DEF Choose, IInv, TypeOK
  <2>6. ASSUME NEW u \in Threads
        PROVE  /\ Taken(u)' = Taken(u)
               /\ \A x \in Stubs : InSnapshot(u, x)' = InSnapshot(u, x)
    BY DEF Choose, Taken, InSnapshot
  <2>7. ASSUME NEW u \in Threads, u # t
        PROVE  ChosenInv!(u)'
    BY <2>1, <2>4, <2>6, <2>7 DEF IInv, ChosenInv, Choose
  <2>8. ChosenInv!(t)'
    BY <2>1, <2>2, <2>3, <2>5, <2>6
  <2> QED BY <2>7, <2>8 DEF ChosenInv
<1> QED BY <1>1, <1>2, <1>3 DEF IInv

\* The steps of a thread's locals that do not move the scan.
LEMMA LocalIInv ==
  ASSUME IInv, TypeOK', NEW t \in Threads, UNCHANGED <<scenarioState, seen, pos, req, chosen>>,
         \/ ForceSnapshot(t)
         \/ SnapshotTaken(t)
         \/ ServeReads(t)
  PROVE  IInv'
<1>1. UNCHANGED snap
  BY DEF ForceSnapshot, SnapshotTaken, ServeReads
<1>2. \A u \in Threads : pc'[u] \in {"scan", "snapshot"} => pc[u] \in {"scan", "snapshot"}
  BY DEF IInv, TypeOK, ForceSnapshot, SnapshotTaken, ServeReads, Scanning
<1>3. StateInv' /\ SeenInv' /\ SnapInv'
  BY <1>1, <1>2 DEF IInv, StateInv, SeenInv, SnapInv, Reachable
<1>4. ScanInv'
  BY <1>1, <1>2 DEF IInv, ScanInv, Excluded, Taken, InSnapshot
<1>5. ASSUME NEW u \in Threads
      PROVE  /\ pc'[u] \in {"serve", "advance", "answered"}
                  => pc[u] \in {"serve", "advance", "answered"}
             /\ pc'[u] = "idle" => pc[u] = "idle"
             /\ pc'[u] = "advance" => \/ pc[u] = "advance"
                                      \/ chosen[u] # Null /\ Advances(chosen[u])
  BY DEF IInv, TypeOK, ChosenInv, ForceSnapshot, SnapshotTaken, ServeReads, Scanning
<1>6. ChosenInv'
  BY <1>1, <1>5 DEF IInv, TypeOK, ChosenInv, Excluded, Taken, InSnapshot, Advances
<1> QED BY <1>3, <1>4, <1>6 DEF IInv

\* What the snapshot holds of a scenario is the scenario's state just now,
\* which the scanning thread has seen.
LEMMA CopyIInv ==
  ASSUME IInv, TypeOK', NEW t \in Threads, NEW sc \in Scenarios, CopyScenario(t, sc)
  PROVE  IInv'
<1>1. \A u \in Threads, x \in Scenarios :
        snap'[u][x] = IF u = t /\ x = sc THEN scenarioState[sc] ELSE snap[u][x]
  BY DEF IInv, TypeOK, CopyScenario
<1>2. StateInv' /\ SeenInv'
  BY DEF IInv, CopyScenario, StateInv, SeenInv, Reachable
<1>3. SnapInv'
  <2>1. scenarioState[sc] \in Reachable(sc) /\ scenarioState \in seen[t]
    BY DEF IInv, StateInv, SeenInv, CopyScenario
  <2> QED BY <1>1, <2>1 DEF IInv, SnapInv, CopyScenario, Reachable
<1>4. ~Taken(t)
  BY DEF CopyScenario, Taken
<1>5. \A u \in Threads, i \in Nat : Excluded(u, i) => Excluded(u, i)'
  <2>1. ASSUME NEW u \in Threads, u # t, NEW i \in Nat, Excluded(u, i)
        PROVE  Excluded(u, i)'
    <3>1. snap'[u] = snap[u]
      BY <2>1 DEF CopyScenario, IInv, TypeOK
    <3> QED BY <2>1, <3>1 DEF Excluded, Taken, InSnapshot, CopyScenario
  <2>2. ASSUME NEW i \in Nat, Excluded(t, i)
        PROVE  Excluded(t, i)'
    BY <1>4, <2>2 DEF Excluded, CopyScenario
  <2> QED BY <2>1, <2>2
<1>6. ScanInv'
  <2>1. UNCHANGED <<pc, pos, chosen>>
    BY DEF CopyScenario
  <2>2. \A u \in Threads : \A i \in 1 .. pos[u] - 1 : i \in Nat
    OBVIOUS
  <2> QED BY <1>5, <2>1, <2>2 DEF IInv, ScanInv
<1>7. ChosenInv'
  <2>1. \A u \in Threads : u # t => snap'[u] = snap[u]
    BY DEF CopyScenario, IInv, TypeOK
  <2>2. chosen[t] = Null
    BY DEF CopyScenario, IInv, ScanInv
  <2> QED BY <1>5, <2>1, <2>2, StubsAssumption
      DEF IInv, ChosenInv, CopyScenario, Taken, InSnapshot
<1> QED BY <1>2, <1>3, <1>6, <1>7 DEF IInv

\* A thread starts with nothing copied, nothing passed and nothing chosen.
LEMMA BeginIInv ==
  ASSUME IInv, NEW t \in Threads, NEW r \in Requests, Begin(t, r)
  PROVE  IInv'
<1>1. TypeOK'
  BY BeginTypeOK DEF IInv
<1>2. pos[t] = 1 /\ snap[t] = NoSnapshot /\ chosen[t] = Null
  BY DEF Begin, IInv, ChosenInv
<1>3. /\ UNCHANGED <<scenarioState, pos, snap, chosen>>
      /\ pc'[t] = "scan" /\ seen'[t] = {scenarioState}
      /\ \A u \in Threads \ {t} : /\ pc'[u] = pc[u] /\ req'[u] = req[u]
                                  /\ seen'[u] = seen[u]
  BY DEF Begin, IInv, TypeOK
<1>4. StateInv' /\ SeenInv'
  BY <1>3 DEF IInv, StateInv, SeenInv, Reachable
<1>5. SnapInv'
  <2>1. ASSUME NEW u \in Threads, u # t, NEW sc \in Scenarios
        PROVE  SnapInv!(u, sc)'
    BY <1>3, <2>1 DEF IInv, SnapInv, Reachable
  <2>2. ASSUME NEW sc \in Scenarios
        PROVE  SnapInv!(t, sc)'
    BY <1>2, <1>3 DEF NoSnapshot
  <2> QED BY <2>1, <2>2 DEF SnapInv
<1>6. \A u \in Threads \ {t}, i \in Nat : Excluded(u, i) => Excluded(u, i)'
  BY <1>3 DEF Excluded, Taken, InSnapshot
<1>7. ScanInv'
  <2>1. ASSUME NEW u \in Threads, u # t
        PROVE  ScanInv!(u)'
    BY <1>3, <1>6, <2>1 DEF IInv, ScanInv
  <2>2. ScanInv!(t)'
    BY <1>2, <1>3
  <2> QED BY <2>1, <2>2 DEF ScanInv
<1>8. ChosenInv'
  <2>1. ASSUME NEW u \in Threads, u # t
        PROVE  ChosenInv!(u)'
    BY <1>3, <1>6, <2>1 DEF IInv, ChosenInv, Taken, InSnapshot
  <2>2. ChosenInv!(t)'
    BY <1>2, <1>3, StubsAssumption
  <2> QED BY <2>1, <2>2 DEF ChosenInv
<1> QED BY <1>1, <1>4, <1>5, <1>7, <1>8 DEF IInv

\* A thread that has responded forgets all it knew of its request.
LEMMA RespondIInv ==
  ASSUME IInv, TypeOK', NEW t \in Threads, Respond(t)
  PROVE  IInv'
<1>1. /\ UNCHANGED scenarioState
      /\ pc'[t] = "idle" /\ pos'[t] = 1 /\ snap'[t] = NoSnapshot /\ chosen'[t] = Null
      /\ \A u \in Threads \ {t} :
           /\ pc'[u] = pc[u] /\ req'[u] = req[u] /\ pos'[u] = pos[u]
           /\ snap'[u] = snap[u] /\ chosen'[u] = chosen[u] /\ seen'[u] = seen[u]
  BY DEF Respond, IInv, TypeOK
<1>2. StateInv' /\ SeenInv'
  BY <1>1 DEF IInv, StateInv, SeenInv, Reachable
<1>3. SnapInv'
  <2>1. ASSUME NEW u \in Threads, u # t, NEW sc \in Scenarios
        PROVE  SnapInv!(u, sc)'
    BY <1>1, <2>1 DEF IInv, SnapInv, Reachable
  <2>2. ASSUME NEW sc \in Scenarios
        PROVE  SnapInv!(t, sc)'
    BY <1>1 DEF NoSnapshot
  <2> QED BY <2>1, <2>2 DEF SnapInv
<1>4. \A u \in Threads \ {t}, i \in Nat : Excluded(u, i) => Excluded(u, i)'
  BY <1>1 DEF Excluded, Taken, InSnapshot
<1>5. ScanInv'
  BY <1>1, <1>4 DEF IInv, ScanInv
<1>6. ChosenInv'
  <2>1. ASSUME NEW u \in Threads, u # t
        PROVE  ChosenInv!(u)'
    BY <1>1, <1>4, <2>1 DEF IInv, ChosenInv, Taken, InSnapshot
  <2>2. ChosenInv!(t)'
    BY <1>1, StubsAssumption
  <2> QED BY <2>1, <2>2 DEF ChosenInv
<1> QED BY <1>2, <1>3, <1>5, <1>6 DEF IInv

LEMMA ServeIInv ==
  ASSUME IInv, NEW t \in Threads, Serve(t)
  PROVE  IInv'
<1>0. TypeOK'
  BY ServeTypeOK DEF IInv
<1>1. CASE SkipUnmatched(t)
  BY <1>0, <1>1, PassIInv DEF SkipUnmatched, Excluded, Current
<1>2. CASE TakeIndependent(t)
  <2>1. Current(t) \in Stubs
    BY <1>2, StubsAssumption DEF TakeIndependent, Scanning, Current, IInv, TypeOK
  <2> QED BY <1>0, <1>2, <2>1, ChooseIInv, StubsAssumption DEF TakeIndependent, Scanning
<1>3. CASE ForceSnapshot(t)
  BY <1>0, <1>3, LocalIInv DEF ForceSnapshot
<1>4. ASSUME NEW sc \in Scenarios, CopyScenario(t, sc)
      PROVE  IInv'
  BY <1>0, <1>4, CopyIInv
<1>5. CASE SnapshotTaken(t)
  BY <1>0, <1>5, LocalIInv DEF SnapshotTaken
<1>6. CASE TakeInState(t)
  <2>1. Current(t) \in Stubs
    BY <1>6, StubsAssumption DEF TakeInState, Scanning, Current, IInv, TypeOK
  <2> QED BY <1>0, <1>6, <2>1, ChooseIInv, StubsAssumption DEF TakeInState, Scanning
<1>7. CASE SkipOtherState(t)
  BY <1>0, <1>7, PassIInv DEF SkipOtherState, Excluded, Current
<1>8. CASE NothingLeft(t)
  BY <1>0, <1>8, ChooseIInv, StubsAssumption DEF NothingLeft
<1>9. CASE ServeReads(t)
  BY <1>0, <1>9, LocalIInv DEF ServeReads
<1>10. CASE ServePuts(t)
  <2> DEFINE s == chosen[t]
  <2>1. s \in Stubs /\ ScenarioOf[s] # Null /\ NewState[s] # Null
    BY <1>10 DEF IInv, ChosenInv, ServePuts
  <2>2. /\ ScenarioOf[s] \in Scenarios
        /\ NewState[s] \in Reachable(ScenarioOf[s])
    BY <2>1, NewStateReachable
  <2>3. \A u \in Threads : \/ pc'[u] = pc[u]
                           \/ pc[u] = "advance" /\ pc'[u] = "answered"
    BY <1>10 DEF ServePuts, IInv, TypeOK
  <2> QED BY <1>0, <1>10, <2>2, <2>3, PutIInv DEF ServePuts
<1>11. CASE Respond(t)
  BY <1>0, <1>11, RespondIInv
<1> QED BY <1>1, <1>2, <1>3, <1>4, <1>5, <1>6, <1>7, <1>8, <1>9, <1>10, <1>11 DEF Serve

LEMMA AdminIInv ==
  ASSUME IInv, NEW a \in Admins, AdminCall(a)
  PROVE  IInv'
<1>0. TypeOK'
  BY AdminTypeOK DEF IInv
<1>1. ASSUME NEW sc \in Scenarios, NEW st \in States, SetSingle(a, sc, st)
      PROVE  IInv'
  BY <1>0, <1>1, PutIInv DEF SetSingle, AdminChanges, Reachable
<1>2. ASSUME NEW sc \in Scenarios, ResetSingle(a, sc)
      PROVE  IInv'
  BY <1>0, <1>2, PutIInv, ReachableStates DEF ResetSingle, AdminChanges
<1>3. CASE ResetAll(a)
  BY <1>0, <1>3 DEF ResetAll, IInv, StateInv, SeenInv, SnapInv, ScanInv, ChosenInv,
                    Excluded, Taken, InSnapshot, Reachable
<1>4. ASSUME NEW sc \in Scenarios, ResetNext(a, sc)
      PROVE  IInv'
  BY <1>0, <1>4, PutIInv, ReachableStates DEF ResetNext
<1> QED BY <1>1, <1>2, <1>3, <1>4 DEF AdminCall

LEMMA InvariantStep == IInv /\ [Next]_vars => IInv'
<1> SUFFICES ASSUME IInv, [Next]_vars PROVE IInv'
  OBVIOUS
<1>1. ASSUME NEW t \in Threads, NEW r \in Requests, Begin(t, r)
      PROVE  IInv'
  BY <1>1, BeginIInv
<1>2. ASSUME NEW t \in Threads, Serve(t)
      PROVE  IInv'
  BY <1>2, ServeIInv
<1>3. ASSUME NEW a \in Admins, AdminCall(a)
      PROVE  IInv'
  BY <1>3, AdminIInv
<1>4. CASE UNCHANGED vars
  BY <1>4 DEF vars, IInv, TypeOK, StateInv, SeenInv, SnapInv, ScanInv, ChosenInv,
              Excluded, Taken, InSnapshot, Reachable
<1> QED BY <1>1, <1>2, <1>3, <1>4 DEF Next

\* The inductive invariant holds in every behaviour, of any number of requests.
THEOREM Invariant == Spec => []IInv
BY InitIInv, InvariantStep, PTL DEF Spec

\* Every variable keeps its type.
THEOREM TypeCorrect == Spec => []TypeOK
<1>1. IInv => TypeOK
  BY DEF IInv
<1> QED BY <1>1, Invariant, PTL

-----------------------------------------------------------------------------
(* What follows for the answers.                                           *)

\* The scan's promise: with a stub for every state of its scenario a request
\* is answered by a stub, whatever the other threads and admins do.  The
\* complete snapshot holds a reachable state of the scenario, so the stub for
\* that state was not excluded, and the scan cannot have passed it.
THEOREM NeverUnmatchedHolds == Spec => []NeverUnmatched
<1>1. IInv => NeverUnmatched
  <2> SUFFICES ASSUME IInv, NEW t \in Threads, NEW sc \in Scenarios,
                      pc[t] # "idle", Covers(req[t], sc), chosen[t] = NotConfigured
               PROVE  FALSE
    BY DEF NeverUnmatched
  <2>1. \A i \in 1 .. Len(Order) : Excluded(t, i)
    BY DEF IInv, ChosenInv
  <2>2. PICK i \in 1 .. Len(Order) :
          /\ Order[i] \in Matching[req[t]]
          /\ ScenarioOf[Order[i]] = sc
    BY DEF Covers
  <2>3. Taken(t)
    BY <2>1, <2>2 DEF Excluded
  <2>4. snap[t][sc] \in Reachable(sc)
    BY <2>3 DEF Taken, IInv, SnapInv
  <2>5. PICK j \in 1 .. Len(Order) :
          /\ Order[j] \in Matching[req[t]]
          /\ ScenarioOf[Order[j]] = sc
          /\ Required[Order[j]] = snap[t][sc]
    BY <2>4 DEF Covers, Reachable
  <2> QED BY <2>1, <2>5 DEF Excluded, InSnapshot
<1> QED BY <1>1, Invariant, PTL

\* A stub is served only in a state its scenario had during the request.
THEOREM ServedStateWasCurrentHolds == Spec => []ServedStateWasCurrent
<1>1. IInv => ServedStateWasCurrent
  <2> SUFFICES ASSUME IInv, NEW t \in Threads,
                      chosen[t] \in Stubs, ~Independent(chosen[t])
               PROVE  \E v \in seen[t] : v[ScenarioOf[chosen[t]]] = Required[chosen[t]]
    BY DEF ServedStateWasCurrent
  <2>1. Taken(t) /\ InSnapshot(t, chosen[t])
    BY DEF IInv, ChosenInv
  <2>2. ScenarioOf[chosen[t]] \in Scenarios
    BY StubsAssumption DEF Independent
  <2> QED BY <2>1, <2>2 DEF IInv, SnapInv, Taken, InSnapshot
<1> QED BY <1>1, Invariant, PTL

\* A request is left unmatched only if its scenarios' states excluded every
\* stub that matches it at some moment of the scan.
THEOREM UnmatchedIsJustifiedHolds == Spec => []UnmatchedIsJustified
<1>1. IInv => UnmatchedIsJustified
  <2> SUFFICES ASSUME IInv, NEW t \in Threads, chosen[t] = NotConfigured,
                      NEW i \in 1 .. Len(Order), Order[i] \in Matching[req[t]]
               PROVE  /\ ~Independent(Order[i])
                      /\ \E v \in seen[t] : v[ScenarioOf[Order[i]]] # Required[Order[i]]
    BY DEF UnmatchedIsJustified
  <2>1. ~Independent(Order[i]) /\ Taken(t) /\ ~InSnapshot(t, Order[i])
    BY DEF IInv, ChosenInv, Excluded
  <2>2. ScenarioOf[Order[i]] \in Scenarios
    BY <2>1, StubsAssumption DEF Independent
  <2> QED BY <2>1, <2>2 DEF IInv, SnapInv, Taken, InSnapshot
<1> QED BY <1>1, Invariant, PTL

-----------------------------------------------------------------------------
(* Calls that do not overlap see the atomic scenario machine.              *)

\* While a thread serves a request and nothing overlaps, the scenarios are as
\* its snapshot has them.
Fresh(t) ==
  /\ \A sc \in Scenarios : snap[t][sc] \in {Null, scenarioState[sc]}
  /\ pc[t] = "advance" => Advances(chosen[t])

\* What it has chosen is the stub it has come to, all before it excluded.
ChosenAtPos(t) ==
  pc[t] \in {"serve", "advance"} /\ chosen[t] # NotConfigured =>
    /\ pos[t] <= Len(Order)
    /\ chosen[t] = Current(t)
    /\ chosen[t] \in Matching[req[t]]
    /\ \A i \in 1 .. pos[t] - 1 : Excluded(t, i)

CalmInv ==
  calm => \A t \in Threads : pc[t] \notin {"idle", "answered"} => Fresh(t) /\ ChosenAtPos(t)

\* All other threads are idle while a call steps calmly, and stay so.
LEMMA OthersIdle ==
  ASSUME IInv, NEW t \in Threads, StepOf(t), calm',
         (\E r \in Requests : Begin(t, r)) \/ Serve(t)
  PROVE  \A u \in Threads \ {t} : pc[u] = "idle" /\ pc'[u] = "idle"
<1>1. \A u \in Threads \ {t} : pc[u] = "idle"
  BY DEF StepOf, Busy
<1>2. \A u \in Threads \ {t} : pc'[u] = pc[u]
  BY DEF IInv, TypeOK, Begin, Serve, SkipUnmatched, TakeIndependent, ForceSnapshot, CopyScenario,
         SnapshotTaken, TakeInState, SkipOtherState, NothingLeft, ServeReads, ServePuts,
         Respond, Pass, Choose
<1> QED BY <1>1, <1>2

LEMMA AllIdle ==
  ASSUME NEW a \in Admins, AdminCall(a), StepOf(a), calm'
  PROVE  \A t \in Threads : pc[t] = "idle" /\ pc'[t] = "idle"
<1>1. \A t \in Threads : pc[t] = "idle"
  BY CallersAssumption DEF StepOf, Busy
<1>2. UNCHANGED pc
  BY DEF AdminCall, SetSingle, ResetSingle, ResetAll, ResetNext, AdminChanges
<1> QED BY <1>1, <1>2

\* The thread's own step.
LEMMA ServeCalmInv ==
  ASSUME IInv, CalmInv, NEW t \in Threads, Serve(t), StepOf(t), calm'
  PROVE  CalmInv'
<1>1. SUFFICES ASSUME pc'[t] \notin {"idle", "answered"}
               PROVE  Fresh(t)' /\ ChosenAtPos(t)'
  BY OthersIdle DEF CalmInv
<1>2. ~ServePuts(t) /\ ~Respond(t)
  BY <1>1 DEF ServePuts, Respond, IInv, TypeOK
<1>3. Fresh(t) /\ ChosenAtPos(t)
  <2>1. calm
    BY DEF StepOf
  <2>2. pc[t] \in {"scan", "snapshot", "serve"}
    BY <1>2 DEF Serve, Scanning, SkipUnmatched, TakeIndependent, ForceSnapshot, CopyScenario,
           SnapshotTaken, TakeInState, SkipOtherState, NothingLeft, ServeReads
  <2> QED BY <2>1, <2>2 DEF CalmInv
<1>4. UNCHANGED scenarioState
  BY <1>2 DEF Serve, SkipUnmatched, TakeIndependent, ForceSnapshot, CopyScenario,
         SnapshotTaken, TakeInState, SkipOtherState, NothingLeft, ServeReads, Pass, Choose
<1>5. Fresh(t)'
  <2>1. \A sc \in Scenarios : snap'[t][sc] \in {Null, scenarioState[sc]}
    <3>1. ASSUME NEW sc \in Scenarios, CopyScenario(t, sc)
          PROVE  \A x \in Scenarios : snap'[t][x] \in {Null, scenarioState[x]}
      BY <1>3, <3>1 DEF CopyScenario, Fresh, IInv, TypeOK
    <3>2. CASE UNCHANGED snap
      BY <1>3, <3>2 DEF Fresh
    <3> QED BY <1>2, <3>1, <3>2 DEF Serve, SkipUnmatched, TakeIndependent, ForceSnapshot,
         SnapshotTaken, TakeInState, SkipOtherState, NothingLeft, ServeReads, Pass, Choose
  <2>2. pc'[t] = "advance" => Advances(chosen[t]) /\ chosen'[t] = chosen[t]
    BY <1>2 DEF Serve, SkipUnmatched, TakeIndependent, ForceSnapshot, CopyScenario, Scanning,
         SnapshotTaken, TakeInState, SkipOtherState, NothingLeft, ServeReads, Pass, Choose,
         IInv, TypeOK
  <2> QED BY <1>4, <2>1, <2>2 DEF Fresh, Advances
<1>6. ChosenAtPos(t)'
  <2>1. CASE ServeReads(t)
    <3>1. pc[t] = "serve" /\ UNCHANGED <<req, pos, snap, chosen>>
      BY <2>1 DEF ServeReads
    <3> QED BY <1>3, <3>1 DEF ChosenAtPos, Current, Excluded, Taken, InSnapshot
  <2>2. CASE NothingLeft(t)
    BY <2>2 DEF NothingLeft, Choose, ChosenAtPos, IInv, TypeOK
  <2>3. CASE TakeIndependent(t) \/ TakeInState(t)
    <3>1. /\ pc[t] = "scan" /\ chosen'[t] = Current(t) /\ pos[t] <= Len(Order)
          /\ Current(t) \in Matching[req[t]] /\ UNCHANGED <<req, pos, snap>>
      BY <2>3 DEF TakeIndependent, TakeInState, Choose, Scanning, IInv, TypeOK
    <3>2. \A i \in 1 .. pos[t] - 1 : Excluded(t, i)
      BY <3>1 DEF IInv, ScanInv
    <3> QED BY <3>1, <3>2 DEF ChosenAtPos, Current, Excluded, Taken, InSnapshot
  <2>4. ASSUME \/ SkipUnmatched(t) \/ ForceSnapshot(t) \/ SnapshotTaken(t) \/ SkipOtherState(t)
               \/ \E sc \in Scenarios : CopyScenario(t, sc)
        PROVE  pc'[t] \in {"scan", "snapshot"}
    BY <2>4 DEF SkipUnmatched, ForceSnapshot, SnapshotTaken, SkipOtherState, CopyScenario, Pass,
                Scanning, IInv, TypeOK
  <2> QED BY <1>2, <2>1, <2>2, <2>3, <2>4 DEF Serve, ChosenAtPos
<1> QED BY <1>5, <1>6

LEMMA CalmNextInv == IInv /\ CalmInv /\ [CalmNext]_<<vars, calm>> => CalmInv'
<1> SUFFICES ASSUME IInv, CalmInv, [CalmNext]_<<vars, calm>>, calm'
             PROVE  CalmInv'
  BY DEF CalmInv
<1>1. ASSUME NEW t \in Threads, NEW r \in Requests, Begin(t, r), StepOf(t)
      PROVE  CalmInv'
  <2>1. /\ \A u \in Threads \ {t} : pc'[u] = "idle"
        /\ pc'[t] = "scan" /\ pc[t] = "idle" /\ UNCHANGED <<snap, scenarioState>>
    BY <1>1, OthersIdle DEF Begin, IInv, TypeOK
  <2>2. snap[t] = NoSnapshot
    BY <2>1 DEF IInv, ChosenInv
  <2>3. Fresh(t)' /\ ChosenAtPos(t)'
    BY <2>1, <2>2 DEF Fresh, ChosenAtPos, NoSnapshot
  <2> QED BY <2>1, <2>3 DEF CalmInv
<1>2. ASSUME NEW t \in Threads, Serve(t), StepOf(t) PROVE CalmInv'
  BY <1>2, ServeCalmInv
<1>3. ASSUME NEW a \in Admins, AdminCall(a), StepOf(a) PROVE CalmInv'
  BY <1>3, AllIdle DEF CalmInv
<1>4. ASSUME UNCHANGED <<vars, calm>> PROVE CalmInv'
  BY <1>4 DEF vars, CalmInv, Fresh, ChosenAtPos, Advances, Current, Excluded, Taken, InSnapshot
<1> QED BY <1>1, <1>2, <1>3, <1>4 DEF CalmNext

\* What an undisturbed thread has excluded the machine excludes too, and what
\* it has chosen the machine allows: the machine would answer the same.
LEMMA MachineAgrees ==
  ASSUME IInv, CalmInv, calm, NEW t \in Threads, pc[t] \in {"serve", "advance"}
  PROVE  /\ Machine!FirstStub(req[t]) = chosen[t]
         /\ Machine!Moves(chosen[t]) <=> Advances(chosen[t])
<1> DEFINE answering == Machine!Answering(req[t])
<1>1. Fresh(t) /\ ChosenAtPos(t)
  BY DEF CalmInv
<1>2. \A i \in 1 .. Len(Order) : Excluded(t, i) => i \notin answering
  <2> SUFFICES ASSUME NEW i \in 1 .. Len(Order), Excluded(t, i), Order[i] \in Matching[req[t]],
                      Machine!InState(Order[i])
               PROVE  FALSE
    BY DEF Machine!Answering
  <2>1. ~Independent(Order[i]) /\ Taken(t) /\ Required[Order[i]] # snap[t][ScenarioOf[Order[i]]]
    BY DEF Excluded, InSnapshot
  <2>2. ScenarioOf[Order[i]] \in Scenarios
    BY <2>1, StubsAssumption DEF Independent
  <2>3. snap[t][ScenarioOf[Order[i]]] = scenarioState[ScenarioOf[Order[i]]]
    BY <1>1, <2>1, <2>2 DEF Fresh, Taken
  <2> QED BY <2>1, <2>3 DEF Machine!InState, Independent
<1>3. ASSUME chosen[t] # NotConfigured
      PROVE  /\ chosen[t] \in Stubs
             /\ \/ Independent(chosen[t])
                \/ /\ ScenarioOf[chosen[t]] \in Scenarios
                   /\ Required[chosen[t]] = scenarioState[ScenarioOf[chosen[t]]]
  <2>1. chosen[t] \in Stubs
    BY <1>3 DEF IInv, TypeOK, ChosenInv
  <2>2. ASSUME ~Independent(chosen[t])
        PROVE  /\ ScenarioOf[chosen[t]] \in Scenarios
               /\ Required[chosen[t]] = scenarioState[ScenarioOf[chosen[t]]]
    <3>1. Taken(t) /\ InSnapshot(t, chosen[t])
      BY <2>1, <2>2 DEF IInv, ChosenInv
    <3>2. ScenarioOf[chosen[t]] \in Scenarios
      BY <2>1, <2>2, StubsAssumption DEF Independent
    <3> QED BY <1>1, <3>1, <3>2 DEF Fresh, Taken, InSnapshot
  <2> QED BY <2>1, <2>2
<1>4. Machine!FirstStub(req[t]) = chosen[t]
  <2>1. CASE chosen[t] = NotConfigured
    <3>1. \A i \in 1 .. Len(Order) : Excluded(t, i)
      BY <2>1 DEF IInv, ChosenInv
    <3>2. answering = {}
      BY <1>2, <3>1 DEF Machine!Answering
    <3> QED BY <2>1, <3>2 DEF Machine!FirstStub
  <2>2. CASE chosen[t] # NotConfigured
    <3>1. /\ pos[t] \in 1 .. Len(Order) /\ chosen[t] = Order[pos[t]]
          /\ chosen[t] \in Matching[req[t]]
          /\ \A i \in 1 .. pos[t] - 1 : Excluded(t, i)
      BY <1>1, <2>2, StubsAssumption DEF ChosenAtPos, Current, IInv, TypeOK
    <3>2. pos[t] \in answering
      BY <1>3, <2>2, <3>1 DEF Machine!Answering, Machine!InState, Independent
    <3>3. answering \subseteq 1 .. Len(Order) /\ Len(Order) \in Nat
      BY StubsAssumption DEF Machine!Answering
    <3>4. \A i \in answering : pos[t] <= i
      BY <1>2, <3>1, <3>3
    <3> DEFINE first == CHOOSE i \in answering : \A j \in answering : i <= j
    <3> HIDE DEF answering
    <3>5. first \in answering /\ \A j \in answering : first <= j
      BY <3>2, <3>4
    <3>6. Machine!FirstStub(req[t]) = Order[first]
      BY <3>2 DEF Machine!FirstStub, answering
    <3> HIDE DEF first
    <3>7. first = pos[t]
      BY <3>1, <3>2, <3>3, <3>4, <3>5
    <3> QED BY <3>1, <3>6, <3>7
  <2> QED BY <2>1, <2>2
<1>5. Machine!Moves(chosen[t]) <=> Advances(chosen[t])
  BY <1>3 DEF Machine!Moves, Advances, Independent
<1> QED BY <1>4, <1>5

\* The answer that the thread then has.
LEMMA AnswerStep ==
  ASSUME IInv, CalmInv, calm, NEW t \in Threads, pc[t] \in {"serve", "advance"},
         pc' = [pc EXCEPT ![t] = "answered"], UNCHANGED <<req, chosen>>,
         scenarioState' = IF Advances(chosen[t])
                          THEN [scenarioState EXCEPT ![ScenarioOf[chosen[t]]] = NewState[chosen[t]]]
                          ELSE scenarioState
  PROVE  Machine!Next
<1>1. req[t] \in Requests
  BY DEF IInv, TypeOK
<1>2. Answers[t] = Null
  BY DEF Answers
<1>3. Answers' = [Answers EXCEPT ![t] = <<req[t], chosen[t]>>]
  BY DEF Answers, IInv, TypeOK
<1>4. Machine!Answer(t, req[t])
  BY <1>2, <1>3, MachineAgrees DEF Machine!Answer
<1> QED BY <1>1, <1>4 DEF Machine!Next

LEMMA PutStep ==
  ASSUME IInv, NEW sc \in Scenarios, NEW st \in PossibleStates(sc) \cup {Started}, Put(sc, st),
         UNCHANGED <<pc, req, chosen>>
  PROVE  Machine!Next
<1>1. UNCHANGED Answers
  BY DEF Answers
<1>2. Machine!Set(sc, st)
  BY <1>1 DEF Put, PossibleStates, StubsOf, Machine!Set
<1>3. st \in {Started} \cup {Required[s] : s \in Stubs} \cup {NewState[s] : s \in Stubs}
  BY DEF PossibleStates, StubsOf
<1> QED BY <1>2, <1>3 DEF Machine!Next

\* A step that neither answers nor returns nor puts a state stutters.
LEMMA QuietStep ==
  ASSUME IInv, NEW t \in Threads, pc[t] # "answered", UNCHANGED scenarioState,
         \E l \in {"scan", "snapshot", "serve", "advance"} : pc' = [pc EXCEPT ![t] = l],
         \A u \in Threads \ {t} : req'[u] = req[u] /\ chosen'[u] = chosen[u]
  PROVE  UNCHANGED Machine!vars
<1>1. \A u \in Threads : pc'[u] = "answered" <=> pc[u] = "answered"
  BY DEF IInv, TypeOK
<1>2. \A u \in Threads : (IF pc'[u] = "answered" THEN <<req'[u], chosen'[u]>> ELSE Null)
                           = IF pc[u] = "answered" THEN <<req[u], chosen[u]>> ELSE Null
  BY <1>1
<1>3. UNCHANGED Answers
  BY <1>2 DEF Answers
<1> QED BY <1>3 DEF Machine!vars

LEMMA ServeStep ==
  ASSUME IInv, CalmInv, NEW t \in Threads, Serve(t), StepOf(t), calm'
  PROVE  [Machine!Next]_(Machine!vars)
<1>0. calm
  BY DEF StepOf
<1>1. CASE SkipUnmatched(t) \/ SkipOtherState(t)
  <2>1. UNCHANGED <<scenarioState, pc, req, chosen>>
    BY <1>1 DEF SkipUnmatched, SkipOtherState, Pass
  <2> QED BY <2>1 DEF Answers, Machine!vars
<1>2. CASE TakeIndependent(t) \/ TakeInState(t) \/ NothingLeft(t)
  <2>1. PICK s : Choose(t, s) /\ pc[t] = "scan"
    BY <1>2 DEF TakeIndependent, TakeInState, NothingLeft, Scanning
  <2>2. /\ pc[t] # "answered" /\ UNCHANGED <<scenarioState, req>>
        /\ pc' = [pc EXCEPT ![t] = "serve"] /\ \A u \in Threads \ {t} : chosen'[u] = chosen[u]
    BY <2>1 DEF Choose, IInv, TypeOK
  <2> QED BY <2>2, QuietStep
<1>3. CASE ForceSnapshot(t) \/ SnapshotTaken(t)
  <2>1. /\ pc[t] # "answered" /\ UNCHANGED <<scenarioState, req, chosen>>
        /\ \E l \in {"scan", "snapshot"} : pc' = [pc EXCEPT ![t] = l]
    BY <1>3 DEF ForceSnapshot, SnapshotTaken, Scanning
  <2> QED BY <2>1, QuietStep
<1>4. ASSUME NEW sc \in Scenarios, CopyScenario(t, sc) PROVE UNCHANGED Machine!vars
  <2>1. UNCHANGED <<scenarioState, pc, req, chosen>>
    BY <1>4 DEF CopyScenario
  <2> QED BY <2>1 DEF Answers, Machine!vars
<1>5. CASE ServeReads(t)
  <2>1. pc[t] = "serve" /\ UNCHANGED <<scenarioState, req, chosen>>
    BY <1>5 DEF ServeReads
  <2>2. CASE Advances(chosen[t])
    <3>1. pc' = [pc EXCEPT ![t] = "advance"]
      BY <1>5, <2>2 DEF ServeReads
    <3> QED BY <2>1, <3>1, QuietStep
  <2>3. CASE ~Advances(chosen[t])
    <3>1. pc' = [pc EXCEPT ![t] = "answered"]
      BY <1>5, <2>3 DEF ServeReads
    <3> QED BY <1>0, <2>1, <2>3, <3>1, AnswerStep
  <2> QED BY <2>2, <2>3
<1>6. CASE ServePuts(t)
  <2>1. /\ pc[t] = "advance" /\ UNCHANGED <<req, chosen>>
        /\ pc' = [pc EXCEPT ![t] = "answered"]
        /\ scenarioState' = [scenarioState EXCEPT ![ScenarioOf[chosen[t]]] = NewState[chosen[t]]]
    BY <1>6 DEF ServePuts, Put
  <2>2. Advances(chosen[t])
    BY <1>0, <2>1 DEF CalmInv, Fresh
  <2> QED BY <1>0, <2>1, <2>2, AnswerStep
<1>7. CASE Respond(t)
  <2>1. /\ pc[t] = "answered" /\ pc'[t] = "idle" /\ UNCHANGED scenarioState
        /\ \A u \in Threads \ {t} : pc'[u] = pc[u] /\ req'[u] = req[u] /\ chosen'[u] = chosen[u]
    BY <1>7 DEF Respond, IInv, TypeOK
  <2>2. Answers[t] # Null
    <3>1. req[t] \in Requests /\ chosen[t] \in Stubs \cup {NotConfigured}
      BY <2>1 DEF IInv, TypeOK, ChosenInv
    <3>2. Answers[t] \in Requests \X (Stubs \cup {NotConfigured})
      BY <2>1, <3>1 DEF Answers
    <3> QED BY <3>2, CallersAssumption
  <2>3. Answers' = [Answers EXCEPT ![t] = Null]
    BY <2>1 DEF Answers
  <2>4. Machine!Return(t)
    BY <2>1, <2>2, <2>3 DEF Machine!Return
  <2> QED BY <2>4 DEF Machine!Next
<1> QED BY <1>1, <1>2, <1>3, <1>4, <1>5, <1>6, <1>7 DEF Serve

LEMMA CalmStep ==
  IInv /\ CalmInv /\ [CalmNext]_<<vars, calm>> /\ calm' => [Machine!Next]_(Machine!vars)
<1> SUFFICES ASSUME IInv, CalmInv, [CalmNext]_<<vars, calm>>, calm'
             PROVE  [Machine!Next]_(Machine!vars)
  OBVIOUS
<1>1. ASSUME NEW t \in Threads, NEW r \in Requests, Begin(t, r), StepOf(t)
      PROVE  UNCHANGED Machine!vars
  <2>1. /\ pc[t] # "answered" /\ UNCHANGED <<scenarioState, chosen>>
        /\ pc' = [pc EXCEPT ![t] = "scan"] /\ \A u \in Threads \ {t} : req'[u] = req[u]
    BY <1>1 DEF Begin, IInv, TypeOK
  <2> QED BY <2>1, QuietStep
<1>2. ASSUME NEW t \in Threads, Serve(t), StepOf(t) PROVE [Machine!Next]_(Machine!vars)
  BY <1>2, ServeStep
<1>3. ASSUME NEW a \in Admins, AdminCall(a) PROVE [Machine!Next]_(Machine!vars)
  <2>1. ASSUME NEW sc \in Scenarios, NEW st \in States, SetSingle(a, sc, st) PROVE Machine!Next
    BY <2>1, PutStep DEF SetSingle, AdminChanges
  <2>2. ASSUME NEW sc \in Scenarios, ResetSingle(a, sc) PROVE Machine!Next
    BY <2>2, PutStep DEF ResetSingle, AdminChanges
  <2>3. ASSUME ResetAll(a) PROVE UNCHANGED Machine!vars
    <3>1. UNCHANGED <<scenarioState, pc, req, chosen>>
      BY <2>3 DEF ResetAll
    <3> QED BY <3>1 DEF Answers, Machine!vars
  <2>4. ASSUME NEW sc \in Scenarios, ResetNext(a, sc) PROVE Machine!Next
    BY <2>4, PutStep DEF ResetNext
  <2> QED BY <1>3, <2>1, <2>2, <2>3, <2>4 DEF AdminCall
<1>4. ASSUME UNCHANGED <<vars, calm>> PROVE UNCHANGED Machine!vars
  BY <1>4 DEF vars, Answers, Machine!vars
<1> QED BY <1>1, <1>2, <1>3, <1>4 DEF CalmNext

\* As long as calls do not overlap, each request is answered, in one step, by
\* the first stub the scenarios' states allow: any stubs, in any scenarios.
THEOREM SerialCallsAlwaysSeeTheMachine == CalmSpec => SerialCallsSeeTheMachine
<1> DEFINE Step == calm' => [Machine!Next]_(Machine!vars)
<1>1. CalmInit => Init /\ CalmInv /\ Machine!Init
  <2> SUFFICES ASSUME CalmInit PROVE CalmInv /\ Machine!Init
    BY DEF CalmInit
  <2>1. CalmInv
    BY DEF CalmInit, Init, CalmInv
  <2>2. Machine!Init
    BY DEF CalmInit, Init, Machine!Init, Answers
  <2> QED BY <2>1, <2>2
<1>2. [CalmNext]_<<vars, calm>> => [Next]_vars
  BY DEF CalmNext, Next
<1>3. IInv /\ [Next]_vars => IInv'
  BY InvariantStep
<1>4. IInv /\ CalmInv /\ [CalmNext]_<<vars, calm>> => [Step]_<<vars, calm>>
  BY CalmStep
<1>5. Init => IInv
  BY InitIInv
<1> HIDE DEF Step
<1>6. CalmSpec => [][Step]_<<vars, calm>>
  BY <1>1, <1>2, <1>3, <1>4, <1>5, CalmNextInv, PTL DEF CalmSpec
<1>7. CalmSpec => Machine!Init
  BY <1>1, PTL DEF CalmSpec
<1> QED BY <1>6, <1>7, PTL DEF SerialCallsSeeTheMachine, Step
=============================================================================
