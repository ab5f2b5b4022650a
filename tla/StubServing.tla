----------------------------- MODULE StubServing -----------------------------
(***************************************************************************)
(* How request threads find the stub that answers them while scenarios     *)
(* change state underneath them: StoreBackedStubMappings.serveFor,         *)
(* ScenarioSnapshot, and the state-changing half of AbstractScenarios.     *)
(*                                                                         *)
(* The set of stubs is fixed here (StubAdmin lets it change).  What is     *)
(* shared is the state of each scenario, one entry of a ConcurrentHashMap: *)
(* a read or a write of one entry is atomic and nothing larger is.         *)
(***************************************************************************)
EXTENDS Naturals, Sequences

CONSTANTS
  Threads,      \* request threads of the HTTP server
  Admins,       \* threads running admin calls on scenarios
  Stubs,        \* stub mappings (StubMapping)
  Order,        \* the stubs in the order the store yields them, first match wins
  Requests,     \* kinds of request
  Matching,     \* Matching[r]: the stubs whose request pattern matches r
  Scenarios,    \* names of the scenarios the stubs are in
  States,       \* scenario states
  Started,      \* Scenario.STARTED
  ScenarioOf,   \* ScenarioOf[s]: the stub's scenario, or Null
  Required,     \* Required[s]: the stub's required scenario state, or Null
  NewState,     \* NewState[s]: the state the stub sets when served, or Null
  NotConfigured,\* StubMapping.NOT_CONFIGURED, the answer when nothing matches
  Null

\* The states a scenario can be set to: the ones its stubs mention.
StubsOf(sc) == {s \in Stubs : ScenarioOf[s] = sc}
PossibleStates(sc) ==
  (UNION {{Required[s], NewState[s]} : s \in StubsOf(sc)}) \ {Null}

ASSUME StubsAssumption ==
  /\ Order \in Seq(Stubs)
  /\ Matching \in [Requests -> SUBSET Stubs]
  /\ Null \notin Scenarios \cup States \cup Stubs \cup {NotConfigured}
  /\ NotConfigured \notin Stubs
  /\ Started \in States
  /\ ScenarioOf \in [Stubs -> Scenarios \cup {Null}]
  /\ Required \in [Stubs -> States \cup {Null}]
  /\ NewState \in [Stubs -> States \cup {Null}]

VARIABLES
  scenarioState, \* the scenario store: scenario name -> current state
  pc,            \* where each request thread is in serveFor
  req,           \* the request the thread serves
  pos,           \* the thread's position in the stream of stubs
  snap,          \* its ScenarioSnapshot; Null for a scenario not yet copied
  chosen,        \* the stub found, Null while none is
  resetting,     \* scenarios an admin's resetScenarios has still to put back
  seen           \* history: the scenario states there have been while the
                 \* thread scanned for its request

vars == <<scenarioState, pc, req, pos, snap, chosen, resetting, seen>>

StateVectors == [Scenarios -> States]
NoSnapshot == [sc \in Scenarios |-> Null]

TypeOK ==
  /\ scenarioState \in StateVectors
  /\ pc \in [Threads -> {"idle", "scan", "snapshot", "serve", "advance", "answered"}]
  /\ req \in [Threads -> Requests \cup {Null}]
  /\ \A t \in Threads : pc[t] # "idle" => req[t] \in Requests
  /\ pos \in [Threads -> 1 .. Len(Order) + 1]
  /\ snap \in [Threads -> [Scenarios -> States \cup {Null}]]
  /\ chosen \in [Threads -> Stubs \cup {NotConfigured, Null}]
  /\ resetting \in [Admins -> SUBSET Scenarios]
  /\ seen \in [Threads -> SUBSET StateVectors]

Init ==
  /\ scenarioState = [sc \in Scenarios |-> Started]
  /\ pc = [t \in Threads |-> "idle"]
  /\ req = [t \in Threads |-> Null]
  /\ pos = [t \in Threads |-> 1]
  /\ snap = [t \in Threads |-> NoSnapshot]
  /\ chosen = [t \in Threads |-> Null]
  /\ resetting = [a \in Admins |-> {}]
  /\ seen = [t \in Threads |-> {}]

-----------------------------------------------------------------------------
(* The scan: findAllMatchingRequest(..).filter(..).findFirst()             *)

Current(t) == Order[pos[t]]

Independent(s) == ScenarioOf[s] = Null \/ Required[s] = Null

\* Whether the lazy snapshot has been taken.
Taken(t) == \A sc \in Scenarios : snap[t][sc] # Null

\* Mutant: the state is read anew for each candidate.
InLiveState(t, s) == Required[s] = scenarioState[ScenarioOf[s]]

\* ScenarioSnapshot.mappingMatchesScenarioState.
InSnapshot(t, s) == Required[s] = snap[t][ScenarioOf[s]]

Choose(t, s) ==
  /\ chosen' = [chosen EXCEPT ![t] = s]
  /\ pc' = [pc EXCEPT ![t] = "serve"]
  /\ UNCHANGED <<scenarioState, req, pos, snap, resetting, seen>>

Pass(t) ==
  /\ pos' = [pos EXCEPT ![t] = @ + 1]
  /\ UNCHANGED <<scenarioState, pc, req, snap, chosen, resetting, seen>>

Begin(t, r) ==
  /\ pc[t] = "idle"
  /\ pc' = [pc EXCEPT ![t] = "scan"]
  /\ req' = [req EXCEPT ![t] = r]
  /\ seen' = [seen EXCEPT ![t] = {scenarioState}]
  /\ UNCHANGED <<scenarioState, pos, snap, chosen, resetting>>

Scanning(t) == pc[t] = "scan" /\ pos[t] <= Len(Order)

\* The request pattern does not match.
SkipUnmatched(t) ==
  /\ Scanning(t)
  /\ Current(t) \notin Matching[req[t]]
  /\ Pass(t)

\* A match that no scenario state constrains is taken without a snapshot.
TakeIndependent(t) ==
  /\ Scanning(t)
  /\ Current(t) \in Matching[req[t]]
  /\ Independent(Current(t))
  /\ Choose(t, Current(t))

\* The first constrained match forces the lazy snapshot.
ForceSnapshot(t) ==
  /\ Scanning(t)
  /\ Current(t) \in Matching[req[t]]
  /\ ~Independent(Current(t))
  /\ ~Taken(t)
  /\ pc' = [pc EXCEPT ![t] = "snapshot"]
  /\ UNCHANGED <<scenarioState, req, pos, snap, chosen, resetting, seen>>

\* ScenarioSnapshot's constructor collects a weakly consistent stream over
\* the store: it reads one scenario at a time, in an order of the map's own.
CopyScenario(t, sc) ==
  /\ pc[t] = "snapshot"
  /\ snap[t][sc] = Null
  /\ snap' = [snap EXCEPT ![t][sc] = scenarioState[sc]]
  /\ UNCHANGED <<scenarioState, pc, req, pos, chosen, resetting, seen>>

SnapshotTaken(t) ==
  /\ pc[t] = "snapshot"
  /\ Taken(t)
  /\ pc' = [pc EXCEPT ![t] = "scan"]
  /\ UNCHANGED <<scenarioState, req, pos, snap, chosen, resetting, seen>>

TakeInState(t) ==
  /\ Scanning(t)
  /\ Current(t) \in Matching[req[t]]
  /\ ~Independent(Current(t))
  /\ Taken(t)
  /\ InSnapshot(t, Current(t))
  /\ Choose(t, Current(t))

SkipOtherState(t) ==
  /\ Scanning(t)
  /\ Current(t) \in Matching[req[t]]
  /\ ~Independent(Current(t))
  /\ Taken(t)
  /\ ~InSnapshot(t, Current(t))
  /\ Pass(t)

\* Mutant: the scan ends before the last stub.
NothingLeftEarly(t) ==
  /\ pc[t] = "scan"
  /\ pos[t] >= Len(Order)
  /\ Choose(t, NotConfigured)

NothingLeft(t) ==
  /\ pc[t] = "scan"
  /\ pos[t] > Len(Order)
  /\ Choose(t, NotConfigured)

-----------------------------------------------------------------------------
(* scenarios.onStubServed: read the scenario, test it, put the new one.    *)

\* Mutant: a stub that sets no state moves its scenario all the same.
AdvancesAlways(s) ==
  /\ s # NotConfigured
  /\ ScenarioOf[s] # Null
  /\ Required[s] = Null \/ scenarioState[ScenarioOf[s]] = Required[s]

\* Mutant: a stub that requires no state never changes it.
AdvancesOnlyRequired(s) ==
  /\ s # NotConfigured
  /\ ScenarioOf[s] # Null
  /\ NewState[s] # Null
  /\ scenarioState[ScenarioOf[s]] = Required[s]

Advances(s) ==
  /\ s # NotConfigured
  /\ ScenarioOf[s] # Null
  /\ NewState[s] # Null
  /\ Required[s] = Null \/ scenarioState[ScenarioOf[s]] = Required[s]

ServeReads(t) ==
  /\ pc[t] = "serve"
  /\ pc' = [pc EXCEPT ![t] = IF Advances(chosen[t]) THEN "advance" ELSE "answered"]
  /\ UNCHANGED <<scenarioState, req, pos, snap, chosen, resetting, seen>>

\* A thread that is scanning may see each state that is put.
Put(sc, st) ==
  /\ scenarioState' = [scenarioState EXCEPT ![sc] = st]
  /\ seen' = [t \in Threads |->
                IF pc[t] \in {"scan", "snapshot"}
                THEN seen[t] \cup {[scenarioState EXCEPT ![sc] = st]}
                ELSE seen[t]]

ServePuts(t) ==
  /\ pc[t] = "advance"
  /\ Put(ScenarioOf[chosen[t]], NewState[chosen[t]])
  /\ pc' = [pc EXCEPT ![t] = "answered"]
  /\ UNCHANGED <<req, pos, snap, chosen, resetting>>

\* Mutant: the snapshot outlives its request.
RespondKeepingSnapshot(t) ==
  /\ pc[t] = "answered"
  /\ pc' = [pc EXCEPT ![t] = "idle"]
  /\ req' = [req EXCEPT ![t] = Null]
  /\ pos' = [pos EXCEPT ![t] = 1]
  /\ chosen' = [chosen EXCEPT ![t] = Null]
  /\ seen' = [seen EXCEPT ![t] = {}]
  /\ UNCHANGED <<scenarioState, snap, resetting>>

\* Listeners and transformers work on the chosen stub, and the call returns.
Respond(t) ==
  /\ pc[t] = "answered"
  /\ pc' = [pc EXCEPT ![t] = "idle"]
  /\ req' = [req EXCEPT ![t] = Null]
  /\ pos' = [pos EXCEPT ![t] = 1]
  /\ snap' = [snap EXCEPT ![t] = NoSnapshot]
  /\ chosen' = [chosen EXCEPT ![t] = Null]
  /\ seen' = [seen EXCEPT ![t] = {}]
  /\ UNCHANGED <<scenarioState, resetting>>

-----------------------------------------------------------------------------
(* Admin calls on scenarios.  setSingle and resetSingle read the scenario  *)
(* and put it with a state that does not depend on what they read, so one  *)
(* step, the put, stands for them.                                         *)

AdminChanges(sc, st) ==
  /\ Put(sc, st)
  /\ UNCHANGED <<pc, req, pos, snap, chosen, resetting>>

\* Scenario.setState rejects a state that no stub of the scenario mentions.
SetSingle(a, sc, st) ==
  /\ resetting[a] = {}
  /\ st \in PossibleStates(sc)
  /\ AdminChanges(sc, st)

ResetSingle(a, sc) ==
  /\ resetting[a] = {}
  /\ AdminChanges(sc, Started)

ResetAll(a) ==
  /\ resetting[a] = {}
  /\ resetting' = [resetting EXCEPT ![a] = Scenarios]
  /\ UNCHANGED <<scenarioState, pc, req, pos, snap, chosen, seen>>

ResetNext(a, sc) ==
  /\ sc \in resetting[a]
  /\ Put(sc, Started)
  /\ resetting' = [resetting EXCEPT ![a] = @ \ {sc}]
  /\ UNCHANGED <<pc, req, pos, snap, chosen>>

-----------------------------------------------------------------------------

\* What a thread does once it has a request.
Serve(t) ==
  \/ SkipUnmatched(t)
  \/ TakeIndependent(t)
  \/ ForceSnapshot(t)
  \/ \E sc \in Scenarios : CopyScenario(t, sc)
  \/ SnapshotTaken(t)
  \/ TakeInState(t)
  \/ SkipOtherState(t)
  \/ NothingLeft(t)
  \/ ServeReads(t)
  \/ ServePuts(t)
  \/ Respond(t)

AdminCall(a) ==
  \/ \E sc \in Scenarios, st \in States : SetSingle(a, sc, st)
  \/ \E sc \in Scenarios : ResetSingle(a, sc)
  \/ ResetAll(a)
  \/ \E sc \in Scenarios : ResetNext(a, sc)

Next ==
  \/ \E t \in Threads, r \in Requests : Begin(t, r)
  \/ \E t \in Threads : Serve(t)
  \/ \E a \in Admins : AdminCall(a)

Spec == Init /\ [][Next]_vars

-----------------------------------------------------------------------------
(* Properties                                                              *)

\* A request for which some scenario has a stub in each of its states: the
\* wrapping scenario of ScenarioConcurrencyTest.
Covers(r, sc) ==
  \A st \in PossibleStates(sc) \cup {Started} :
    \E i \in 1 .. Len(Order) :
      /\ Order[i] \in Matching[r]
      /\ ScenarioOf[Order[i]] = sc
      /\ Required[Order[i]] = st

\* A request whose scenario has a stub for every state is never left
\* unmatched, however other threads move the scenario during its scan: the
\* promise of serveFor's comment and of ScenarioConcurrencyTest.
NeverUnmatched ==
  \A t \in Threads :
    (\E sc \in Scenarios : pc[t] # "idle" /\ Covers(req[t], sc))
      => chosen[t] # NotConfigured

\* A stub that requires a scenario state is only served to a request during
\* which its scenario really was in that state: serveFor's snapshot is never
\* older than the request.
ServedStateWasCurrent ==
  \A t \in Threads :
    (chosen[t] \in Stubs /\ ~Independent(chosen[t]))
      => \E v \in seen[t] : v[ScenarioOf[chosen[t]]] = Required[chosen[t]]

\* A request is answered "not configured" only if each stub matching it was,
\* at some moment of the request, excluded by its scenario's state.
UnmatchedIsJustified ==
  \A t \in Threads :
    chosen[t] = NotConfigured =>
      \A i \in 1 .. Len(Order) :
        Order[i] \in Matching[req[t]] =>
          /\ ~Independent(Order[i])
          /\ \E v \in seen[t] : v[ScenarioOf[Order[i]]] # Required[Order[i]]

\* ScenariosTest.doesNotModifyScenarioStateWhenStubServedInNonMatchingState:
\* where serving a stub changes the state of its scenario, that state was the
\* one the stub requires.
AdvancesFromRequiredState ==
  [][\A t \in Threads :
       (/\ pc[t] = "advance" /\ pc'[t] = "answered"
        /\ Required[chosen[t]] # Null
        /\ scenarioState' # scenarioState)
         => scenarioState[ScenarioOf[chosen[t]]] = Required[chosen[t]]]_vars

=============================================================================
