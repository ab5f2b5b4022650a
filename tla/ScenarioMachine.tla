--------------------------- MODULE ScenarioMachine ---------------------------
(***************************************************************************)
(* What a set of stubs in scenarios promises a client: a state machine     *)
(* whose state is one state per scenario.  A request is answered, in one   *)
(* step, by the first stub that matches it in the current states, and      *)
(* that stub's new state becomes its scenario's.                           *)
(***************************************************************************)
EXTENDS Naturals, Sequences

CONSTANTS Threads, Stubs, Order, Requests, Matching, Scenarios, Started,
          ScenarioOf, Required, NewState, NotConfigured, Null

VARIABLES
  scenarioState, \* scenario -> current state
  answer         \* thread -> <<request, stub>> it has just been answered

vars == <<scenarioState, answer>>

Init ==
  /\ scenarioState = [sc \in Scenarios |-> Started]
  /\ answer = [t \in Threads |-> Null]

InState(s) ==
  \/ ScenarioOf[s] = Null
  \/ Required[s] = Null
  \/ scenarioState[ScenarioOf[s]] = Required[s]

Answering(r) == {i \in 1 .. Len(Order) : Order[i] \in Matching[r] /\ InState(Order[i])}

FirstStub(r) ==
  IF Answering(r) = {} THEN NotConfigured
  ELSE Order[CHOOSE i \in Answering(r) : \A j \in Answering(r) : i <= j]

Moves(s) ==
  s # NotConfigured /\ ScenarioOf[s] # Null /\ NewState[s] # Null

Answer(t, r) ==
  LET s == FirstStub(r)
  IN /\ answer[t] = Null
     /\ answer' = [answer EXCEPT ![t] = <<r, s>>]
     /\ scenarioState' = IF Moves(s)
                         THEN [scenarioState EXCEPT ![ScenarioOf[s]] = NewState[s]]
                         ELSE scenarioState

Return(t) ==
  /\ answer[t] # Null
  /\ answer' = [answer EXCEPT ![t] = Null]
  /\ UNCHANGED scenarioState

\* An admin sets a scenario to a state that one of its stubs mentions, or
\* back to its first state.
Set(sc, st) ==
  /\ \/ st = Started
     \/ \E s \in Stubs : ScenarioOf[s] = sc /\ st # Null /\ st \in {Required[s], NewState[s]}
  /\ scenarioState' = [scenarioState EXCEPT ![sc] = st]
  /\ UNCHANGED answer

Next ==
  \/ \E t \in Threads : Return(t) \/ \E r \in Requests : Answer(t, r)
  \/ \E sc \in Scenarios :
       \E st \in {Started} \cup {Required[s] : s \in Stubs} \cup {NewState[s] : s \in Stubs} :
         Set(sc, st)

Spec == Init /\ [][Next]_vars
=============================================================================
