------------------------------- MODULE StubAdmin -------------------------------
(***************************************************************************)
(* Admin calls that add, edit, remove and reset stubs while others do the  *)
(* same and while requests are served: StoreBackedStubMappings over the    *)
(* ConcurrentSkipListSet of SortedConcurrentPrioritisableSet and the       *)
(* ConcurrentHashMap of the scenarios.  No lock spans two accesses.        *)
(* Persistence is StubLifecycle's and the states of scenarios are          *)
(* StubServing's; here a scenario is the set of its stubs.                 *)
(***************************************************************************)
EXTENDS Naturals, FiniteSets

CONSTANTS
  Ids,          \* ids of stubs
  Scenarios,
  Stubs,        \* the stubs clients send: [id, prio, scen]
  Default,      \* the one stub in the mappings directory
  Admins,       \* threads that run admin calls
  Threads,      \* threads that serve requests
  MaxCalls,     \* bound: admin calls begun
  MaxServed,    \* bound: requests begun
  NotConfigured, None

ASSUME AdminAssumption ==
  /\ Default \in Stubs
  /\ Stubs \subseteq [id : Ids, prio : Nat, scen : Scenarios \cup {None}]
  /\ MaxCalls \in Nat /\ MaxServed \in Nat
  /\ None \notin Scenarios \cup Ids

VARIABLES
  store,      \* the skip list: stubs with their insertion index
  count,      \* insertionCount
  registered, \* scenario -> ids of the stubs it holds, {} when there is none
  call,       \* the admin call of each thread
  request,    \* the request of each serving thread
  begun,      \* admin calls and requests begun
  suspect,    \* history: ids that two calls have worked on at once, or that a
              \* failed call left half done
  raced       \* history: scenarios of which a change has been overwritten

vars == <<store, count, registered, call, request, begun, suspect, raced>>

Entries ==
  [id : Ids, prio : {s.prio : s \in Stubs}, scen : Scenarios \cup {None}, idx : Nat]

ASSUME NoEntryAssumption == None \notin Entries /\ NotConfigured \notin Entries

CallType ==
  [op : {"none", "add", "edit", "remove", "reset"},
   at : {"", "clear", "scenarios", "load", "insert", "unlink", "relink",
         "remove", "readOld", "putOld", "readNew", "putNew"},
   id : Ids \cup {None}, old : Entries \cup {None},
   new : Stubs \cup Entries \cup {None}, read : SUBSET (Ids \cup Scenarios)]

RequestType ==
  [at : {"idle", "scan", "serve", "put"}, last : Entries \cup {None},
   chosen : Entries \cup {NotConfigured, None}, read : SUBSET Ids,
   throughout : SUBSET Entries, touched : SUBSET Ids]

NoCall == [op |-> "none", at |-> "", id |-> None, old |-> None, new |-> None, read |-> {}]
NoRequest == [at |-> "idle", last |-> None, chosen |-> None, read |-> {},
              throughout |-> {}, touched |-> {}]

\* Each variable holds what its comment says, and no two stubs of the skip list
\* have the same place in its order.
TypeOK ==
  /\ store \subseteq Entries
  /\ \A e, f \in store : (e.prio = f.prio /\ e.idx = f.idx) => e = f
  /\ count \in Nat
  /\ registered \in [Scenarios -> SUBSET Ids]
  /\ call \in [Admins -> CallType]
  /\ request \in [Threads -> RequestType]
  /\ suspect \subseteq Ids
  /\ raced \subseteq Scenarios

Init ==
  /\ store = {}
  /\ count = 0
  /\ registered = [sc \in Scenarios |-> {}]
  /\ call = [a \in Admins |-> NoCall]
  /\ request = [t \in Threads |-> NoRequest]
  /\ begun = [calls |-> 0, requests |-> 0]
  /\ suspect = {}
  /\ raced = {}

-----------------------------------------------------------------------------
(* History: which ids a call works on, and who is in whose way.            *)

Concerns(c) == {id \in Ids : c.op = "reset" \/ (c.op # "none" /\ id = c.id)}

InHand(admins) == UNION {Concerns(call[a]) : a \in admins}

\* What serving threads see of a step that leaves the store as s.
Watched(s, ids) ==
  [t \in Threads |->
     IF request[t].at = "idle" THEN request[t]
     ELSE [request[t] EXCEPT !.throughout = @ \cap s, !.touched = @ \cup ids]]

-----------------------------------------------------------------------------
(* Steps of a call                                                         *)

Begin(a, c) ==
  /\ call[a] = NoCall
  /\ begun.calls < MaxCalls
  /\ begun' = [begun EXCEPT !.calls = @ + 1]
  /\ call' = [call EXCEPT ![a] = c]
  /\ suspect' = suspect \cup (Concerns(c) \cap InHand(Admins \ {a}))
  /\ request' = Watched(store, Concerns(c))
  /\ UNCHANGED <<store, count, registered, raced>>

At(a, label) == call[a].at = label

Goto(a, label) == call' = [call EXCEPT ![a].at = label]

EndCall(a) == call' = [call EXCEPT ![a] = NoCall]

StoreIs(s) == store' = s /\ request' = Watched(s, {})

\* The scenario of the new stub is next, if it is in one.
ThenRegister(a, new) ==
  IF new.scen = None THEN EndCall(a)
  ELSE call' = [call EXCEPT ![a].at = "readNew", ![a].new = new]

\* addMapping: refused when the id is taken.  store.add gives the index.
IsFree(id) == \A e \in store : e.id # id

\* Mutant: no look-up before the add.
AddUnchecked(a, s) == Begin(a, [NoCall EXCEPT !.op = "add", !.at = "insert", !.id = s.id, !.new = s])

AddMapping(a, s) ==
  /\ IsFree(s.id)
  /\ Begin(a, [NoCall EXCEPT !.op = "add", !.at = "insert", !.id = s.id, !.new = s])

\* Mutant: the insertion index is not taken from a counter.
StoreAddUncounted(a) ==
  LET e == [id |-> call[a].new.id, prio |-> call[a].new.prio,
            scen |-> call[a].new.scen, idx |-> 0]
  IN /\ At(a, "insert")
     /\ StoreIs(store \cup {e})
     /\ ThenRegister(a, e)
     /\ UNCHANGED <<count, registered, begun, suspect, raced>>

StoreAdd(a) ==
  LET e == [id |-> call[a].new.id, prio |-> call[a].new.prio,
            scen |-> call[a].new.scen, idx |-> count]
  IN /\ At(a, "insert")
     /\ StoreIs(store \cup {e})
     /\ count' = count + 1
     /\ ThenRegister(a, e)
     /\ UNCHANGED <<registered, begun, suspect, raced>>

\* editMapping: keeps the index of the stub it finds.
EditMapping(a, s) ==
  \E old \in store :
    /\ old.id = s.id
    /\ Begin(a, [NoCall EXCEPT !.op = "edit", !.at = "unlink", !.id = s.id, !.old = old,
                 !.new = [id |-> s.id, prio |-> s.prio, scen |-> s.scen, idx |-> old.idx]])

SameKey(e, f) == e.prio = f.prio /\ e.idx = f.idx

\* onStubMappingUpdated takes a stub out of its scenario only if that changes.
ThenUpdateScenarios(a) ==
  LET c == call[a]
  IN IF c.old.scen # None /\ c.old.scen # c.new.scen
     THEN Goto(a, "readOld")
     ELSE ThenRegister(a, c.new)

\* store.replace: the set finds elements by priority and index; when it has
\* none to remove it adds none.
ReplaceRemove(a) ==
  /\ At(a, "unlink")
  /\ IF \E e \in store : SameKey(e, call[a].old)
     THEN StoreIs({e \in store : ~SameKey(e, call[a].old)}) /\ Goto(a, "relink")
     ELSE ThenUpdateScenarios(a) /\ UNCHANGED <<store, request>>
  /\ UNCHANGED <<count, registered, begun, suspect, raced>>

ReplaceAdd(a) ==
  /\ At(a, "relink")
  /\ StoreIs(IF \E e \in store : SameKey(e, call[a].new) THEN store ELSE store \cup {call[a].new})
  /\ ThenUpdateScenarios(a)
  /\ UNCHANGED <<count, registered, begun, suspect, raced>>

\* removeStubMapping looks the stub up by its id and then removes it: removeIf.
RemoveMapping(a, id) ==
  \E old \in store :
    /\ old.id = id
    /\ Begin(a, [NoCall EXCEPT !.op = "remove", !.at = "remove", !.id = id, !.old = old])

RemoveIf(a) ==
  /\ At(a, "remove")
  /\ StoreIs({e \in store : e.id # call[a].id})
  /\ IF call[a].old.scen = None THEN EndCall(a) ELSE Goto(a, "readOld")
  /\ UNCHANGED <<count, registered, begun, suspect, raced>>

-----------------------------------------------------------------------------
(* Scenarios: read one, put it back changed.  Both ends of the model's      *)
(* accesses are atomic, what lies between is not.                          *)

\* A put whose scenario has changed since it was read overwrites the change.
PutScenario(sc, read, new) ==
  /\ registered' = [registered EXCEPT ![sc] = new]
  /\ raced' = IF registered[sc] = read THEN raced ELSE raced \cup {sc}

\* The scenario is missing: IllegalStateException, the call ends here.
ScenarioIsMissing(a) ==
  /\ At(a, "readOld")
  /\ registered[call[a].old.scen] = {}
  /\ EndCall(a)
  /\ suspect' = suspect \cup {call[a].id}
  /\ UNCHANGED <<store, count, registered, request, begun, raced>>

ReadOld(a) ==
  /\ At(a, "readOld")
  /\ registered[call[a].old.scen] # {}
  /\ call' = [call EXCEPT ![a].at = "putOld", ![a].read = registered[call[a].old.scen]]
  /\ UNCHANGED <<store, count, registered, request, begun, suspect, raced>>

\* Mutant: the stub stays in the scenario it leaves.
PutOldUnchanged(a) ==
  /\ At(a, "putOld")
  /\ PutScenario(call[a].old.scen, call[a].read, call[a].read)
  /\ IF call[a].op = "remove" THEN EndCall(a) ELSE ThenRegister(a, call[a].new)
  /\ UNCHANGED <<store, count, request, begun, suspect>>

\* Mutant: a scenario goes with the first of its stubs.
PutOldEmpty(a) ==
  /\ At(a, "putOld")
  /\ PutScenario(call[a].old.scen, call[a].read, {})
  /\ IF call[a].op = "remove" THEN EndCall(a) ELSE ThenRegister(a, call[a].new)
  /\ UNCHANGED <<store, count, request, begun, suspect>>

PutOld(a) ==
  /\ At(a, "putOld")
  /\ PutScenario(call[a].old.scen, call[a].read, call[a].read \ {call[a].id})
  /\ IF call[a].op = "remove" THEN EndCall(a) ELSE ThenRegister(a, call[a].new)
  /\ UNCHANGED <<store, count, request, begun, suspect>>

ReadNew(a) ==
  /\ At(a, "readNew")
  /\ call' = [call EXCEPT ![a].at = "putNew", ![a].read = registered[call[a].new.scen]]
  /\ UNCHANGED <<store, count, registered, request, begun, suspect, raced>>

PutNew(a) ==
  /\ At(a, "putNew")
  /\ PutScenario(call[a].new.scen, call[a].read, call[a].read \cup {call[a].new.id})
  /\ EndCall(a)
  /\ UNCHANGED <<store, count, request, begun, suspect>>

-----------------------------------------------------------------------------
(* resetToDefaultMappings: store.clear, scenarios.clear, and the default    *)
(* stub is added again.                                                    *)

\* Mutant: the oldest first.
PrecedesByAge(e, f) == e.prio < f.prio \/ (e.prio = f.prio /\ e.idx < f.idx)

\* The order of the skip list: by priority, the latest added first.
Precedes(e, f) == e.prio < f.prio \/ (e.prio = f.prio /\ e.idx > f.idx)

ResetToDefaultMappings(a) ==
  Begin(a, [NoCall EXCEPT !.op = "reset", !.at = "clear", !.id = Default.id, !.new = Default])

\* The skip list is cleared from its front, one node after the other.
ClearFirst(a) ==
  /\ At(a, "clear")
  /\ \E e \in store :
       /\ \A f \in store : f # e => Precedes(e, f)
       /\ StoreIs(store \ {e})
  /\ UNCHANGED <<count, registered, call, begun, suspect, raced>>

StoreCleared(a) ==
  /\ At(a, "clear")
  /\ store = {}
  /\ call' = [call EXCEPT ![a].at = "scenarios", ![a].read = Scenarios]
  /\ UNCHANGED <<store, count, registered, request, begun, suspect, raced>>

ClearScenario(a, sc) ==
  /\ At(a, "scenarios")
  /\ sc \in call[a].read
  /\ registered' = [registered EXCEPT ![sc] = {}]
  /\ call' = [call EXCEPT ![a].read = @ \ {sc}]
  /\ UNCHANGED <<store, count, request, begun, suspect, raced>>

\* History: with nothing else under way a cleared store is as good as new.
Alone(a) ==
  /\ \A b \in Admins \ {a} : call[b] = NoCall
  /\ \A t \in Threads : request[t] = NoRequest
  /\ store = {} /\ \A sc \in Scenarios : registered[sc] = {}

ScenariosCleared(a) ==
  /\ At(a, "scenarios")
  /\ call[a].read = {}
  /\ Goto(a, "load")
  /\ suspect' = IF Alone(a) THEN {} ELSE suspect
  /\ raced' = IF Alone(a) THEN {} ELSE raced
  /\ UNCHANGED <<store, count, registered, request, begun>>

\* addMapping again, which throws when another call has taken the id.
LoadDefault(a) ==
  /\ At(a, "load")
  /\ IF IsFree(Default.id) THEN Goto(a, "insert") ELSE EndCall(a)
  /\ UNCHANGED <<store, count, registered, request, begun, suspect, raced>>

-----------------------------------------------------------------------------
(* serveFor.  The iterator over the skip list is weakly consistent: it      *)
(* meets the stubs in order, none that is there throughout is left out, one *)
(* that comes or goes meanwhile may be.  A stub in a scenario is passed     *)
(* over when its scenario is in another state, which may be any time here. *)

BeginServe(t) ==
  /\ request[t] = NoRequest
  /\ begun.requests < MaxServed
  /\ begun' = [begun EXCEPT !.requests = @ + 1]
  /\ request' = [request EXCEPT ![t] = [NoRequest EXCEPT
       !.at = "scan", !.throughout = store, !.touched = InHand(Admins)]]
  /\ UNCHANGED <<store, count, registered, call, suspect, raced>>

Serves(t, label) == request[t].at = label

After(t, e) == request[t].last # None => Precedes(request[t].last, e)

Reaches(t, e) ==
  /\ Serves(t, "scan")
  /\ After(t, e)
  /\ \A f \in request[t].throughout : After(t, f) => ~Precedes(f, e)

Choose(t, s) ==
  /\ request' = [request EXCEPT ![t].at = "serve", ![t].chosen = s]
  /\ UNCHANGED <<store, count, registered, call, begun, suspect, raced>>

TakeStub(t) == \E e \in store : Reaches(t, e) /\ Choose(t, e)

PassStub(t) ==
  /\ \E e \in store :
       /\ Reaches(t, e)
       /\ e.scen # None
       /\ request' = [request EXCEPT ![t].last = e]
  /\ UNCHANGED <<store, count, registered, call, begun, suspect, raced>>

NothingLeft(t) ==
  /\ Serves(t, "scan")
  /\ \A f \in request[t].throughout : ~After(t, f)
  /\ Choose(t, NotConfigured)

\* onStubServed: nothing to do, or the scenario is missing, or it is read ...
Respond(t) == request' = [request EXCEPT ![t] = NoRequest]

OutsideScenario(s) == s = NotConfigured \/ s.scen = None

ServeReads(t) ==
  /\ Serves(t, "serve")
  /\ \/ /\ ~OutsideScenario(request[t].chosen) => registered[request[t].chosen.scen] = {}
        /\ Respond(t)
     \/ /\ ~OutsideScenario(request[t].chosen)
        /\ registered[request[t].chosen.scen] # {}
        /\ request' = [request EXCEPT ![t].at = "put",
                       ![t].read = registered[request[t].chosen.scen]]
  /\ UNCHANGED <<store, count, registered, call, begun, suspect, raced>>

\* ... and put back in its new state, with the stubs it had when it was read.
ServePuts(t) ==
  /\ Serves(t, "put")
  /\ PutScenario(request[t].chosen.scen, request[t].read, request[t].read)
  /\ Respond(t)
  /\ UNCHANGED <<store, count, call, begun, suspect>>

\* The stub sets no state, or its scenario has left the one it requires.
ServeLeaves(t) ==
  /\ Serves(t, "put")
  /\ Respond(t)
  /\ UNCHANGED <<store, count, registered, call, begun, suspect, raced>>

-----------------------------------------------------------------------------

Call(a) ==
  \/ \E s \in Stubs : AddMapping(a, s) \/ EditMapping(a, s)
  \/ \E id \in Ids : RemoveMapping(a, id)
  \/ ResetToDefaultMappings(a)

Work(a) ==
  \/ StoreAdd(a) \/ ReplaceRemove(a) \/ ReplaceAdd(a) \/ RemoveIf(a)
  \/ ScenarioIsMissing(a) \/ ReadOld(a) \/ PutOld(a) \/ ReadNew(a) \/ PutNew(a)
  \/ ClearFirst(a) \/ StoreCleared(a) \/ ScenariosCleared(a) \/ LoadDefault(a)
  \/ \E sc \in Scenarios : ClearScenario(a, sc)

Serve(t) ==
  \/ TakeStub(t) \/ PassStub(t) \/ NothingLeft(t)
  \/ ServeReads(t) \/ ServePuts(t) \/ ServeLeaves(t)

Next ==
  \/ \E a \in Admins : Call(a) \/ Work(a)
  \/ \E t \in Threads : BeginServe(t) \/ Serve(t)

Spec == Init /\ [][Next]_vars

-----------------------------------------------------------------------------
(* Properties                                                              *)

Settled == Ids \ (suspect \cup InHand(Admins))

\* The store holds at most one stub for an id, although nothing in it says so,
\* unless two calls have worked on that id at the same time.
UniqueIds ==
  \A e, f \in store : (e.id = f.id /\ e.id \in Ids \ suspect) => e = f

\* A stub is in its scenario and in no other, whatever calls and requests
\* overlap on other stubs, until one of them overwrites the other's change of
\* that scenario; a reset that nothing overlaps makes all well again.
RegisteredAsStored ==
  \A id \in Settled, sc \in Scenarios \ raced :
    id \in registered[sc] <=> \E e \in store : e.id = id /\ e.scen = sc

\* A call or a request finds the scenario of the stub it has in hand, so
\* onStubMappingUpdated, onStubMappingRemoved and onStubServed throw no
\* IllegalStateException, unless another call was at work on the same stub or
\* the scenario has lost a change.
ScenarioIsFound ==
  /\ \A a \in Admins :
       (At(a, "readOld") /\ call[a].id \notin suspect /\ call[a].old.scen \notin raced)
         => call[a].id \in registered[call[a].old.scen]
  /\ \A t \in Threads :
       (Serves(t, "serve") /\ ~OutsideScenario(request[t].chosen)
          /\ request[t].chosen.id \notin suspect \cup request[t].touched
          /\ request[t].chosen.scen \notin raced)
         => request[t].chosen.id \in registered[request[t].chosen.scen]

\* A request is never answered by a stub of lower priority, or of equal
\* priority and added earlier, than one outside all scenarios that was in the
\* store during the whole request; nor is it unmatched while there is one.
FirstMatchWins ==
  \A t \in Threads : Serves(t, "serve") =>
    \A f \in request[t].throughout :
      f.scen = None =>
        LET e == request[t].chosen
        IN /\ e # NotConfigured
           /\ e.prio < f.prio \/ (e.prio = f.prio /\ e.idx >= f.idx)
=============================================================================
