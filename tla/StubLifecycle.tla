---------------------------- MODULE StubLifecycle ----------------------------
(***************************************************************************)
(* The admin operations on stub mappings, one call at a time, as           *)
(* StoreBackedStubMappings carries them out: the store, the scenarios and  *)
(* the files of JsonFileMappingsSource change one after the other, a file  *)
(* may fail to be written, and the process may die between two steps.      *)
(*                                                                         *)
(* A call first adds the stubs it creates to the store, then deletes and   *)
(* writes files, then alters the store and the scenarios stub by stub.     *)
(* A file holds one stub, except the read-only one that holds several.     *)
(***************************************************************************)
CONSTANTS
  Ids,         \* of stub mappings
  Scenarios,   \* names of scenarios
  NoScenario,  \* of a stub that is in none
  None         \* no stub, or no file

ASSUME LifecycleAssumption == NoScenario \notin Scenarios

Stubs == [scenario : Scenarios \cup {NoScenario}, persistent : BOOLEAN]

ASSUME NoneAssumption == None \notin Stubs

VARIABLES
  stored,      \* the stub with each id in the store
  registered,  \* ids of the stubs each scenario holds; one that holds none is absent
  disk,        \* the stub with each id in the mappings directory
  readOnly,    \* ids in a multi-mapping file
  call,        \* the call under way
  unsure,      \* history: ids whose file a call has left unlike the store
  leftovers    \* history: stubs a failed call has left in the store only

vars == <<stored, registered, disk, readOnly, call, unsure, leftovers>>

Persistent(stub) == stub # None /\ stub.persistent

Files == {i \in Ids : disk[i] # None}

InScenario(s) == {i \in Ids : stored[i] # None /\ stored[i].scenario = s}

\* What the call does last, and whether files are removed one by one or all.
Kinds == {"alter", "setAll", "clear"}

NoCall ==
  [busy |-> FALSE, kind |-> "alter", ids |-> {}, target |-> [i \in Ids |-> None],
   created |-> {}, delete |-> {}, save |-> {}, alter |-> {}]

Calls ==
  [busy : BOOLEAN, kind : Kinds, ids : SUBSET Ids, target : [Ids -> Stubs \cup {None}],
   created : SUBSET Ids, delete : SUBSET Ids, save : SUBSET Ids, alter : SUBSET Ids]

\* Stubs of the call that are in the store and not yet in their scenario.
Pending == call.created \cap call.alter

\* A multi-mapping file is never written or deleted; what a call creates is in
\* the store from its first step on, and a call waits for nothing when it is over.
TypeOK ==
  /\ stored \in [Ids -> Stubs \cup {None}]
  /\ registered \in [Scenarios -> SUBSET Ids]
  /\ disk \in [Ids -> Stubs \cup {None}]
  /\ readOnly \in SUBSET Ids
  /\ call \in Calls
  /\ unsure \in SUBSET Ids
  /\ leftovers \in SUBSET Ids
  /\ readOnly \subseteq Files
  /\ call.created \cup call.save \cup call.alter \subseteq call.ids
  /\ ~call.busy => call = NoCall
  /\ \A i \in call.created : stored[i] = call.target[i] /\ stored[i] # None

-----------------------------------------------------------------------------
(* AbstractScenarios, by id                                                *)

Register(reg, i, new) ==
  [s \in Scenarios |-> IF new # None /\ s = new.scenario THEN reg[s] \cup {i} ELSE reg[s]]

\* Mutant: the stub stays in a scenario it has left.
NeverUnregister(reg, i, old, new) == reg

\* onStubMappingUpdated only takes a stub out of a scenario it is no longer in.
Unregister(reg, i, old, new) ==
  [s \in Scenarios |->
     IF s = old.scenario /\ (new # None => new.scenario # s) THEN reg[s] \ {i} ELSE reg[s]]

\* orElseThrow(IllegalStateException::new)
ScenarioIsMissing(old, new) ==
  /\ old.scenario \in Scenarios
  /\ new # None => new.scenario # old.scenario
  /\ registered[old.scenario] = {}

-----------------------------------------------------------------------------
(* loadMappingsInto: every stub of every file, without saving them         *)

LoadedFrom(files) ==
  /\ stored' = files
  /\ registered' = [s \in Scenarios |-> {i \in Ids : files[i] # None /\ files[i].scenario = s}]
  /\ unsure' = {}
  /\ leftovers' = {}

Init ==
  /\ disk \in [Ids -> Stubs \cup {None}]
  /\ readOnly \in SUBSET Files
  /\ stored = disk
  /\ registered = [s \in Scenarios |-> InScenario(s)]
  /\ call = NoCall
  /\ unsure = {}
  /\ leftovers = {}

\* The process dies, whatever it was doing, and is started again.
Restart ==
  /\ LoadedFrom(disk)
  /\ call' = NoCall
  /\ UNCHANGED <<disk, readOnly>>

ResetToDefault ==
  /\ ~call.busy
  /\ LoadedFrom(disk)
  /\ UNCHANGED <<disk, readOnly, call>>

-----------------------------------------------------------------------------
(* The operations                                                          *)

Only(i, stub) == [j \in Ids |-> IF j = i THEN stub ELSE None]

Within(ids, target) == [i \in Ids |-> IF i \in ids THEN target[i] ELSE None]

StoredIds == {i \in Ids : stored[i] # None}

\* store.add comes first: it gives a stub the insertion index that is saved.
Begin(kind, ids, target, files) ==
  /\ ~call.busy
  /\ LET created == {i \in ids : stored[i] = None /\ target[i] # None} IN
     /\ call' = [busy |-> TRUE, kind |-> kind, ids |-> ids, target |-> target,
                 created |-> created, delete |-> files,
                 save |-> {i \in ids : Persistent(target[i])}, alter |-> ids]
     /\ stored' = [i \in Ids |-> IF i \in created THEN target[i] ELSE stored[i]]
  /\ UNCHANGED <<registered, disk, readOnly, unsure, leftovers>>

\* addMapping: an id in use is refused.
AddMapping(i, stub) ==
  /\ stored[i] = None
  /\ Begin("alter", {i}, Only(i, stub), {})

\* editMapping: an id not in use is not found.
EditMapping(i, stub) ==
  /\ stored[i] # None
  /\ Begin("alter", {i}, Only(i, stub), {})

\* updateMappings: stubs with an id in use are edited, the others created.
UpdateMappings(ids, target) ==
  /\ ids # {}
  /\ Begin("alter", ids, Within(ids, target), {})

\* setAllMappings: the stubs not named are removed, and every file is.
SetAllMappings(ids, target) ==
  Begin("setAll", ids \cup StoredIds, Within(ids, target), Files)

\* saveMappings: setAllMappings of what is in the store, made persistent.
SaveMappings ==
  SetAllMappings(StoredIds, [i \in StoredIds |-> [stored[i] EXCEPT !.persistent = TRUE]])

\* Mutant: the files of removed stubs are forgotten.
RemoveFromStore(ids) ==
  /\ ids \subseteq StoredIds /\ ids # {}
  /\ Begin("alter", ids, Within({}, stored), {})

\* removeMapping and removeMappings: what is persistent has a file to delete.
RemoveMappings(ids) ==
  /\ ids \subseteq StoredIds /\ ids # {}
  /\ Begin("alter", ids, Within({}, stored), {i \in ids : Persistent(stored[i])})

\* resetMappings: all files, then the store and the scenarios at once.
ResetMappings == Begin("clear", StoredIds, Within({}, stored), Files)

-----------------------------------------------------------------------------
(* The files: MappingsSaver and JsonFileMappingsSource                     *)

\* Mutant: what a multi-mapping file holds is deleted like any other.
MayDeleteAny(i) == disk[i] # None

\* remove refuses read-only files, removeAll before it deletes any; an id
\* without a file is a NullPointerException in remove.
MayDelete(i) ==
  /\ disk[i] # None
  /\ i \notin readOnly
  /\ call.kind # "alter" => readOnly = {}

DeleteNext(i) ==
  /\ i \in call.delete
  /\ MayDelete(i)
  /\ call' = [call EXCEPT !.delete = @ \ {i}]
  /\ disk' = [disk EXCEPT ![i] = None]
  /\ unsure' = unsure \ {i}
  /\ UNCHANGED <<stored, registered, readOnly, leftovers>>

\* Mutant: setAll writes before it removes.
SaveFirst(i) ==
  /\ i \in call.save \ readOnly
  /\ call' = [call EXCEPT !.save = @ \ {i}]
  /\ disk' = [disk EXCEPT ![i] = call.target[i]]
  /\ unsure' = unsure \ {i}
  /\ UNCHANGED <<stored, registered, readOnly, leftovers>>

SaveNext(i) ==
  /\ call.delete = {}
  /\ i \in call.save \ readOnly
  /\ call' = [call EXCEPT !.save = @ \ {i}]
  /\ disk' = [disk EXCEPT ![i] = call.target[i]]
  /\ unsure' = unsure \ {i}
  /\ UNCHANGED <<stored, registered, readOnly, leftovers>>

\* Of what the call created only newPersisted is taken out of the store again.
Undone == {i \in call.created : Persistent(call.target[i])}

\* The exception ends the call before anything is altered; the files of the
\* stubs in touched may have been.
Fail(touched) ==
  /\ stored' = [i \in Ids |-> IF i \in Undone THEN None ELSE stored[i]]
  /\ leftovers' = leftovers \cup (call.created \ Undone)
  /\ unsure' = unsure \cup touched
  /\ call' = NoCall
  /\ UNCHANGED <<registered, disk, readOnly>>

\* Some of the files may be gone, unless removeAll has refused them all.
DeleteFails ==
  /\ \E i \in call.delete : ~MayDelete(i)
  /\ Fail(IF call.kind = "alter" THEN call.ids ELSE {})

\* The file cannot be written, or is read-only.
SaveFails ==
  /\ call.delete = {} /\ call.save # {}
  /\ Fail(call.ids)

-----------------------------------------------------------------------------
(* The store and the scenarios, when the files are done                    *)

Filed == call.busy /\ call.delete = {} /\ call.save = {}

\* Insertions come before removals.
MayAlter(i) ==
  /\ Filed /\ call.kind # "clear"
  /\ i \in call.alter
  /\ call.target[i] = None => \A j \in call.alter : call.target[j] = None

AlterCreated(i) ==
  /\ MayAlter(i)
  /\ i \in call.created
  /\ registered' = Register(registered, i, stored[i])
  /\ call' = [call EXCEPT !.alter = @ \ {i}]
  /\ UNCHANGED <<stored, disk, readOnly, unsure, leftovers>>

\* Mutant: the stub is replaced before its scenarios are looked at.
AlterUnnoticed(i) ==
  /\ MayAlter(i)
  /\ i \notin call.created
  /\ stored' = [stored EXCEPT ![i] = call.target[i]]
  /\ call' = [call EXCEPT !.alter = @ \ {i}]
  /\ leftovers' = leftovers \ {i}
  /\ UNCHANGED <<registered, disk, readOnly, unsure>>

\* The file of a stub that is persistent no more stays, unless setAll removed it.
AlterStored(i) ==
  /\ MayAlter(i)
  /\ i \notin call.created
  /\ LET old == stored[i]  new == call.target[i]
         stale == call.kind = "alter" /\ Persistent(old) /\ new # None /\ ~new.persistent
     IN
     /\ ~ScenarioIsMissing(old, new)
     /\ registered' = Register(Unregister(registered, i, old, new), i, new)
     /\ stored' = [stored EXCEPT ![i] = new]
     /\ unsure' = unsure \cup {j \in {i} : stale}
  /\ call' = [call EXCEPT !.alter = @ \ {i}]
  /\ leftovers' = leftovers \ {i}
  /\ UNCHANGED <<disk, readOnly>>

\* IllegalStateException after the store has been altered: the rest is not.
AlterFails(i) ==
  /\ MayAlter(i)
  /\ i \notin call.created
  /\ LET old == stored[i]  new == call.target[i] IN
     /\ ScenarioIsMissing(old, new)
     /\ stored' = [stored EXCEPT ![i] = new]
     /\ leftovers' = (leftovers \ {j \in {i} : new = None}) \cup Pending
  /\ unsure' = unsure \cup call.ids
  /\ call' = NoCall
  /\ UNCHANGED <<registered, disk, readOnly>>

EndCall ==
  /\ Filed /\ call.kind # "clear" /\ call.alter = {}
  /\ call' = NoCall
  /\ UNCHANGED <<stored, registered, disk, readOnly, unsure, leftovers>>

\* reset: store.clear and scenarios.clear
Clear ==
  /\ Filed /\ call.kind = "clear"
  /\ stored' = [i \in Ids |-> None]
  /\ registered' = [s \in Scenarios |-> {}]
  /\ call' = NoCall
  /\ leftovers' = {}
  /\ UNCHANGED <<disk, readOnly, unsure>>

-----------------------------------------------------------------------------

Operation ==
  \/ \E i \in Ids, stub \in Stubs : AddMapping(i, stub) \/ EditMapping(i, stub)
  \/ \E ids \in SUBSET Ids : \E target \in [ids -> Stubs] :
       UpdateMappings(ids, target) \/ SetAllMappings(ids, target)
  \/ \E ids \in SUBSET Ids : RemoveMappings(ids)
  \/ SaveMappings \/ ResetMappings \/ ResetToDefault

Filing == \/ \E i \in Ids : DeleteNext(i) \/ SaveNext(i)
          \/ DeleteFails \/ SaveFails

Altering == \/ \E i \in Ids : AlterCreated(i) \/ AlterStored(i) \/ AlterFails(i)
            \/ EndCall \/ Clear

Next == Operation \/ Filing \/ Altering \/ Restart

Spec == Init /\ [][Next]_vars

-----------------------------------------------------------------------------
(* Properties                                                              *)

\* A scenario holds the stubs of the store that name it and no others, whatever
\* has failed; but for stubs the call is still to register and those a failed
\* call has left behind. (A stub in a scenario that is missing cannot be served,
\* edited or removed: onStubServed and its like throw IllegalStateException.)
RegisteredAsStored ==
  \A s \in Scenarios : registered[s] = InScenario(s) \ (leftovers \cup Pending)

\* Ids that neither the call under way nor a failed one has touched.
Settled == Ids \ (unsure \cup call.ids)

\* A persistent stub is there again after the process died at any moment, or
\* after a reset to defaults, as it was: unless a call was altering it.
PersistentSurvives ==
  [][Restart \/ ResetToDefault =>
       \A i \in Settled : Persistent(stored[i]) => stored'[i] = stored[i]]_vars

\* Nor does a persistent stub come back that was removed.
RemovedStaysRemoved ==
  [][Restart \/ ResetToDefault =>
       \A i \in Settled : stored[i] = None => ~Persistent(stored'[i])]_vars

\* "we have to undo if the add fails" (updateMappings): a call that cannot save
\* leaves none of the stubs it created.
FailedUpdateIsUndone ==
  [][SaveFails => \A i \in call.created : stored'[i] = None]_vars

=============================================================================
