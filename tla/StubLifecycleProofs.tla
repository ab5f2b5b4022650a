------------------------- MODULE StubLifecycleProofs -------------------------
(* Theorems about StubLifecycle, for any stubs and scenarios.              *)
EXTENDS StubLifecycle, TLAPS

\* What is left to alter is in the store, and nothing has been altered while
\* there is a file to delete or to write.
CallInv ==
  /\ \A i \in call.alter : stored[i] # None
  /\ call.delete # {} \/ call.save # {} => call.created \subseteq call.alter

\* What a failed call has left behind is in the store, and the call under way
\* did not put it there.
LeftInv ==
  /\ \A i \in leftovers : stored[i] # None
  /\ leftovers \cap call.created = {}

IInv == TypeOK /\ CallInv /\ LeftInv /\ RegisteredAsStored

-----------------------------------------------------------------------------
(* The start, and loading the files                                        *)

LEMMA NoCallTyped == NoCall \in Calls
BY DEF NoCall, Calls, Kinds

LEMMA InitIInv == Init => IInv
<1> SUFFICES ASSUME Init PROVE IInv
  OBVIOUS
<1>1. TypeOK
  BY NoCallTyped DEF Init, TypeOK, InScenario, NoCall, Files
<1>2. CallInv /\ LeftInv
  BY DEF Init, CallInv, LeftInv, NoCall
<1>3. RegisteredAsStored
  BY DEF Init, RegisteredAsStored, Pending, NoCall
<1> QED BY <1>1, <1>2, <1>3 DEF IInv

LEMMA LoadIInv ==
  ASSUME IInv, LoadedFrom(disk), UNCHANGED <<disk, readOnly>>, call' = NoCall
  PROVE  IInv'
<1>1. TypeOK'
  BY NoCallTyped DEF IInv, LoadedFrom, TypeOK, NoCall, Files
<1>2. CallInv' /\ LeftInv'
  BY DEF LoadedFrom, CallInv, LeftInv, NoCall
<1>3. RegisteredAsStored'
  BY DEF LoadedFrom, RegisteredAsStored, Pending, InScenario, NoCall
<1> QED BY <1>1, <1>2, <1>3 DEF IInv

-----------------------------------------------------------------------------
(* The operations all begin a call                                         *)

LEMMA BeginTypeOK ==
  ASSUME TypeOK, NEW kind \in Kinds, NEW ids \in SUBSET Ids,
         NEW target \in [Ids -> Stubs \cup {None}], NEW files \in SUBSET Ids,
         Begin(kind, ids, target, files)
  PROVE  TypeOK'
<1>1. call' \in Calls
  BY DEF Begin, Calls
<1>2. stored' \in [Ids -> Stubs \cup {None}]
  BY DEF Begin, TypeOK
<1>3. \A i \in call'.created : stored'[i] = call'.target[i] /\ stored'[i] # None
  BY DEF Begin, TypeOK
<1>4. call'.created \cup call'.save \cup call'.alter \subseteq call'.ids /\ call'.busy
  BY DEF Begin
<1>5. readOnly' \subseteq Files'
  BY DEF Begin, TypeOK, Files
<1> QED BY <1>1, <1>2, <1>3, <1>4, <1>5 DEF Begin, TypeOK

\* An id is only asked to be removed if it is in the store.
LEMMA BeginIInv ==
  ASSUME IInv, NEW kind \in Kinds, NEW ids \in SUBSET Ids,
         NEW target \in [Ids -> Stubs \cup {None}], NEW files \in SUBSET Ids,
         \A i \in ids : stored[i] # None \/ target[i] # None,
         Begin(kind, ids, target, files)
  PROVE  IInv'
<1> DEFINE created == {i \in ids : stored[i] = None /\ target[i] # None}
<1>1. TypeOK'
  BY BeginTypeOK DEF IInv
<1>2. /\ call'.created = created /\ call'.alter = ids
      /\ stored' = [i \in Ids |-> IF i \in created THEN target[i] ELSE stored[i]]
      /\ UNCHANGED <<registered, leftovers>>
  BY DEF Begin
<1>3. CallInv'
  BY <1>2 DEF CallInv
<1>4. LeftInv'
  BY <1>2 DEF LeftInv, IInv, TypeOK
<1>5. Pending = {} /\ Pending' = created
  BY <1>2 DEF Begin, IInv, TypeOK, NoCall, Pending
<1>6. ASSUME NEW s \in Scenarios
      PROVE  InScenario(s)' \ created = InScenario(s) \ created
  BY <1>2 DEF InScenario
<1>7. ASSUME NEW s \in Scenarios PROVE InScenario(s) \ created = InScenario(s)
  BY DEF InScenario
<1>8. RegisteredAsStored'
  <2> SUFFICES ASSUME NEW s \in Scenarios
               PROVE  registered'[s] = InScenario(s)' \ (leftovers' \cup Pending')
    BY DEF RegisteredAsStored
  <2>1. registered[s] = InScenario(s) \ leftovers
    BY <1>5 DEF IInv, RegisteredAsStored
  <2> QED BY <2>1, <1>2, <1>5, <1>6, <1>7
<1> QED BY <1>1, <1>3, <1>4, <1>8 DEF IInv

LEMMA WithinTyped ==
  ASSUME NEW ids \in SUBSET Ids, NEW target, \A i \in ids : target[i] \in Stubs
  PROVE  /\ Within(ids, target) \in [Ids -> Stubs \cup {None}]
         /\ \A i \in ids : Within(ids, target)[i] # None
BY NoneAssumption DEF Within

LEMMA OperationIInv == IInv /\ Operation => IInv'
<1> SUFFICES ASSUME IInv, Operation PROVE IInv'
  OBVIOUS
<1> USE DEF Kinds
<1>1. ASSUME NEW i \in Ids, NEW stub \in Stubs, AddMapping(i, stub) \/ EditMapping(i, stub)
      PROVE  IInv'
  <2>1. Only(i, stub) \in [Ids -> Stubs \cup {None}] /\ Only(i, stub)[i] # None
    BY NoneAssumption DEF Only
  <2>2. Begin("alter", {i}, Only(i, stub), {})
    BY <1>1 DEF AddMapping, EditMapping
  <2> QED BY <2>1, <2>2, BeginIInv
<1>2. ASSUME NEW ids \in SUBSET Ids, NEW target \in [ids -> Stubs],
             UpdateMappings(ids, target)
      PROVE  IInv'
  <2>1. Begin("alter", ids, Within(ids, target), {})
    BY <1>2 DEF UpdateMappings
  <2> QED BY <2>1, WithinTyped, BeginIInv
<1>3. ASSUME NEW ids \in SUBSET Ids, NEW target, \A i \in ids : target[i] \in Stubs,
             SetAllMappings(ids, target)
      PROVE  IInv'
  <2>1. Begin("setAll", ids \cup StoredIds, Within(ids, target), Files)
    BY <1>3 DEF SetAllMappings
  <2>2. \A i \in ids \cup StoredIds : stored[i] # None \/ Within(ids, target)[i] # None
    BY <1>3, WithinTyped DEF StoredIds
  <2>3. Files \in SUBSET Ids /\ ids \cup StoredIds \in SUBSET Ids
    BY DEF Files, StoredIds
  <2>4. Within(ids, target) \in [Ids -> Stubs \cup {None}]
    BY <1>3, WithinTyped
  <2> HIDE DEF Kinds
  <2>5. "setAll" \in Kinds
    BY DEF Kinds
  <2> QED BY <2>1, <2>2, <2>3, <2>4, <2>5, BeginIInv
<1>4. ASSUME SaveMappings PROVE IInv'
  <2> DEFINE target == [i \in StoredIds |-> [stored[i] EXCEPT !.persistent = TRUE]]
  <2>1. \A i \in StoredIds : target[i] \in Stubs
    BY DEF IInv, TypeOK, StoredIds, Stubs
  <2>2. SetAllMappings(StoredIds, target)
    BY <1>4 DEF SaveMappings
  <2>3. StoredIds \in SUBSET Ids
    BY DEF StoredIds
  <2> HIDE DEF target
  <2> QED BY <2>1, <2>2, <2>3, <1>3
<1>5. ASSUME NEW ids \in SUBSET Ids, RemoveMappings(ids) PROVE IInv'
  <2> DEFINE files == {i \in ids : Persistent(stored[i])}
  <2>1. Begin("alter", ids, Within({}, stored), files)
    BY <1>5 DEF RemoveMappings
  <2>2. \A i \in ids : stored[i] # None
    BY <1>5 DEF RemoveMappings, StoredIds
  <2>3. files \in SUBSET Ids
    OBVIOUS
  <2>4. Within({}, stored) \in [Ids -> Stubs \cup {None}]
    BY WithinTyped
  <2> HIDE DEF files
  <2> QED BY <2>1, <2>2, <2>3, <2>4, BeginIInv
<1>6. ASSUME ResetMappings PROVE IInv'
  <2>1. Begin("clear", StoredIds, Within({}, stored), Files)
    BY <1>6 DEF ResetMappings
  <2>2. \A i \in StoredIds : stored[i] # None
    BY DEF StoredIds
  <2>3. Files \in SUBSET Ids /\ StoredIds \in SUBSET Ids
    BY DEF Files, StoredIds
  <2>4. Within({}, stored) \in [Ids -> Stubs \cup {None}]
    BY WithinTyped
  <2>5. "clear" \in Kinds
    OBVIOUS
  <2> HIDE DEF Kinds
  <2> QED BY <2>1, <2>2, <2>3, <2>4, <2>5, BeginIInv
<1>7. ASSUME ResetToDefault PROVE IInv'
  <2>1. call' = NoCall
    BY <1>7 DEF ResetToDefault, IInv, TypeOK
  <2> QED BY <1>7, <2>1, LoadIInv DEF ResetToDefault
<1> QED BY <1>1, <1>2, <1>3, <1>4, <1>5, <1>6, <1>7 DEF Operation

-----------------------------------------------------------------------------
(* The files                                                               *)

LEMMA DeleteIInv ==
  ASSUME IInv, NEW i \in Ids, DeleteNext(i)
  PROVE  IInv'
<1> USE DEF IInv, DeleteNext
<1>1. call' \in Calls /\ disk' \in [Ids -> Stubs \cup {None}]
  BY DEF TypeOK, Calls
<1>2. readOnly' \subseteq Files'
  BY DEF TypeOK, Files, MayDelete
<1>3. call'.busy
  BY DEF TypeOK, NoCall, Calls
<1>4. /\ call'.created = call.created /\ call'.alter = call.alter
      /\ call'.save = call.save /\ call'.ids = call.ids /\ call'.target = call.target
  BY DEF TypeOK, Calls
<1>5. TypeOK'
  BY <1>1, <1>2, <1>3, <1>4 DEF TypeOK
<1>6. CallInv' /\ LeftInv'
  BY <1>4 DEF CallInv, LeftInv
<1>7. RegisteredAsStored'
  BY <1>4 DEF RegisteredAsStored, InScenario, Pending
<1> QED BY <1>5, <1>6, <1>7

LEMMA SaveIInv ==
  ASSUME IInv, NEW i \in Ids, SaveNext(i)
  PROVE  IInv'
<1> USE DEF IInv, SaveNext
<1>1. call' \in Calls /\ disk' \in [Ids -> Stubs \cup {None}]
  BY DEF TypeOK, Calls
<1>2. readOnly' \subseteq Files'
  BY DEF TypeOK, Files
<1>3. call'.busy
  BY DEF TypeOK, NoCall, Calls
<1>4. /\ call'.created = call.created /\ call'.alter = call.alter
      /\ call'.save \subseteq call.save /\ call'.ids = call.ids
      /\ call'.target = call.target /\ call'.delete = {}
  BY DEF TypeOK, Calls
<1>5. TypeOK'
  BY <1>1, <1>2, <1>3, <1>4 DEF TypeOK
<1>6. CallInv' /\ LeftInv'
  BY <1>4 DEF CallInv, LeftInv
<1>7. RegisteredAsStored'
  BY <1>4 DEF RegisteredAsStored, InScenario, Pending
<1> QED BY <1>5, <1>6, <1>7

\* What the failed call created is Pending: it is undone, or left behind.
LEMMA FailIInv ==
  ASSUME IInv, NEW touched \in SUBSET Ids, Fail(touched),
         call.delete # {} \/ call.save # {}
  PROVE  IInv'
<1> USE DEF IInv, Fail
<1>1. call.created = Pending
  BY DEF CallInv, Pending
<1>2. stored' \in [Ids -> Stubs \cup {None}]
  BY DEF TypeOK
<1>3. call.created \subseteq Ids
  BY DEF TypeOK, Calls
<1>4. TypeOK'
  BY <1>2, <1>3, NoCallTyped DEF TypeOK, NoCall, Files
<1>5. CallInv' /\ LeftInv'
  BY <1>3 DEF TypeOK, CallInv, LeftInv, NoCall, Undone
<1>6. ASSUME NEW s \in Scenarios
      PROVE  InScenario(s)' = InScenario(s) \ Undone
  BY DEF InScenario
<1>7. RegisteredAsStored'
  <2> SUFFICES ASSUME NEW s \in Scenarios
               PROVE  registered'[s] = InScenario(s)' \ (leftovers' \cup Pending')
    BY DEF RegisteredAsStored
  <2>1. Pending' = {}
    BY DEF Pending, NoCall
  <2>2. registered[s] = InScenario(s) \ (leftovers \cup call.created)
    BY <1>1 DEF RegisteredAsStored
  <2>3. Undone \subseteq call.created
    BY DEF Undone
  <2> QED BY <2>1, <2>2, <2>3, <1>6
<1> QED BY <1>4, <1>5, <1>7

LEMMA FilingIInv == IInv /\ Filing => IInv'
<1> SUFFICES ASSUME IInv, Filing PROVE IInv'
  OBVIOUS
<1>1. call.ids \in SUBSET Ids
  BY DEF IInv, TypeOK, Calls
<1>2. ASSUME DeleteFails PROVE IInv'
  BY <1>1, <1>2, FailIInv DEF DeleteFails
<1>3. ASSUME SaveFails PROVE IInv'
  BY <1>1, <1>3, FailIInv DEF SaveFails
<1> QED BY <1>2, <1>3, DeleteIInv, SaveIInv DEF Filing

-----------------------------------------------------------------------------
(* The store and the scenarios                                             *)

LEMMA AlterCreatedIInv ==
  ASSUME IInv, NEW i \in Ids, AlterCreated(i)
  PROVE  IInv'
<1> USE DEF IInv, AlterCreated, MayAlter, Filed
<1>1. /\ call' \in Calls /\ call'.busy /\ call'.alter = call.alter \ {i}
      /\ call'.created = call.created /\ call'.ids = call.ids
      /\ call'.target = call.target /\ call'.save = {} /\ call'.delete = {}
  BY DEF TypeOK, Calls
<1>2. registered' \in [Scenarios -> SUBSET Ids]
  BY DEF TypeOK, Register
<1>3. TypeOK'
  BY <1>1, <1>2 DEF TypeOK, Files
<1>4. CallInv' /\ LeftInv'
  BY <1>1 DEF CallInv, LeftInv
<1>5. RegisteredAsStored'
  <2> SUFFICES ASSUME NEW s \in Scenarios
               PROVE  registered'[s] = InScenario(s)' \ (leftovers' \cup Pending')
    BY DEF RegisteredAsStored
  <2>1. Pending' = Pending \ {i} /\ i \in Pending /\ i \notin leftovers
    BY <1>1 DEF Pending, LeftInv
  <2>2. registered[s] = InScenario(s) \ (leftovers \cup Pending)
    BY DEF RegisteredAsStored
  <2>3. InScenario(s)' = InScenario(s)
    BY DEF InScenario
  <2>4. registered'[s] = registered[s] \cup (InScenario(s) \cap {i})
    BY DEF Register, InScenario, CallInv
  <2> QED BY <2>1, <2>2, <2>3, <2>4
<1> QED BY <1>3, <1>4, <1>5

LEMMA AlterStoredIInv ==
  ASSUME IInv, NEW i \in Ids, AlterStored(i)
  PROVE  IInv'
<1> DEFINE old == stored[i]
           new == call.target[i]
<1>1. /\ call.busy /\ call.delete = {} /\ call.save = {} /\ i \in call.alter
      /\ i \notin call.created
      /\ registered' = Register(Unregister(registered, i, old, new), i, new)
      /\ stored' = [stored EXCEPT ![i] = new]
      /\ call' = [call EXCEPT !.alter = @ \ {i}]
      /\ leftovers' = leftovers \ {i}
      /\ unsure' \in SUBSET Ids
      /\ UNCHANGED <<disk, readOnly>>
  BY DEF AlterStored, MayAlter, Filed, IInv, TypeOK
<1>2. /\ call' \in Calls /\ call'.busy /\ call'.alter = call.alter \ {i}
      /\ call'.created = call.created /\ call'.ids = call.ids
      /\ call'.target = call.target /\ call'.save = {} /\ call'.delete = {}
  BY <1>1 DEF IInv, TypeOK, Calls
<1>3. new \in Stubs \cup {None} /\ old \in Stubs
  BY <1>1 DEF IInv, TypeOK, CallInv, Calls
<1>4. stored' \in [Ids -> Stubs \cup {None}] /\ stored'[i] = new
      /\ \A j \in Ids : j # i => stored'[j] = stored[j]
  BY <1>1, <1>3 DEF IInv, TypeOK
<1> HIDE DEF old, new
<1>5. registered' \in [Scenarios -> SUBSET Ids]
  BY <1>1 DEF IInv, TypeOK, Register, Unregister
<1>6. \A j \in call'.created : stored'[j] = call'.target[j] /\ stored'[j] # None
  <2>1. call.created \subseteq Ids
    BY DEF IInv, TypeOK, Calls
  <2> QED BY <1>1, <1>2, <1>4, <2>1 DEF IInv, TypeOK
<1>7. TypeOK'
  BY <1>1, <1>2, <1>4, <1>5, <1>6 DEF IInv, TypeOK, Files
<1>8. CallInv' /\ LeftInv'
  <2>1. call.alter \subseteq Ids /\ leftovers \subseteq Ids
    BY DEF IInv, TypeOK, Calls
  <2> QED BY <1>1, <1>2, <1>4, <2>1 DEF IInv, CallInv, LeftInv
<1>9. RegisteredAsStored'
  <2> SUFFICES ASSUME NEW s \in Scenarios
               PROVE  registered'[s] = InScenario(s)' \ (leftovers' \cup Pending')
    BY DEF RegisteredAsStored
  <2>1. Pending' = Pending /\ i \notin Pending
    BY <1>1, <1>2 DEF Pending
  <2>2. registered[s] = InScenario(s) \ (leftovers \cup Pending)
    BY DEF IInv, RegisteredAsStored
  <2>3. InScenario(s)' \ {i} = InScenario(s) \ {i}
    BY <1>4 DEF InScenario
  <2>4. i \in InScenario(s)' <=> new # None /\ new.scenario = s
    BY <1>4 DEF InScenario
  <2>5. i \in InScenario(s) <=> old.scenario = s
    BY <1>3, NoneAssumption DEF InScenario, old
  <2>6. registered'[s] \ {i} = registered[s] \ {i}
    BY <1>1 DEF Register, Unregister
  <2>7. i \in registered'[s] <=> new # None /\ new.scenario = s
    <3>1. i \in registered[s] => old.scenario = s
      BY <2>2, <2>5
    <3> QED BY <1>1, <3>1 DEF Register, Unregister
  <2> QED BY <1>1, <2>1, <2>2, <2>3, <2>4, <2>6, <2>7
<1> QED BY <1>7, <1>8, <1>9 DEF IInv

\* A stub whose scenario is missing was left behind by an earlier call.
LEMMA AlterFailsIInv ==
  ASSUME IInv, NEW i \in Ids, AlterFails(i)
  PROVE  IInv'
<1> DEFINE old == stored[i]
           new == call.target[i]
<1>1. /\ i \in call.alter /\ i \notin call.created
      /\ ScenarioIsMissing(old, new)
      /\ stored' = [stored EXCEPT ![i] = new]
      /\ leftovers' = (leftovers \ {j \in {i} : new = None}) \cup Pending
      /\ unsure' = unsure \cup call.ids
      /\ call' = NoCall
      /\ UNCHANGED <<registered, disk, readOnly>>
  BY DEF AlterFails, MayAlter
<1>2. call.ids \subseteq Ids /\ call.created \subseteq Ids /\ call.alter \subseteq Ids
  BY DEF IInv, TypeOK, Calls
<1>3. new \in Stubs \cup {None} /\ old \in Stubs
  BY <1>1 DEF IInv, TypeOK, CallInv, Calls
<1>4. stored' \in [Ids -> Stubs \cup {None}] /\ stored'[i] = new
      /\ \A j \in Ids : j # i => stored'[j] = stored[j]
  BY <1>1, <1>3 DEF IInv, TypeOK
<1>5. i \in leftovers /\ i \notin Pending
  <2>1. i \in InScenario(old.scenario)
    BY <1>3, NoneAssumption DEF InScenario
  <2>2. old.scenario \in Scenarios /\ registered[old.scenario] = {}
    BY <1>1 DEF ScenarioIsMissing
  <2>3. registered[old.scenario] = InScenario(old.scenario) \ (leftovers \cup Pending)
    BY <2>2 DEF IInv, RegisteredAsStored
  <2> QED BY <1>1, <2>1, <2>2, <2>3 DEF Pending
<1> HIDE DEF old, new
<1>6. TypeOK'
  BY <1>1, <1>2, <1>4, NoCallTyped DEF IInv, TypeOK, NoCall, Files, Pending
<1>7. CallInv'
  BY <1>1 DEF CallInv, NoCall
<1>8. LeftInv'
  <2>1. \A j \in Pending : stored[j] # None
    BY DEF IInv, TypeOK, Pending
  <2>2. \A j \in leftovers : stored[j] # None /\ j \in Ids
    BY DEF IInv, TypeOK, LeftInv
  <2>3. Pending \subseteq Ids
    BY <1>2 DEF Pending
  <2>4. \A j \in leftovers' : stored'[j] # None
    BY <1>1, <1>4, <1>5, <2>1, <2>2, <2>3
  <2> QED BY <1>1, <2>4 DEF LeftInv, NoCall
<1>9. RegisteredAsStored'
  <2> SUFFICES ASSUME NEW s \in Scenarios
               PROVE  registered'[s] = InScenario(s)' \ (leftovers' \cup Pending')
    BY DEF RegisteredAsStored
  <2>1. Pending' = {}
    BY <1>1 DEF Pending, NoCall
  <2>2. registered[s] = InScenario(s) \ (leftovers \cup Pending)
    BY DEF IInv, RegisteredAsStored
  <2>3. InScenario(s)' \ {i} = InScenario(s) \ {i}
    BY <1>4 DEF InScenario
  <2>4. new = None => i \notin InScenario(s)'
    BY <1>4 DEF InScenario
  <2> QED BY <1>1, <1>5, <2>1, <2>2, <2>3, <2>4
<1> QED BY <1>6, <1>7, <1>8, <1>9 DEF IInv

LEMMA AlteringIInv == IInv /\ Altering => IInv'
<1> SUFFICES ASSUME IInv, Altering PROVE IInv'
  OBVIOUS
<1>1. ASSUME EndCall PROVE IInv'
  <2>1. TypeOK' /\ CallInv' /\ LeftInv'
    BY <1>1, NoCallTyped DEF EndCall, IInv, TypeOK, CallInv, LeftInv, NoCall, Files
  <2>2. RegisteredAsStored'
    BY <1>1 DEF EndCall, IInv, RegisteredAsStored, InScenario, Pending, NoCall
  <2> QED BY <2>1, <2>2 DEF IInv
<1>2. ASSUME Clear PROVE IInv'
  <2>1. TypeOK' /\ CallInv' /\ LeftInv'
    BY <1>2, NoCallTyped DEF Clear, IInv, TypeOK, CallInv, LeftInv, NoCall, Files
  <2>2. RegisteredAsStored'
    BY <1>2 DEF Clear, RegisteredAsStored, InScenario
  <2> QED BY <2>1, <2>2 DEF IInv
<1> QED BY <1>1, <1>2, AlterCreatedIInv, AlterStoredIInv, AlterFailsIInv DEF Altering

-----------------------------------------------------------------------------

\* Every admin operation, each file write that fails and a restart at any moment
\* keep the inductive invariant of the store, the files and the scenarios.
THEOREM Invariant == Spec => []IInv
<1>1. IInv /\ [Next]_vars => IInv'
  <2> SUFFICES ASSUME IInv, [Next]_vars PROVE IInv'
    OBVIOUS
  <2>1. ASSUME Restart PROVE IInv'
    BY <2>1, LoadIInv DEF Restart
  <2>2. ASSUME UNCHANGED vars PROVE IInv'
    BY <2>2 DEF vars, IInv, TypeOK, CallInv, LeftInv, RegisteredAsStored, InScenario,
                Pending, Files
  <2> QED BY <2>1, <2>2, OperationIInv, FilingIInv, AlteringIInv DEF Next
<1> QED BY InitIInv, <1>1, PTL DEF Spec

\* Every state has the types TypeOK gives; read-only files are never deleted.
THEOREM TypeCorrect == Spec => []TypeOK
<1>1. IInv => TypeOK
  BY DEF IInv
<1> QED BY <1>1, Invariant, PTL

\* However calls fail and whenever the process dies, the scenarios hold the
\* stubs of the store, but for the ones pending and the ones left behind.
THEOREM RegisteredAsStoredHolds == Spec => []RegisteredAsStored
<1>1. IInv => RegisteredAsStored
  BY DEF IInv
<1> QED BY <1>1, Invariant, PTL

-----------------------------------------------------------------------------
(* The files agree with the store                                          *)

\* What a file and the store must agree on: a persistent stub.
Agree(stub, file) == Persistent(stub) \/ Persistent(file) => file = stub

\* The stub the store held when the call began.
Before(i) == IF i \in call.created THEN None ELSE stored[i]

\* Of the stubs the call leaves alone.
OthersAgree == \A i \in Settled : Agree(stored[i], disk[i])

\* Of a stub of the call, what is still to be done to its file, or that nothing
\* is; editing a stub to be persistent no more makes its file unsure.
FilesToCome ==
  \A i \in call.ids \ unsure :
    IF Persistent(call.target[i])
      THEN i \in call.save \/ disk[i] = call.target[i]
      ELSE \/ i \in call.delete
           \/ ~Persistent(disk[i])
           \/ call.kind = "alter" /\ call.target[i] # None /\ Persistent(stored[i])

\* How far the call is.
CallOrder ==
  /\ \A i \in call.ids \ call.alter : stored[i] = call.target[i]
  /\ call.delete # {} => \A i \in call.ids : Persistent(call.target[i]) => i \in call.save

\* What distinguishes the kinds of calls.
KindInv ==
  /\ call.kind = "alter" => call.delete \subseteq call.ids
  /\ call.kind # "alter" =>
       /\ call.delete \subseteq Files
       /\ \A i \in Ids \ call.ids : stored[i] = None
  /\ call.kind = "clear" => \A i \in call.ids : call.target[i] = None

\* removeAll that is going to refuse has changed no file.
RefusalInv ==
  call.kind # "alter" /\ readOnly # {} /\ call.delete # {} =>
    \A i \in call.ids \ unsure : Agree(Before(i), disk[i])

FileInv == OthersAgree /\ FilesToCome /\ CallOrder /\ KindInv /\ RefusalInv

LEMMA LoadFileInv ==
  ASSUME LoadedFrom(disk), UNCHANGED <<disk, readOnly>>, call' = NoCall
  PROVE  FileInv'
<1>1. \A i \in Ids \ unsure' : Agree(stored'[i], disk'[i])
  BY DEF LoadedFrom, Agree
<1> QED BY <1>1 DEF FileInv, OthersAgree, Settled, FilesToCome, CallOrder, KindInv, RefusalInv, NoCall

LEMMA BeginFileInv ==
  ASSUME TypeOK, FileInv, NEW kind \in Kinds, NEW ids \in SUBSET Ids,
         NEW target \in [Ids -> Stubs \cup {None}], NEW files \in SUBSET Ids,
         kind = "alter" =>
           /\ files \subseteq ids
           /\ \A i \in ids : target[i] = None => i \in files \/ ~Persistent(stored[i]),
         kind # "alter" => files = Files /\ StoredIds \subseteq ids,
         kind = "clear" => \A i \in ids : target[i] = None,
         Begin(kind, ids, target, files)
  PROVE  FileInv'
<1> DEFINE created == {i \in ids : stored[i] = None /\ target[i] # None}
<1>1. /\ call'.kind = kind /\ call'.ids = ids /\ call'.target = target
      /\ call'.created = created /\ call'.delete = files /\ call'.alter = ids
      /\ call'.save = {i \in ids : Persistent(target[i])}
      /\ stored' = [i \in Ids |-> IF i \in created THEN target[i] ELSE stored[i]]
      /\ UNCHANGED <<disk, readOnly, unsure>>
  BY DEF Begin
<1>2. \A i \in Ids \ unsure : Agree(stored[i], disk[i])
  BY DEF Begin, TypeOK, FileInv, OthersAgree, Settled, NoCall
<1> HIDE DEF created
<1>3. OthersAgree'
  BY <1>1, <1>2 DEF OthersAgree, Settled, created
<1>4. FilesToCome'
  <2> SUFFICES ASSUME NEW i \in ids \ unsure, ~Persistent(target[i]), i \notin files,
                      Persistent(disk[i])
               PROVE  kind = "alter" /\ target[i] # None /\ Persistent(stored'[i])
    BY <1>1 DEF FilesToCome
  <2>1. disk[i] = stored[i]
    BY <1>2 DEF Agree
  <2>2. kind = "alter"
    BY DEF Files, Persistent
  <2>3. target[i] # None
    BY <2>1, <2>2
  <2>4. stored'[i] = stored[i]
    BY <1>1, <2>1 DEF created, Persistent
  <2> QED BY <2>1, <2>2, <2>3, <2>4
<1>5. CallOrder'
  BY <1>1 DEF CallOrder
<1>6. KindInv'
  BY <1>1 DEF KindInv, Files, StoredIds, created
<1>7. RefusalInv'
  BY <1>1, <1>2 DEF RefusalInv, Before, created, Agree
<1> QED BY <1>3, <1>4, <1>5, <1>6, <1>7 DEF FileInv

LEMMA OperationFileInv == IInv /\ FileInv /\ Operation => FileInv'
<1> SUFFICES ASSUME IInv, FileInv, Operation PROVE FileInv'
  OBVIOUS
<1>0. TypeOK /\ {"alter", "setAll", "clear"} = Kinds
  BY DEF IInv, Kinds
<1>1. ASSUME NEW i \in Ids, NEW stub \in Stubs, AddMapping(i, stub) \/ EditMapping(i, stub)
      PROVE  FileInv'
  <2>1. Only(i, stub) \in [Ids -> Stubs \cup {None}] /\ Only(i, stub)[i] # None
    BY NoneAssumption DEF Only
  <2>2. Begin("alter", {i}, Only(i, stub), {})
    BY <1>1 DEF AddMapping, EditMapping
  <2> DEFINE ids == {i}
             target == Only(i, stub)
  <2>3. ids \in SUBSET Ids /\ \A j \in ids : target[j] # None
    BY <2>1
  <2> HIDE DEF ids, target
  <2>4. target \in [Ids -> Stubs \cup {None}] /\ Begin("alter", ids, target, {})
    BY <2>1, <2>2 DEF ids, target
  <2> QED BY <1>0, <2>3, <2>4, BeginFileInv
<1>2. ASSUME NEW ids \in SUBSET Ids, NEW target \in [ids -> Stubs],
             UpdateMappings(ids, target)
      PROVE  FileInv'
  <2>1. Begin("alter", ids, Within(ids, target), {})
    BY <1>2 DEF UpdateMappings
  <2>2. /\ Within(ids, target) \in [Ids -> Stubs \cup {None}]
        /\ \A i \in ids : Within(ids, target)[i] # None
    BY WithinTyped
  <2> QED BY <1>0, <2>1, <2>2, BeginFileInv
<1>3. ASSUME NEW ids \in SUBSET Ids, NEW target, \A i \in ids : target[i] \in Stubs,
             SetAllMappings(ids, target)
      PROVE  FileInv'
  <2>1. Begin("setAll", ids \cup StoredIds, Within(ids, target), Files)
    BY <1>3 DEF SetAllMappings
  <2>2. Files \in SUBSET Ids /\ ids \cup StoredIds \in SUBSET Ids
    BY DEF Files, StoredIds
  <2>3. Within(ids, target) \in [Ids -> Stubs \cup {None}]
    BY <1>3, WithinTyped
  <2> QED BY <1>0, <2>1, <2>2, <2>3, BeginFileInv
<1>4. ASSUME SaveMappings PROVE FileInv'
  <2> DEFINE target == [i \in StoredIds |-> [stored[i] EXCEPT !.persistent = TRUE]]
  <2>1. \A i \in StoredIds : target[i] \in Stubs
    BY DEF IInv, TypeOK, StoredIds, Stubs
  <2>2. SetAllMappings(StoredIds, target)
    BY <1>4 DEF SaveMappings
  <2>3. StoredIds \in SUBSET Ids
    BY DEF StoredIds
  <2> HIDE DEF target
  <2> QED BY <2>1, <2>2, <2>3, <1>3
<1>5. ASSUME NEW ids \in SUBSET Ids, RemoveMappings(ids) PROVE FileInv'
  <2> DEFINE files == {i \in ids : Persistent(stored[i])}
  <2>1. Begin("alter", ids, Within({}, stored), files)
    BY <1>5 DEF RemoveMappings
  <2>2. /\ files \in SUBSET Ids /\ files \subseteq ids
        /\ \A i \in ids : i \in files \/ ~Persistent(stored[i])
    OBVIOUS
  <2>3. Within({}, stored) \in [Ids -> Stubs \cup {None}]
    BY WithinTyped
  <2> HIDE DEF files
  <2> QED BY <1>0, <2>1, <2>2, <2>3, BeginFileInv
<1>6. ASSUME ResetMappings PROVE FileInv'
  <2>1. Begin("clear", StoredIds, Within({}, stored), Files)
    BY <1>6 DEF ResetMappings
  <2>2. Files \in SUBSET Ids /\ StoredIds \in SUBSET Ids
    BY DEF Files, StoredIds
  <2>3. Within({}, stored) \in [Ids -> Stubs \cup {None}]
    BY WithinTyped
  <2>4. \A i \in StoredIds : Within({}, stored)[i] = None
    BY DEF Within, StoredIds
  <2> QED BY <1>0, <2>1, <2>2, <2>3, <2>4, BeginFileInv
<1>7. ASSUME ResetToDefault PROVE FileInv'
  <2>1. call' = NoCall
    BY <1>7 DEF ResetToDefault, IInv, TypeOK
  <2> QED BY <1>7, <2>1, LoadFileInv DEF ResetToDefault
<1> QED BY <1>1, <1>2, <1>3, <1>4, <1>5, <1>6, <1>7 DEF Operation

LEMMA DeleteFileInv ==
  ASSUME IInv, FileInv, NEW i \in Ids, DeleteNext(i)
  PROVE  FileInv'
<1>1. /\ i \in call.delete /\ MayDelete(i)
      /\ call'.delete = call.delete \ {i} /\ call'.kind = call.kind
      /\ call'.created = call.created /\ call'.alter = call.alter
      /\ call'.save = call.save /\ call'.ids = call.ids /\ call'.target = call.target
      /\ disk'[i] = None /\ \A j \in Ids \ {i} : disk'[j] = disk[j]
      /\ unsure' = unsure \ {i}
      /\ UNCHANGED <<stored, readOnly>>
  BY DEF DeleteNext, IInv, TypeOK, Calls
<1>2. call.ids \subseteq Ids /\ call.delete \subseteq Ids
  BY DEF IInv, TypeOK, Calls
<1>3. OthersAgree'
  <2>1. i \notin call.ids => stored[i] = None
    BY <1>1 DEF FileInv, KindInv
  <2> QED BY <1>1, <2>1 DEF FileInv, OthersAgree, Settled, Agree, Persistent
<1>4. FilesToCome'
  <2> SUFFICES ASSUME NEW j \in call.ids \ unsure'
               PROVE  IF Persistent(call.target[j])
                        THEN j \in call.save \/ disk'[j] = call.target[j]
                        ELSE \/ j \in call'.delete
                             \/ ~Persistent(disk'[j])
                             \/ call.kind = "alter" /\ call.target[j] # None /\ Persistent(stored[j])
    BY <1>1 DEF FilesToCome
  <2>1. CASE j = i
    BY <1>1, <2>1 DEF FileInv, CallOrder, Persistent
  <2>2. CASE j # i
    BY <1>1, <1>2, <2>2 DEF FileInv, FilesToCome
  <2> QED BY <2>1, <2>2
<1>5. CallOrder'
  BY <1>1 DEF FileInv, CallOrder
<1>6. KindInv'
  BY <1>1, <1>2 DEF FileInv, KindInv, Files
<1>7. RefusalInv'
  BY <1>1 DEF RefusalInv, MayDelete
<1> QED BY <1>3, <1>4, <1>5, <1>6, <1>7 DEF FileInv

LEMMA SaveFileInv ==
  ASSUME IInv, FileInv, NEW i \in Ids, SaveNext(i)
  PROVE  FileInv'
<1>1. /\ i \in call.save /\ i \in call.ids /\ call.delete = {}
      /\ call'.save = call.save \ {i} /\ call'.kind = call.kind
      /\ call'.created = call.created /\ call'.alter = call.alter
      /\ call'.delete = {} /\ call'.ids = call.ids /\ call'.target = call.target
      /\ disk'[i] = call.target[i] /\ \A j \in Ids \ {i} : disk'[j] = disk[j]
      /\ unsure' = unsure \ {i}
      /\ UNCHANGED <<stored, readOnly>>
  BY DEF SaveNext, IInv, TypeOK, Calls
<1>2. call.ids \subseteq Ids
  BY DEF IInv, TypeOK, Calls
<1>3. OthersAgree'
  BY <1>1 DEF FileInv, OthersAgree, Settled
<1>4. FilesToCome'
  <2> SUFFICES ASSUME NEW j \in call.ids \ unsure'
               PROVE  IF Persistent(call.target[j])
                        THEN j \in call'.save \/ disk'[j] = call.target[j]
                        ELSE \/ j \in call'.delete
                             \/ ~Persistent(disk'[j])
                             \/ call.kind = "alter" /\ call.target[j] # None /\ Persistent(stored[j])
    BY <1>1 DEF FilesToCome
  <2>1. CASE j = i
    BY <1>1, <2>1
  <2>2. CASE j # i
    BY <1>1, <1>2, <2>2 DEF FileInv, FilesToCome
  <2> QED BY <2>1, <2>2
<1>5. CallOrder'
  BY <1>1 DEF FileInv, CallOrder
<1>6. KindInv'
  BY <1>1 DEF FileInv, KindInv
<1>7. RefusalInv'
  BY <1>1 DEF RefusalInv
<1> QED BY <1>3, <1>4, <1>5, <1>6, <1>7 DEF FileInv

\* A call that fails leaves its files unsure, unless removeAll has refused.
LEMMA FailFileInv ==
  ASSUME IInv, FileInv, NEW touched \in SUBSET Ids, Fail(touched),
         \A i \in call.ids \ (unsure \cup touched) : Agree(Before(i), disk[i])
  PROVE  FileInv'
<1>1. call.created \subseteq call.ids /\ call.ids \subseteq Ids
  BY DEF IInv, TypeOK, Calls
<1>2. /\ stored' = [i \in Ids |-> IF i \in Undone THEN None ELSE stored[i]]
      /\ call' = NoCall /\ disk' = disk /\ unsure' = unsure \cup touched
  BY DEF Fail
<1>3. ASSUME NEW i \in Ids \ unsure' PROVE Agree(stored'[i], disk'[i])
  <2>1. CASE i \notin call.ids
    BY <1>1, <1>2, <2>1 DEF FileInv, OthersAgree, Settled, Undone
  <2>2. CASE i \in call.created
    <3>1. Agree(None, disk[i])
      BY <1>1, <1>2, <2>2 DEF Before
    <3>2. stored[i] = call.target[i]
      BY <2>2 DEF IInv, TypeOK
    <3> QED BY <1>2, <2>2, <3>1, <3>2 DEF Agree, Persistent, Undone
  <2>3. CASE i \in call.ids \ call.created
    BY <1>2, <2>3 DEF Before, Undone
  <2> QED BY <2>1, <2>2, <2>3
<1> QED BY <1>2, <1>3
        DEF FileInv, OthersAgree, Settled, FilesToCome, CallOrder, KindInv, RefusalInv, NoCall

LEMMA FilingFileInv == IInv /\ FileInv /\ Filing => FileInv'
<1> SUFFICES ASSUME IInv, FileInv, Filing PROVE FileInv'
  OBVIOUS
<1>1. call.ids \in SUBSET Ids
  BY DEF IInv, TypeOK, Calls
<1>2. ASSUME DeleteFails PROVE FileInv'
  <2>1. CASE call.kind = "alter"
    BY <1>1, <1>2, <2>1, FailFileInv DEF DeleteFails
  <2>2. CASE call.kind # "alter"
    <3>1. readOnly # {} /\ call.delete # {} /\ Fail({})
      BY <1>2, <2>2 DEF DeleteFails, MayDelete, FileInv, KindInv, Files
    <3>2. \A i \in call.ids \ unsure : Agree(Before(i), disk[i])
      BY <2>2, <3>1 DEF FileInv, RefusalInv
    <3> QED BY <3>1, <3>2, FailFileInv
  <2> QED BY <2>1, <2>2
<1>3. ASSUME SaveFails PROVE FileInv'
  BY <1>1, <1>3, FailFileInv DEF SaveFails
<1> QED BY <1>2, <1>3, DeleteFileInv, SaveFileInv DEF Filing

LEMMA AlterCreatedFileInv ==
  ASSUME IInv, FileInv, NEW i \in Ids, AlterCreated(i)
  PROVE  FileInv'
<1>1. /\ i \in call.created
      /\ call'.alter = call.alter \ {i} /\ call'.kind = call.kind
      /\ call'.created = call.created /\ call'.save = call.save
      /\ call'.delete = call.delete /\ call'.ids = call.ids /\ call'.target = call.target
      /\ UNCHANGED <<stored, disk, readOnly, unsure>>
  BY DEF AlterCreated, MayAlter, IInv, TypeOK, Calls
<1>2. stored[i] = call.target[i]
  BY <1>1 DEF IInv, TypeOK
<1>3. OthersAgree' /\ FilesToCome'
  BY <1>1 DEF FileInv, OthersAgree, Settled, FilesToCome
<1>4. CallOrder' /\ KindInv'
  BY <1>1, <1>2 DEF FileInv, CallOrder, KindInv, Files
<1>5. RefusalInv'
  BY <1>1 DEF FileInv, RefusalInv, Before
<1> QED BY <1>3, <1>4, <1>5 DEF FileInv

LEMMA AlterStoredFileInv ==
  ASSUME IInv, FileInv, NEW i \in Ids, AlterStored(i)
  PROVE  FileInv'
<1> DEFINE new == call.target[i]
           stale == call.kind = "alter" /\ Persistent(stored[i]) /\ new # None /\ ~new.persistent
<1>1. /\ call.delete = {} /\ call.save = {} /\ i \in call.alter /\ i \in call.ids
      /\ call'.alter = call.alter \ {i} /\ call'.kind = call.kind
      /\ call'.created = call.created /\ call'.save = {}
      /\ call'.delete = {} /\ call'.ids = call.ids /\ call'.target = call.target
      /\ stored'[i] = new /\ \A j \in Ids \ {i} : stored'[j] = stored[j]
      /\ unsure' = unsure \cup {j \in {i} : stale}
      /\ UNCHANGED <<disk, readOnly>>
  BY DEF AlterStored, MayAlter, Filed, IInv, TypeOK, Calls
<1>2. call.ids \subseteq Ids
  BY DEF IInv, TypeOK, Calls
<1>3. OthersAgree'
  BY <1>1 DEF FileInv, OthersAgree, Settled
<1>4. FilesToCome'
  <2> SUFFICES ASSUME NEW j \in call.ids \ unsure'
               PROVE  IF Persistent(call.target[j])
                        THEN disk[j] = call.target[j]
                        ELSE \/ ~Persistent(disk[j])
                             \/ call.kind = "alter" /\ call.target[j] # None /\ Persistent(stored'[j])
    BY <1>1 DEF FilesToCome
  <2>1. CASE j = i
    <3>1. ~stale
      BY <1>1, <2>1
    <3>2. IF Persistent(new) THEN disk[i] = new
          ELSE ~Persistent(disk[i]) \/ (call.kind = "alter" /\ new # None /\ Persistent(stored[i]))
      BY <1>1, <2>1 DEF FileInv, FilesToCome
    <3> QED BY <2>1, <3>1, <3>2 DEF Persistent
  <2>2. CASE j # i
    BY <1>1, <1>2, <2>2 DEF FileInv, FilesToCome
  <2> QED BY <2>1, <2>2
<1>5. CallOrder'
  BY <1>1, <1>2 DEF FileInv, CallOrder
<1>6. KindInv'
  BY <1>1 DEF FileInv, KindInv
<1>7. RefusalInv'
  BY <1>1 DEF RefusalInv
<1> QED BY <1>3, <1>4, <1>5, <1>6, <1>7 DEF FileInv

LEMMA AlteringFileInv == IInv /\ FileInv /\ Altering => FileInv'
<1> SUFFICES ASSUME IInv, FileInv, Altering PROVE FileInv'
  OBVIOUS
<1>1. call.ids \subseteq Ids
  BY DEF IInv, TypeOK, Calls
<1>2. ASSUME NEW i \in Ids, AlterFails(i) PROVE FileInv'
  <2>1. /\ i \in call.ids /\ call' = NoCall /\ disk' = disk /\ unsure' = unsure \cup call.ids
        /\ \A j \in Ids \ {i} : stored'[j] = stored[j]
    BY <1>2 DEF AlterFails, MayAlter, IInv, TypeOK
  <2>2. \A j \in Ids \ unsure' : Agree(stored'[j], disk'[j])
    BY <2>1 DEF FileInv, OthersAgree, Settled
  <2> QED BY <2>1, <2>2
          DEF FileInv, OthersAgree, Settled, FilesToCome, CallOrder, KindInv, RefusalInv, NoCall
<1>3. ASSUME EndCall PROVE FileInv'
  <2>1. /\ call.delete = {} /\ call.save = {} /\ call.alter = {} /\ call' = NoCall
        /\ UNCHANGED <<stored, disk, unsure>>
    BY <1>3 DEF EndCall, Filed
  <2>2. ASSUME NEW i \in call.ids \ unsure PROVE Agree(stored[i], disk[i])
    <3>1. stored[i] = call.target[i]
      BY <2>1 DEF FileInv, CallOrder
    <3> QED BY <2>1, <3>1 DEF FileInv, FilesToCome, Agree
  <2>3. \A i \in Ids \ unsure' : Agree(stored'[i], disk'[i])
    BY <2>1, <2>2 DEF FileInv, OthersAgree, Settled
  <2> QED BY <2>1, <2>3
          DEF FileInv, OthersAgree, Settled, FilesToCome, CallOrder, KindInv, RefusalInv, NoCall
<1>4. ASSUME Clear PROVE FileInv'
  <2>1. /\ call.kind = "clear" /\ call.delete = {} /\ call.save = {} /\ call' = NoCall
        /\ \A i \in Ids : stored'[i] = None
        /\ UNCHANGED <<disk, unsure>>
    BY <1>4 DEF Clear, Filed
  <2>2. ASSUME NEW i \in Ids \ unsure PROVE ~Persistent(disk[i])
    <3>1. CASE i \in call.ids
      <4>1. call.target[i] = None
        BY <2>1, <3>1 DEF FileInv, KindInv
      <4> QED BY <2>1, <3>1, <4>1 DEF FileInv, FilesToCome, Persistent
    <3>2. CASE i \notin call.ids
      <4>1. stored[i] = None /\ Agree(stored[i], disk[i])
        BY <2>1, <3>2 DEF FileInv, KindInv, OthersAgree, Settled
      <4> QED BY <4>1 DEF Agree, Persistent
    <3> QED BY <3>1, <3>2
  <2>3. \A i \in Ids \ unsure' : Agree(stored'[i], disk'[i])
    BY <2>1, <2>2 DEF Agree, Persistent
  <2> QED BY <2>1, <2>3
          DEF FileInv, OthersAgree, Settled, FilesToCome, CallOrder, KindInv, RefusalInv, NoCall
<1> QED BY <1>2, <1>3, <1>4, AlterCreatedFileInv, AlterStoredFileInv DEF Altering

\* A restart at any moment, or a reset to defaults, finds every persistent stub
\* in its file, and no other stub, but for what a call was altering.
THEOREM FilesAgree == Spec => []FileInv
<1>1. Init => FileInv
  BY DEF Init, FileInv, OthersAgree, Settled, Agree, FilesToCome, CallOrder, KindInv,
         RefusalInv, NoCall
<1>2. IInv /\ FileInv /\ [Next]_vars => FileInv'
  <2> SUFFICES ASSUME IInv, FileInv, [Next]_vars PROVE FileInv'
    OBVIOUS
  <2>1. ASSUME Restart PROVE FileInv'
    BY <2>1, LoadFileInv DEF Restart
  <2>2. ASSUME UNCHANGED vars PROVE FileInv'
    BY <2>2 DEF vars, FileInv, OthersAgree, Settled, FilesToCome, CallOrder, KindInv,
                RefusalInv, Before, Files
  <2> QED BY <2>1, <2>2, OperationFileInv, FilingFileInv, AlteringFileInv DEF Next
<1> QED BY <1>1, <1>2, Invariant, PTL DEF Spec

\* Restart and resetToDefault load a stub that is persistent as it was stored,
\* unless a call was altering it or a failed one has left its file unlike it.
THEOREM PersistentAlwaysSurvives == Spec => PersistentSurvives
<1> DEFINE Survives == Restart \/ ResetToDefault =>
             \A i \in Settled : Persistent(stored[i]) => stored'[i] = stored[i]
<1>1. FileInv => Survives
  BY DEF FileInv, OthersAgree, Agree, Restart, ResetToDefault, LoadedFrom
<1>2. FileInv /\ [Next]_vars => [Survives]_vars
  BY <1>1
<1> QED BY <1>2, FilesAgree, PTL DEF Spec, PersistentSurvives

\* Nor do they load a persistent stub that had been removed.
THEOREM RemovedAlwaysStaysRemoved == Spec => RemovedStaysRemoved
<1> DEFINE StaysRemoved == Restart \/ ResetToDefault =>
             \A i \in Settled : stored[i] = None => ~Persistent(stored'[i])
<1>1. FileInv => StaysRemoved
  BY DEF FileInv, OthersAgree, Agree, Persistent, Restart, ResetToDefault, LoadedFrom
<1>2. FileInv /\ [Next]_vars => [StaysRemoved]_vars
  BY <1>1
<1> QED BY <1>2, FilesAgree, PTL DEF Spec, RemovedStaysRemoved
=============================================================================
