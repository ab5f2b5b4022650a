# WireMock in TLA+

WireMock serves HTTP requests from *stub mappings* that an admin API adds,
edits and removes while it runs.  Its hard behaviour is in the state those two
sides share: stubs and scenarios that requests read and advance, journals that
requests and messages fill and the admin API empties, stores in files and in
memory, channels, a recording.  This directory models that state, checks it
with TLC and proves most of what it checks with TLAPS.

Paths below are relative to
`src/wiremock-core/src/main/java/com/github/tomakehurst/wiremock/` unless they
begin with `src/`.

## The system

A request comes in on a thread of the HTTP server.  `AbstractRequestHandler.handle`
finds its stub (`StoreBackedStubMappings.serveFor`, which scans the stub store,
takes a snapshot of the scenarios and moves the stub's scenario on), renders the
response, records the request in the journal (`requestReceived`), sends the
response and records its completion (`serveCompleted`).  A message from a web
socket goes the same way through `MessageStubRequestHandler`, whose actions send
further messages to channels and whose journal wakes the threads that wait for
an event.  An admin call runs on another thread of the same server, against the
same objects, through `WireMockApp`.  No lock covers a request or an admin call:
the stores are concurrent collections, atomic in each access and in nothing
larger.  The exceptions are `KeyLocks`, around a compute on a file, and the
`synchronized` methods of `Recorder`.

| part | state | operations | talks to | what is hard |
|---|---|---|---|---|
| stub serving | none of its own | `serveFor` | stub store, scenarios, journal | scan and snapshot overlap with changes of states and of stubs |
| scenarios | scenario -> state, stubs | `onStubServed`, `setSingle`, `resetSingle`, `reset`, `onStubMapping*`, `clear` | scenario store | each change is an unlocked read and write |
| stub store | ordered set of stubs, insertion counter | add, replace, remove, clear, find | stub administration, requests | an edit is a removal and an addition; a scan meets changes |
| stub administration | | add, edit, update, set all, remove, reset | stub store, scenarios, mappings source, listeners | several stores change one after the other; calls overlap; any step may fail |
| mappings source | `fileNameMap`, files | save, remove, removeAll, setAll, load | file system | crash between steps, read-only files |
| request journal | deque of ids, map of events | `requestReceived`, `serveCompleted`, removals, `reset` | request threads, admin, recorder | two collections, a check-then-act eviction |
| recorder | status, first event, proxy stub | start, stop | journal, stubs | events may have gone between start and stop, and the proxy stub; a start or a stop may fail half-way |
| key locks | map key -> wrapper (lock, counter) | `withLock` | file object store | an entry comes and goes under its users |
| file object store | a file per key | get, put, compute, remove, clear | key locks | put and remove take no lock; writes are not atomic |
| in-memory object store | map, queue of use order | get, put, compute, remove, clear, resize | listeners | eviction over two collections |
| message journal | deque and map of events, listeners | `messageReceived`, `waitForEvent(s)`, removals, `reset` | message handler, waiting clients | look, then listen, then time out |
| message stubs, channels | channels by id, sinks by name | process, create, remove | message journal | unlocked uniqueness checks, order of replies |
| pure parts | none | matching, paging, import rules, rendering | | boundaries |

What makes each correct, in short: a request that has a stub in every state of
a scenario is served, by the first stub that matches, and only a stub whose
required state really was current; a scenario holds the stubs the store holds;
what is persistent survives, what is removed stays away; a journal lists the
newest events up to its limit and a reset empties it; a recording is the events
between its start and its stop; a key has one lock at a time and its entry
neither leaks nor goes away too early; no value computed is lost; a store in
memory evicts what was used least recently; a wait ends when its event arrives
and misses none; a channel that is listed works, and a message that finds it is
handled to the end.

`PROJECT.json` lists every part with its status, and each hazard at its line
with the properties that cover it or the reason why none does.

## Modules

| module | models | state and actions |
|---|---|---|
| `StubServing` | `serveFor`, `ScenarioSnapshot`, `AbstractScenarios` (state changes) | a program counter, position, snapshot and choice per request thread; the scan goes stub by stub, the snapshot is copied scenario by scenario, the scenario's move is a read and a write; admin threads set and reset scenarios, a reset of all one by one |
| `SerialServing` | the same, with a memory of whether calls have overlapped | `calm`; composes `StubServing` with `ScenarioMachine` |
| `ScenarioMachine` | what scenarios promise a client (abstract) | one state per scenario; a request is answered, and moves its scenario, in one step |
| `StubAdmin` | overlapping admin calls over `SortedConcurrentPrioritisableSet`, `InMemoryScenariosStore` and the scan of `serveFor` | `store` in its order, `registered`, for each admin thread the call and what it has in hand, for each request what it has scanned and chosen |
| `StubLifecycle` | all admin operations of `StoreBackedStubMappings` one call at a time, `JsonFileMappingsSource`, `AbstractScenarios` (registration) | `stored`, `registered`, `disk` and the `call` under way: what it still has to delete, save and alter; failing writes and crashes |
| `RequestJournal` | `AbstractRequestJournal`, `InMemoryRequestJournalStore` | the deque, the keys of the map; a program counter per request, and per admin thread what it still has to remove |
| `BoundedLog` | what a limited journal promises (abstract) | the events listed |
| `Recorder` | `recording/Recorder`, extending `RequestJournal`; the stubs that match any request, as its proxy stubs do | status, start event and proxy stub, the stage of the call under way and its walk through the journal; starts with a target or without, starts and stops that fail, admin calls that add and remove such stubs |
| `KeyLocks` | `common/KeyLocks` | the wrapper in the map for one key, its counter and holder; a program counter per thread |
| `FileObjectStore` | `store/files/FileSourceJsonObjectStore`, extending `KeyLocks` | the file's contents and what each `compute` has read |
| `ObjectStore` | `store/InMemoryObjectStore` | map, queue and, for each thread, its place in touch and resize |
| `LruCache` | what that store promises one client (abstract) | keys in the order of use |
| `MessageJournal` | `verification/StoreBackedMessageJournal`, `InMemoryMessageJournalStore` | deque, map, who has still to be told of each event; for each waiter its latch, its time and what it has found |
| `MessageChannels` | `message/MessageChannels`, `InMemoryChannelProviderDriver`, `MessageStubRequestHandler` | the channels and the sink of one name, the calls that create and remove it, each message's handling and journal entries |
| `*Proofs` | | theorems about the modules they extend |
| `MC*` | | small instances for TLC |

How the code was abstracted:

* A stub is what decides which stub serves: the requests it matches, its place
  in the order, its scenario, the state it requires and the one it sets.
  `StubAdmin` keeps its id, priority, insertion index and scenario,
  `StubLifecycle` its scenario and its persistent flag.  Bodies, headers and
  metadata are data no property looks at.
* Every read or write of a concurrent collection is a step.  Traversals follow
  the collections' weakly consistent contract: a scan visits the elements that
  were there when it began and are still there when it reaches them, and may or
  may not meet others; copying the scenario map reads each entry at a moment of
  its own.  The skip list of stubs is cleared from its front.
* An edit takes its stub out of the skip list and puts its successor in: between
  the two steps the stub is not there, and a request can miss it.
* A journal without a limit (`maxEntries == null`) is one whose limit is never
  reached.
* The time a wait is given can end at any step: nothing is assumed of its length.
* History variables record what a property refers to and guard nothing:
  `seen` (states current during a scan), `calm` (no calls have overlapped),
  `suspect` (ids that two calls have worked on at once), `raced` (scenarios of
  which a change was overwritten), `throughout` and `touched` of a request (the
  stubs there all the time, the ids calls worked on meanwhile), `unsure` and
  `leftovers` (ids without a promise, stubs a failed batch left behind),
  `before` (what a reset found), `known` and `older` (what a recording found),
  `own`, `failed` and `cut` (stubs the admin added, proxy stubs of starts and
  stops that failed, whether an admin has removed the recording's proxy stub),
  `applied`, `clobbered`, `slipped` (computes that ended, were overwritten, the
  gap of `KeyLocks`), `contended`, `start`, `last` (the object store's),
  `present`, `told`, `lasting`, `steady`, `ever` (the message journal's),
  `damaged`, `disturbed` (the channels').
* Definitions whose comment starts with "Mutant" are alternative forms of the
  definition that follows them, each a plausible mistake.  They are not used by
  the specifications; `PROJECT.json` names the property that each one violates.

## Checked with TLC

| run | shows | bounds |
|---|---|---|
| `serving` | A request that has a stub for each state of a scenario is never unmatched, an unmatched one has been excluded by a state there was, the required state of the stub served was current at some moment of the request; and for as long as calls do not overlap they implement `ScenarioMachine`. | two threads, three kinds of request, one admin; two scenarios, one that wraps around as in `ScenarioConcurrencyTest` |
| `serving_advance` (violation) | Overlapping calls do not: a scenario is moved from a state that its stub does not require to another one. | two threads, five stubs of every kind, a scenario of three states |
| `admin` | Adds, edits, removals and resets at the same time, and a request that scans the stubs meanwhile: an id has one stub, stubs and scenarios agree, no scenario is missed and the first match wins, with the exceptions the properties name. | two admins, three calls, one request; two ids, two scenarios, four stubs of two priorities; 359,000 states |
| `lifecycle` | Any sequence of admin operations, with saves that fail and crashes between any two steps: scenarios hold what the store holds; persistent stubs survive a crash or a reset to defaults; removed ones stay removed. | two stubs, two scenarios, no bound on the calls; 756,000 states |
| `lifecycle_undo` (violation) | A batch that cannot be saved leaves its unpersisted new stubs behind. | same |
| `journal` | The list is within its limit once evictions are done; evictions that overlap remove fewer surplus events than there are threads; the journal implements `BoundedLog`; each eviction ends; only a late completion leaves an event in the map alone. | four requests, two at once, limit 2; 148,000 states |
| `recording` | A reset leaves none of the events it found; the stubs between the recorder's calls are the admin's, the proxy stub of the recording and what failed starts and stops left; a stop that succeeds has the events journalled since the start and none from before. | two requests at once, limit 1, two calls of an admin or to start, two proxy stubs and another with their request pattern, there from the start; 2.4 million states |
| `filestore` | The counter of a wrapper is exact, no unused one stays; until a thread slips into the gap of `unlock` actions exclude one another and unlocks succeed, computes overwrite nothing they have not read, but for puts and removes, and all end, whatever throws. | two threads with two computes each, a writer, fairness; 1.2 million states |
| `filestore_lost` (violation) | In the gap a computed value is lost. | two threads, two computes each |
| `objects` | A call that overlaps with no other is one of an LRU cache; keys are queued once, and the limit exceeded by less than the number of threads, but for keys that two calls have had in hand at once. | two threads, five calls, four keys, limit 2 |
| `messages` | A wait that comes back short has missed nothing that was there for it; it ends when its event arrives, however long its time. | two events, one that matches, a waiter of each kind, limit 1, an admin with one call; fairness |
| `channels` | A name that is listed has one channel with a sink once calls have ended, and a message that finds its channel is handled to the end, until calls have overlapped. | three callers, two messages, four channels; 31,000 states |

**Why the bounds are enough to be interesting.**  Two threads make every race
between two accesses; three callers in `channels` let one find a name taken
while two others meet.  Two stubs and two scenarios let a batch succeed in
part, a stub move between scenarios that exist or not, and a call be about a
stub that another leaves alone.  Limits of 1 and 2 are reached by the second and
third event.  Each property is violated by a mutant of the code under these same
bounds.  `KeyLocks`, `StubServing`, `StubLifecycle` and `MessageChannels` count
no calls: their state spaces are finite without (the latter's but for the
messages and the names of channels).  `Calls`, `MaxCalls`, `MaxServed` and
`Events` bound the work elsewhere; those runs end in states with nothing left to
do and do not check deadlock; the others do.

**Fairness.**  `FairStoreSpec` (`FileObjectStore`) and `FairSpec`
(`RequestJournal`, `MessageJournal`) assume weak fairness for each thread that is
in a call: a Java thread is scheduled sooner or later.  Nothing is assumed of
clients and admins: no request, message or admin call need come, and no time of
a wait need end for `ArrivalsEndWaits`.  The fairness of `Acquire` is weak, so
a lock need not be handed out in order (`ReentrantLock` is unfair by default);
the computes are bounded, so no thread is overtaken for ever.

**What the properties except** says where this code makes no promise:

* `suspect` and `raced` (`StubAdmin`): two calls that add one id both find it
  free (`stubbing/StoreBackedStubMappings.java:189`); an edit whose stub has been
  removed since it looked puts nothing back yet registers it
  (`common/SortedConcurrentPrioritisableSet.java:75`); a registration that
  overlaps with another, or with a request that moves the scenario on, loses one
  of the two changes (`stubbing/AbstractScenarios.java:49`, `:104`).  The
  properties say that, of what `StubAdmin` models, this is all: a stub that only
  one call works on, in a scenario of which no change was lost, is where it
  should be.
* `OvershootIsBounded`: requests that count the same excess each evict an event
  on its account, so the journal falls short of its limit, by less than the
  number of threads (`verification/AbstractRequestJournal.java:125`).
* `OrphansAreStoredLate`: an event whose id is evicted between the check of it
  and the put that completes it stays in the map and in no list
  (`store/InMemoryRequestJournalStore.java:62`).
* `contended` (`ObjectStore`): a key that two calls have in hand can be queued
  twice or not at all; the eviction that finds the queue empty polls null
  (`store/InMemoryObjectStore.java:126`).  Between calls the limit may be
  exceeded by one key for each other thread.
* `ArrivalsEndWaits`: an event linked after `waitForEvent` has looked and before
  it listens wakes nobody; it is found when the time is up
  (`verification/StoreBackedMessageJournal.java:117`).
* `CapturesTheRecording`: a stop whose start event is no longer listed fails,
  after the status has been set to stopped (`recording/Recorder.java:98`).
* `RecordingsCleanUp`: a start that fails once its proxy stub is added leaves it
  there, as does a stop that fails to remove it (`failed`;
  `recording/Recorder.java:64`, `:88`).  A stop whose proxy stub an admin has
  removed takes another stub that has the same request pattern, if there is one
  (`cut`; `core/WireMockApp.java:379`).
* `damaged` (`MessageChannels`): two creations both find the name free, or a
  removal closes the sink that a creation has just put
  (`message/channel/InMemoryChannelProviderDriver.java:45`).

### What the violations say

* `serving_advance`: `onStubServed` checks the scenario's state and writes the
  new one in two accesses (`stubbing/AbstractScenarios.java:104-109`).  Two
  requests are served by the stub that requires `Started` and moves to `placed`;
  both find the scenario `Started`.  One moves it, the next request moves it on
  to `on`, and then the other puts it back to `placed`.
* `lifecycle_undo`: the undo in `updateMappings` only takes back the created
  stubs that are persistent (`stubbing/StoreBackedStubMappings.java:385`).  A
  stub left behind is in the store and in no scenario; when the scenario does
  not exist, serving or removing it throws `IllegalStateException`.  The
  variable `leftovers` names such stubs, and `RegisteredAsStored` says that
  they are the only ones.
* `filestore_lost`: `KeyLocks.unlock` (`common/KeyLocks.java:46-47`) drops the
  counter to 0 and removes the entry in two steps.  A thread that joins in
  between (`slipped`) holds a lock nobody else will find.

## Proved with TLAPS

The theorems hold for every value of the constants that satisfies the modules'
assumptions: any number of threads, calls, stubs, scenarios, requests and
messages, any limit.  Each rests on an inductive invariant with one lemma for
each action; the invariants were checked with TLC before they were proved.

* `StubServingProofs`: `TypeCorrect`, `NeverUnmatchedHolds`,
  `ServedStateWasCurrentHolds`, `UnmatchedIsJustifiedHolds`, and the refinement
  `SerialCallsAlwaysSeeTheMachine`.  None of the three properties is inductive.
  `IInv` adds: a scenario is only in states its stubs mention, or `Started`
  (`StateInv`); `seen` holds the current states while a thread scans (`SeenInv`); each entry of a snapshot was current at a moment in
  `seen` (`SnapInv`); every stub passed over does not match, or is excluded by
  the snapshot (`ScanInv`), and so is every stub before the one chosen
  (`ChosenInv`).  An unmatched request has then passed all stubs, all excluded
  by one snapshot; but the snapshot's state of a covering scenario is one for
  which there is a stub.  For the refinement, `CalmInv` adds that, until calls
  have overlapped, a thread's snapshot holds the current states (`Fresh`) and it
  has come to what it has chosen past stubs that are all excluded
  (`ChosenAtPos`); the machine then answers the same, in the step in which the
  thread puts the new state or finds that there is none to put, and every other
  step of a request stutters.  Assumptions: `StubsAssumption`, the types of the
  constants, and `CallersAssumption`: no caller is both a thread and an admin.
* `StubAdminProofs`: `TypeCorrect`, `IdsAreUnique`, `ScenariosAgree`,
  `NoScenarioIsMissed`, `FirstMatchAlwaysWins`.  `IInv` says what each call has
  in hand at each label (`Ready`); that an insertion index belongs to one id, so
  that an edit replaces no other stub (`Indexed`); for each id that is not
  suspect, how far the one call that works on it has got, and, with none at
  work, that store and scenarios agree on it (`Orderly`); and what a request has
  scanned (`Serving`).  `Frame` shows once that an id is left in order by every
  step of a call that does not work on it; `OrderlyStep` reduces a step to the
  ids its call works on.  Assumptions: the types of the constants, `None` is no
  scenario and no id, and neither `None` nor `NotConfigured` is a stub.
* `StubLifecycleProofs`: `TypeCorrect`, `RegisteredAsStoredHolds`,
  `PersistentAlwaysSurvives` and `RemovedAlwaysStaysRemoved`.  `IInv` adds
  `CallInv` (what is left to alter is in the store, and nothing is altered while
  there are files to delete or to write) and `LeftInv` (what a failed call left
  behind is in the store, and the call under way did not create it).  The step
  that needs them is `AlterFails`: the scenario missing when a stub is altered
  can only be that of such a leftover, so an exception there leaves no other stub
  unregistered.  `FileInv` relates each file to the store: of a stub the call
  leaves alone they agree (`OthersAgree`); of one it is about, the file is right,
  or still to be written or deleted, or will be unsure (`FilesToCome`, with
  `CallOrder` and `KindInv`, how far a call of each kind has got); and a
  `removeAll` that is going to refuse has changed nothing (`RefusalInv`).
  Assumption: `None` is no stub.
* `RequestJournalProofs`: `TypeCorrect`, `ResetAlwaysClears`,
  `OrphansAreAlwaysStoredLate`.  `IInv` adds: no id is in the deque twice
  (`Once`), one that is yet to be linked is in no reset's past (`Fresh`), counts
  and what they have still to visit fit the number of events (`Counts`), and a
  polled id is not in the deque (`Spare`).
  For the journal without admin calls, `ListIsAlwaysBounded`,
  `OvershootIsAlwaysBounded` and `JournalKeepsTheNewest`.  `Alone` adds:
  all ids of the deque have their events (`Placed`); if the journal is too long,
  some request will notice: it has yet to count, or its count can still come to
  the whole length (`Noticed`); the requests that have decided to evict, or
  still may, are paid for by the excess or by threads (`Spared`), of which there
  are `Workers` (`Handed`).  The refinement of `BoundedLog` then needs the
  invariant in one case only, an eviction that is no longer due.  Assumption:
  the events are a finite set.
  `Recorder` extends the journal: `RecorderUsesJournal` says that each of its
  behaviours is one of the journal, so that `RecordingResetsClear`; then
  `SnapshotAlwaysCaptures` and `RecordingsAlwaysCleanUp`.  For the latter
  `StubsInv` says what the stubs are at every stage of a start or a stop, and
  that a proxy stub is nobody else's: neither `fresh` nor `failed`.  It assumes
  that proxy stubs have ids no other stub has.  The rest of `RInv` is about order,
  newest first: in the deque no event that was there when the recording started
  comes before one linked since, and none of `known` before the start event
  (`DequeInv`); what a walk through the deque has met and has still to meet is in
  that order too, and the walk of a start meets no two events against the order
  of the deque (`WalkInv`), so that the event it takes for the start is the
  newest; an event older than the recording is linked already (`OlderInv`); and
  what a recording knows, its start event and its status fit one another
  (`StatusInv`).
* `FileObjectStoreProofs`: for `KeyLocks`, `TypeCorrect`, `CountIsExact`,
  `MapDoesNotLeak`, `MutualExclusionHolds` and `UnlockSucceedsHolds`.  `IInv`
  says where each thread's wrapper is and that the counter is the cardinality of
  its users, which takes two lemmas on finite sets.  `CalmInv` adds that, until a
  thread has slipped in, all threads use the wrapper in the map.  For the store,
  `StoreUsesLocks`, that every behaviour of it is one of `KeyLocks`, so that
  `ComputesExclude` follows; `StoreTypeCorrect`; and `ComputesNeverOverlap`, from
  `ReadIsCurrent`: what a thread in a compute has read is what the file holds,
  until a writer has come between.  Assumptions: `Threads` is finite, and `None`
  is neither a thread nor a wrapper.
* `ObjectStoreProofs`: `TypeCorrect`, `KeysAreAlwaysQueued`,
  `ExcessIsAlwaysBounded` and the refinement `LoneCallsAreLru`.  Of a key that no
  two calls have had in hand at once, `KeyInv` says that it has one node at most
  and is in the map if and only if it has one, except while a call works on it,
  and how far that call has got (`Midway`).  `ExcessInv` bounds the keys in use
  while no put is under way; the step that needs an
  argument is the end of the last put.  It has counted at most `MaxItems` nodes,
  and every node that is left is among those it has counted (`WalkInv`, which
  needs the nodes to be in the order of their offers); a key in use that has no
  node belongs to a get that has yet to offer it, and there is one of those at
  most for each other thread.
  `CalmInv` adds that, until calls overlap, the use order is that of an LRU
  cache (`LruOrder`) and the one call under way has brought the order it found
  (`start`) as far as its place says (`Progress`); each call then ends in one
  step of `LruCache` and all its other steps stutter.  Lemmas state what removing a
  node, polling and offering do to the order of use.  Assumptions: `Threads` is
  finite, `MaxItems` is positive and `None` is no key.
* `MessageChannelsProofs`: `TypeCorrect`, `ChannelsWorkAlways`,
  `FailureIsAlwaysJustified`.  `IInv` is `Types`, `Progress` (a handler's place
  and its journal), `Sound` (undamaged, the name's channel, its sink and the call
  under way agree) and `Steady` (a message that is not disturbed has its channel
  all the time).
* `MessageJournalProofs`: `TypeCorrect`, `EmptyIsAlwaysJustified`.  `Flow` says
  what every step does to a wait and to what it is told; from it follow
  `PresentInv` (a wait that was there when an event was linked has still to be
  told of it, or its latch is set), `ToldInv` (so one that has been told goes on
  to return an event) and `LastLookInv` (the last look, which is made when the
  time is up, meets all that has lasted since).  Assumption: the events are a
  finite set.

Only model-checked: liveness (`EvictionEnds`, `AllComputesEnd`,
`ArrivalsEndWaits`), which with `ENABLED` is outside the prover's fragment.  Every
other property of a passing run has a theorem.  The three runs that expect a
violation are counterexamples and need none.  No recursive definition is used in
any module, so nothing is lost to induction over data.

## Not modelled

* Batches (`updateMappings`, `setAllMappings`) and saves to files that overlap
  with other calls: `StubLifecycle` has them one call at a time, `StubAdmin` has
  overlapping calls in memory.
* In `StubLifecycle`: the order of stubs, lists naming an id twice, a file torn
  by a crash while it is written (the next start then refuses the file and has
  no further behaviour), a delete that fails silently, file names that collide,
  listeners.  Editing a persistent stub into one that is not leaves its file;
  such ids are in `unsure` and no promise is made of them.
* `withStubMapping` compares whole stubs, so an edited stub's older version can
  remain in its scenario's set until the stub leaves; scenarios are modelled by
  id, which is how stubs are taken out.  The states mentioned only by such an
  older version are therefore not among `PossibleStates`.
* In `StubAdmin`: an admin's `setSingle`, `resetSingle` and reset of all
  scenarios.  Each also writes back a whole scenario that it has read
  (`stubbing/AbstractScenarios.java:116`, `:129-137`), and can so lose a
  registration, as a request can.  `StubServing` has them, for the states only.
* Recorder: the filter on proxied requests, the stubs a stop makes, snapshots
  without a recording.  The look-up and the removal of a proxy stub are one
  step, and so is each admin call on stubs: `StubAdmin` takes them apart.
* Message journal: interrupts of waiting threads; the count of an eviction and
  its poll are one step, and a collection is cleared in one, which
  `RequestJournal` takes apart for code of the same shape.
* Channels: providers and their renaming, a stub that forwards to the channel it
  listens to, messages an admin call sends, message stubs themselves, channels
  that a request or a web socket opens.  A channel keeps the provider object it
  was created with.
* Object stores: listeners and `getAllKeys`.
* Paging and import rules, matching, near misses, rendering, templating,
  proxying, delays, network rules, extensions, settings, the Jetty server, the
  client library, the JUnit integrations, the command line and the URL library:
  pure functions, third-party code or adapters without shared state.  The
  browser assets under `src/src/main/resources/assets/swagger-ui` are a copy of a
  third-party page that shows the admin API's documentation.  `PROJECT.json`
  gives each one's reason.

## What is left

1. Batches in `StubAdmin`, which today would take its state space beyond what
   can be checked in minutes.
2. Providers of channels and their renaming.
