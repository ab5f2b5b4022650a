------------------------------ MODULE Recorder ------------------------------
(***************************************************************************)
(* recording/Recorder over the request journal: startRecording and         *)
(* stopRecording, which are synchronized, while requests are journalled,   *)
(* the journal evicts, removes and is reset, and admin calls add and       *)
(* remove stubs.  A start while a recording goes on and a stop when there  *)
(* is none change nothing.  Which of the events are made stubs, those that *)
(* were proxied, and those stubs are left out: what is modelled is which   *)
(* events a stop considers, and the stubs that match any request, as the   *)
(* recorder's proxy stubs do.                                              *)
(***************************************************************************)
EXTENDS RequestJournal

CONSTANTS
  Proxies,   \* ids of proxy stubs, a fresh UUID for each start with a target
  CatchAlls, \* ids of other stubs with the request pattern of a proxy stub
  MaxCalls   \* bound on the admin calls, on the journal and the stubs and to start

ASSUME RecorderAssumption ==
  /\ MaxCalls \in Nat
  /\ Proxies \cap CatchAlls = {}
  /\ None \notin Proxies \cup CatchAlls

VARIABLES
  calls,     \* how many of them have begun
  stubs,     \* the stubs there are that match any request
  fresh,     \* the proxy stubs no start has built
  recorder,  \* its state: [status, start, proxy]
  stage,     \* where the thread in one of its synchronized methods is
  built,     \* proxyMapping of the start under way
  ahead,     \* the part of the journal its getServeEvents has still to visit
  visited,   \* the events it has found there, newest first
  known,     \* history: what getServeEvents found at the start
  older,     \* history: the ids in the deque at that time
  own,       \* history: the stubs admin calls have added
  failed,    \* history: proxy stubs of starts and stops that failed
  cut        \* history: an admin has removed the proxy stub of this recording

walkVars == <<ahead, visited, known, older>>
stubVars == <<stubs, fresh, own, failed, cut>>
recorderVars == <<recorder, stage, built, walkVars>>
recordingVars == <<vars, calls, recorderVars, stubVars>>

\* Each variable holds what its comment says.
RecorderTypeOK ==
  /\ calls \in 0 .. MaxCalls
  /\ stubs \subseteq Proxies \cup CatchAlls
  /\ fresh \subseteq Proxies \ stubs
  /\ recorder \in [status : {"NeverStarted", "Recording", "Stopped"},
                   start : Events \cup {None}, proxy : Proxies \cup {None}]
  /\ stage \in {"none", "start", "stop", "remove", "take"}
  /\ built \in Proxies \cup {None}
  /\ ahead \in Seq(Events)
  /\ visited \in Seq(Events)
  /\ known \subseteq older
  /\ older \subseteq Events
  /\ own \subseteq CatchAlls
  /\ failed \subseteq Proxies \ fresh
  /\ cut \in BOOLEAN

RecorderInit ==
  /\ Init
  /\ calls = 0
  /\ stubs \in SUBSET CatchAlls
  /\ fresh = Proxies
  /\ recorder = [status |-> "NeverStarted", start |-> None, proxy |-> None]
  /\ stage = "none"
  /\ built = None
  /\ ahead = <<>>
  /\ visited = <<>>
  /\ known = {}
  /\ older = {}
  /\ own = stubs
  /\ failed = {}
  /\ cut = FALSE

-----------------------------------------------------------------------------
(* Both methods walk through the journal, as removeOldEntries' count does.  *)

StartWalk == ahead' = deque /\ UNCHANGED vars

VisitEvent ==
  /\ ahead # <<>>
  /\ ahead' = Tail(ahead)
  /\ visited' = IF Head(ahead) \in Listed THEN Append(visited, Head(ahead)) ELSE visited
  /\ UNCHANGED <<vars, calls, stubVars, recorder, stage, built, known, older>>

WalkEnds == ahead = <<>> /\ UNCHANGED <<vars, calls, ahead>>

-----------------------------------------------------------------------------
(* startRecording                                                          *)

\* A proxy stub, if the spec has a target URL, is added before the journal is
\* read.  In the meantime others add, remove and journal.
StartRecording ==
  /\ stage = "none"
  /\ recorder.status # "Recording"
  /\ stage' = "start"
  /\ \/ built' = None /\ UNCHANGED <<stubs, fresh>>
     \/ \E p \in fresh :
          built' = p /\ stubs' = stubs \cup {p} /\ fresh' = fresh \ {p}
  /\ cut' = FALSE
  /\ StartWalk
  /\ calls < MaxCalls
  /\ calls' = calls + 1
  /\ older' = ToSet(deque)
  /\ UNCHANGED <<recorder, visited, known, own, failed>>

\* A listener throws after the stub was added, or the journal is disabled and
\* cannot be read: the state is never set and the stub stays.
StartFails ==
  /\ stage = "start"
  /\ stage' = "none"
  /\ failed' = failed \cup ({built} \cap stubs)
  /\ built' = None
  /\ ahead' = <<>> /\ visited' = <<>>
  /\ older' = {}
  /\ UNCHANGED <<vars, calls, recorder, known, stubs, fresh, own, cut>>

SetRecording ==
  /\ stage = "start"
  /\ WalkEnds
  /\ stage' = "none"
  /\ visited' = <<>>
  /\ recorder' = [status |-> "Recording", proxy |-> built,
                  start |-> IF visited = <<>> THEN None ELSE Head(visited)]
  /\ built' = None
  /\ known' = ToSet(visited)
  /\ UNCHANGED <<stubVars, older>>

-----------------------------------------------------------------------------
(* stopRecording                                                           *)

StopRecording ==
  /\ stage = "none"
  /\ recorder.status = "Recording"
  /\ stage' = "stop"
  /\ StartWalk
  /\ UNCHANGED <<calls, stubVars, recorder, built, visited, known, older>>

\* The state is set whatever comes of the rest, and before the stub goes.
SetStopped ==
  /\ stage = "stop"
  /\ WalkEnds
  /\ stage' = IF recorder.proxy = None THEN "take" ELSE "remove"
  /\ recorder' = [recorder EXCEPT !.status = "Stopped"]
  /\ UNCHANGED <<stubVars, built, visited, known, older>>

EndStop ==
  /\ stage' = "none"
  /\ visited' = <<>>
  /\ known' = {} /\ older' = {}
  /\ UNCHANGED <<vars, calls, recorder, built, ahead>>

\* Mutant: the proxy stub is looked for by its request pattern alone.
TakeOutMatching ==
  /\ \/ stubs = {} /\ UNCHANGED stubs
     \/ \E s \in stubs : stubs' = stubs \ {s}
  /\ own' = IF cut THEN own \cap stubs' ELSE own
  /\ failed' = IF cut THEN failed \cap stubs' ELSE failed

\* removeStubMapping falls back on the request pattern: if the proxy stub has
\* gone, another that matches any request is taken, the first by priority.
TakeOutProxy ==
  /\ \/ recorder.proxy \in stubs /\ stubs' = stubs \ {recorder.proxy}
     \/ stubs = {} /\ UNCHANGED stubs
     \/ /\ recorder.proxy \notin stubs
        /\ \E s \in stubs : stubs' = stubs \ {s}
  /\ own' = IF cut THEN own \cap stubs' ELSE own
  /\ failed' = IF cut THEN failed \cap stubs' ELSE failed

RemoveProxy ==
  /\ stage = "remove"
  /\ TakeOutProxy
  /\ stage' = "take"
  /\ UNCHANGED <<vars, calls, fresh, cut, recorder, built, walkVars>>

\* A listener throws before the stub was removed, or after it.
RemoveFails ==
  /\ stage = "remove"
  /\ stubs # {}
  /\ \/ TakeOutProxy
     \/ failed' = failed \cup ({recorder.proxy} \cap stubs) /\ UNCHANGED <<stubs, own>>
  /\ EndStop
  /\ UNCHANGED <<fresh, cut>>

StartFound == recorder.start = None \/ Contains(visited, recorder.start)

\* Mutant: the event at which the recording started is taken with it.
SinceStartWithIt ==
  {visited[i] : i \in {j \in DOMAIN visited :
     \A k \in 1 .. j - 1 : visited[k] # recorder.start}}

\* The list up to the event at which the recording started, all of it if there
\* was none.
SinceStart ==
  {visited[i] : i \in {j \in DOMAIN visited :
     \A k \in 1 .. j : visited[k] # recorder.start}}

\* Where nothing is found there is nothing to record, whatever the start was.
NothingRecorded ==
  stage = "take" /\ visited = <<>> /\ EndStop /\ UNCHANGED stubVars

TakeSnapshot ==
  stage = "take" /\ visited # <<>> /\ StartFound /\ EndStop /\ UNCHANGED stubVars

\* indexOf gives -1, and subList throws.
SnapshotFails ==
  stage = "take" /\ visited # <<>> /\ ~StartFound /\ EndStop /\ UNCHANGED stubVars

RecorderCall ==
  \/ StartRecording \/ StartFails \/ SetRecording
  \/ VisitEvent
  \/ StopRecording \/ SetStopped \/ RemoveProxy \/ RemoveFails
  \/ NothingRecorded \/ TakeSnapshot \/ SnapshotFails

-----------------------------------------------------------------------------
(* Admin calls on stubs that match any request: StubAdmin takes them apart. *)

AddStub(u) ==
  /\ u \notin stubs
  /\ stubs' = stubs \cup {u}
  /\ own' = own \cup {u}
  /\ UNCHANGED <<failed, cut>>

\* The proxy stub of the recording that starts, goes on or stops.
Proxy ==
  CASE stage = "start" -> built
    [] stage = "remove" \/ recorder.status = "Recording" -> recorder.proxy
    [] OTHER -> None

\* One of them, those with some metadata, or all.
RemoveStubs(S) ==
  /\ S # {}
  /\ stubs' = stubs \ S
  /\ own' = own \ S
  /\ failed' = failed \ S
  /\ cut' = (cut \/ Proxy \in S)

StubCall ==
  /\ (\E u \in CatchAlls : AddStub(u)) \/ (\E S \in SUBSET stubs : RemoveStubs(S))
  /\ calls < MaxCalls
  /\ calls' = calls + 1
  /\ UNCHANGED <<vars, recorderVars, fresh>>

-----------------------------------------------------------------------------

JournalNext ==
  /\ Next
  /\ calls' = calls + Cardinality({a \in Admins : doing[a] = "none" /\ doing'[a] # "none"})
  /\ calls' <= MaxCalls
  /\ UNCHANGED <<recorderVars, stubVars>>

RecorderNext == JournalNext \/ StubCall \/ RecorderCall

RecorderSpec == RecorderInit /\ [][RecorderNext]_recordingVars

-----------------------------------------------------------------------------
(* Properties                                                              *)

\* A stop that succeeds records the recording, whatever was evicted, removed
\* or reset during it: none of the events the journal listed when it started,
\* and each that was journalled since and is still listed when it stops.
CapturesTheRecording ==
  [][TakeSnapshot =>
       /\ SinceStart \cap known = {}
       /\ ToSet(visited) \ older \subseteq SinceStart]_recordingVars

\* Between the recorder's calls the stubs that match any request are those the
\* admin has added and not removed, the proxy stub of the recording that goes
\* on, and what starts and stops that failed have left.  A stop takes nobody
\* else's stub, unless an admin has removed the one it is to take, and one
\* that comes to its end leaves no proxy stub of its recording behind.
RecordingsCleanUp ==
  stage = "none" =>
    stubs = own \cup failed \cup
              (IF recorder.status = "Recording" /\ ~cut THEN {recorder.proxy} \ {None} ELSE {})
=============================================================================
