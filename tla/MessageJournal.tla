---------------------------- MODULE MessageJournal ----------------------------
(***************************************************************************)
(* Waiting for messages: StoreBackedMessageJournal.waitForEvent and        *)
(* waitForEvents over InMemoryMessageJournalStore, which tells listeners   *)
(* of each event it adds.  Messages arrive on threads of their own, so a   *)
(* thread is named by its event.  Deque and map are those of the request   *)
(* journal; here the count that decides on an eviction goes with its poll,  *)
(* and each collection is cleared in one step (RequestJournal takes them   *)
(* apart).                                                                 *)
(***************************************************************************)
EXTENDS Naturals, SequencesExt

CONSTANTS
  Events,     \* MessageServeEvents
  Matching,   \* those that match the pattern waited for
  Singles,    \* threads that call waitForEvent
  Batchers,   \* threads that call waitForEvents
  Wanted,     \* the count waitForEvents is given
  MaxEntries,
  MaxCalls,   \* bound on the admin thread's calls
  None

Waiters == Singles \cup Batchers

ASSUME MessageJournalAssumption ==
  /\ IsFiniteSet(Events)
  /\ Matching \subseteq Events
  /\ Singles \cap Batchers = {}
  /\ Wanted \in Nat \ {0}
  /\ MaxEntries \in Nat
  /\ MaxCalls \in Nat
  /\ None \notin Events

VARIABLES
  deque, held, \* ids, newest first, and the keys of the map
  pc,          \* where the thread that adds each event is
  tell,        \* the listeners it has still to tell
  victim,      \* the id its removeLast has polled
  admin,       \* what the admin thread is about: [at, id, calls]
  at,          \* where each waiter is
  expired,     \* waiters whose time is up
  latch,       \* the event a waiter's listener was last told of
  found,       \* what its wait returns
  steady,      \* of a waiter's look: matching events listed all through it
  ever,        \* and those listed at any time of it
  present,     \* history: waiters that have been awaiting since an event was linked
  told,        \* history: waiters that awaited one from link to last notification
  lasting      \* history: matching events listed ever since a waiter's time was up

journal == <<deque, held>>
senders == <<pc, tell, victim>>
waits == <<at, expired, latch, found>>
history == <<steady, ever, present, told, lasting>>
state == <<journal, senders, admin, waits>>
vars == <<state, history>>

Listed == ToSet(deque) \cap held
MatchesListed == Listed \cap Matching

\* eventListeners: each wait registers its own before it awaits.
Listeners == {w \in Waiters : at[w] = "await"}

\* Each variable holds what its comment says; only a listener that is
\* registered is told, and only the latch of one is set.
TypeOK ==
  /\ deque \in Seq(Events)
  /\ held \subseteq Events
  /\ pc \in [Events -> {"new", "link", "snapshot", "tell", "count", "drop", "done"}]
  /\ tell \in [Events -> SUBSET Waiters]
  /\ victim \in [Events -> Events \cup {None}]
  /\ admin \in [at : {"none", "events", "event"}, id : Events \cup {None},
                calls : 0..MaxCalls]
  /\ at \in [Waiters -> {"idle", "look", "register", "await", "final", "done"}]
  /\ expired \subseteq Waiters
  /\ latch \in [Waiters -> Events \cup {None}]
  /\ found \in [Waiters -> SUBSET Matching]
  /\ \A e \in Events :
       /\ (victim[e] # None) <=> (pc[e] = "drop")
       /\ tell[e] \subseteq (IF pc[e] = "tell" THEN Listeners ELSE {})
  /\ \A w \in Waiters : latch[w] # None => w \in Listeners

Init ==
  /\ deque = <<>> /\ held = {}
  /\ pc = [e \in Events |-> "new"]
  /\ tell = [e \in Events |-> {}]
  /\ victim = [e \in Events |-> None]
  /\ admin = [at |-> "none", id |-> None, calls |-> 0]
  /\ at = [w \in Waiters |-> "idle"]
  /\ expired = {}
  /\ latch = [w \in Waiters |-> None]
  /\ found = [w \in Waiters |-> {}]
  /\ steady = [w \in Waiters |-> {}]
  /\ ever = [w \in Waiters |-> {}]
  /\ present = [e \in Events |-> {}]
  /\ told = {}
  /\ lasting = [w \in Waiters |-> {}]

-----------------------------------------------------------------------------
(* messageReceived: store.add, which ends with telling the listeners there  *)
(* are then (a CopyOnWriteArrayList), and removeOldEntries.                *)

Goto(e, label) == pc' = [pc EXCEPT ![e] = label]

PutEvent(e) ==
  /\ pc[e] = "new"
  /\ held' = held \cup {e}
  /\ Goto(e, "link")
  /\ UNCHANGED <<deque, tell, victim, admin, waits>>

LinkEvent(e) ==
  /\ pc[e] = "link"
  /\ deque' = <<e>> \o deque
  /\ Goto(e, "snapshot")
  /\ UNCHANGED <<held, tell, victim, admin, waits>>

NotifyListeners(e) ==
  /\ pc[e] = "snapshot"
  /\ tell' = [tell EXCEPT ![e] = Listeners]
  /\ Goto(e, "tell")
  /\ UNCHANGED <<journal, victim, admin, waits>>

\* Mutant: the first listener is the only one.
TellOne(e, w) ==
  /\ w \in tell[e]
  /\ latch' = IF e \in Matching THEN [latch EXCEPT ![w] = e] ELSE latch
  /\ tell' = [tell EXCEPT ![e] = {}]
  /\ UNCHANGED <<journal, pc, victim, admin, at, expired, found>>

\* accept: result[0] is the event, and the latch is counted down.
Tell(e, w) ==
  /\ w \in tell[e]
  /\ latch' = IF e \in Matching THEN [latch EXCEPT ![w] = e] ELSE latch
  /\ tell' = [tell EXCEPT ![e] = @ \ {w}]
  /\ UNCHANGED <<journal, pc, victim, admin, at, expired, found>>

AllTold(e) ==
  /\ pc[e] = "tell"
  /\ tell[e] = {}
  /\ Goto(e, "count")
  /\ UNCHANGED <<journal, tell, victim, admin, waits>>

\* removeOldEntries' count, and removeLast's poll if there are too many.
RemoveLast(e) ==
  /\ pc[e] = "count"
  /\ IF Cardinality(Listed) > MaxEntries
     THEN /\ deque' = Front(deque)
          /\ victim' = [victim EXCEPT ![e] = Last(deque)]
          /\ Goto(e, "drop")
     ELSE Goto(e, "done") /\ UNCHANGED <<deque, victim>>
  /\ UNCHANGED <<held, tell, admin, waits>>

\* Listeners are told of what is removed, too, and take no notice of it.
DropEvent(e) ==
  /\ pc[e] = "drop"
  /\ held' = held \ {victim[e]}
  /\ victim' = [victim EXCEPT ![e] = None]
  /\ Goto(e, "count")
  /\ UNCHANGED <<deque, tell, admin, waits>>

-----------------------------------------------------------------------------
(* reset and removeEvent                                                   *)

ClearDeque ==
  /\ admin.at = "none" /\ admin.calls < MaxCalls
  /\ deque' = <<>>
  /\ admin' = [admin EXCEPT !.at = "events", !.calls = @ + 1]
  /\ UNCHANGED <<held, senders, waits>>

ClearEvents ==
  /\ admin.at = "events"
  /\ held' = {}
  /\ admin' = [admin EXCEPT !.at = "none"]
  /\ UNCHANGED <<deque, senders, waits>>

RemoveLink(e) ==
  /\ admin.at = "none" /\ admin.calls < MaxCalls
  /\ e \in Listed
  /\ \E i \in DOMAIN deque : deque[i] = e /\ deque' = RemoveAt(deque, i)
  /\ admin' = [at |-> "event", id |-> e, calls |-> admin.calls + 1]
  /\ UNCHANGED <<held, senders, waits>>

RemoveEvent ==
  /\ admin.at = "event"
  /\ held' = held \ {admin.id}
  /\ admin' = [admin EXCEPT !.at = "none", !.id = None]
  /\ UNCHANGED <<deque, senders, waits>>

-----------------------------------------------------------------------------
(* waitForEvent: look, register, await, unregister, and a last look.        *)
(* waitForEvents: the same again until its time is up, each await at most   *)
(* 100 ms long.                                                            *)

Enough(w) == IF w \in Singles THEN 1 ELSE Wanted

Does(w, label) == at' = [at EXCEPT ![w] = label]

\* The head of waitForEvents's loop.
LookOrGiveUp(w) == Does(w, IF w \in Batchers /\ w \in expired THEN "final" ELSE "look")

Begin(w) ==
  /\ at[w] = "idle"
  /\ LookOrGiveUp(w)
  /\ UNCHANGED <<journal, senders, admin, expired, latch, found>>

\* A walk through the deque, weakly consistent as ever: it collects what was
\* listed throughout, and perhaps what was listed for part of it.
Collected(w) == {S \in SUBSET ever[w] : steady[w] \subseteq S}

\* What the caller gets of it: findFirst, limit(count).
Returned(w, S) == {R \in SUBSET S : Cardinality(R) = (IF Cardinality(S) < Enough(w) THEN Cardinality(S) ELSE Enough(w))}

Look(w) ==
  /\ at[w] = "look"
  /\ \E S \in Collected(w) :
       IF Cardinality(S) >= Enough(w)
       THEN \E R \in Returned(w, S) : found' = [found EXCEPT ![w] = R] /\ Does(w, "done")
       ELSE /\ Does(w, IF w \in Batchers /\ w \in expired THEN "final" ELSE "register")
            /\ UNCHANGED found
  /\ UNCHANGED <<journal, senders, admin, expired, latch>>

Register(w) ==
  /\ at[w] = "register"
  /\ Does(w, "await")
  /\ UNCHANGED <<journal, senders, admin, expired, latch, found>>

\* Mutant: the listener stays.
UnregisterNot(w) == UNCHANGED <<tell, latch>>

\* This round's listener and latch are gone: to tell it has no effect any more.
Unregister(w) ==
  /\ tell' = [e \in Events |-> tell[e] \ {w}]
  /\ latch' = [latch EXCEPT ![w] = None]

Woken(w) ==
  /\ at[w] = "await"
  /\ latch[w] # None
  /\ Unregister(w)
  /\ IF w \in Singles
     THEN found' = [found EXCEPT ![w] = {latch[w]}] /\ Does(w, "done")
     ELSE LookOrGiveUp(w) /\ UNCHANGED found
  /\ UNCHANGED <<journal, pc, victim, admin, expired>>

\* Mutant: when its time is up waitForEvent does not look again.
ElapsedForGood(w) ==
  /\ at[w] = "await"
  /\ latch[w] = None
  /\ w \in Batchers \cup expired
  /\ Unregister(w)
  /\ IF w \in Singles THEN Does(w, "done") ELSE LookOrGiveUp(w)
  /\ UNCHANGED <<journal, pc, victim, admin, expired, found>>

Elapsed(w) ==
  /\ at[w] = "await"
  /\ latch[w] = None
  /\ w \in Batchers \cup expired
  /\ Unregister(w)
  /\ IF w \in Singles THEN Does(w, "final") ELSE LookOrGiveUp(w)
  /\ UNCHANGED <<journal, pc, victim, admin, expired, found>>

FinalLook(w) ==
  /\ at[w] = "final"
  /\ \E S \in Collected(w) : \E R \in Returned(w, S) : found' = [found EXCEPT ![w] = R]
  /\ Does(w, "done")
  /\ UNCHANGED <<journal, senders, admin, expired, latch>>

\* Nothing interrupts these threads, so a wait has no other end.
TimeIsUp(w) ==
  /\ w \notin expired
  /\ at[w] \notin {"idle", "done"}
  /\ expired' = expired \cup {w}
  /\ UNCHANGED <<journal, senders, admin, at, latch, found>>

-----------------------------------------------------------------------------
(* What each step means to the walks and the waits under way.              *)

Looking(w) == at[w] \in {"look", "final"}
Awaiting == {w \in Singles : at[w] = "await"}

Track ==
  /\ steady' = [w \in Waiters |->
       IF ~Looking(w)' THEN {}
       ELSE IF at'[w] # at[w] THEN MatchesListed'
       ELSE steady[w] \cap MatchesListed']
  /\ ever' = [w \in Waiters |->
       IF ~Looking(w)' THEN {}
       ELSE IF at'[w] # at[w] THEN MatchesListed'
       ELSE ever[w] \cup MatchesListed']
  /\ present' = [e \in Events |->
       IF e \in Matching /\ pc[e] = "link" /\ pc'[e] = "snapshot" THEN Awaiting'
       ELSE IF pc'[e] \in {"snapshot", "tell"} THEN present[e] \cap Awaiting'
       ELSE {}]
  /\ told' = {w \in Singles : at'[w] # "done"} \cap
       (told \cup UNION {present[e] :
          e \in {f \in Matching : pc[f] # "count" /\ pc'[f] = "count"}})
  /\ lasting' = [w \in Waiters |->
       IF at'[w] = "done" THEN {}
       ELSE IF w \in expired' \ expired THEN MatchesListed'
       ELSE IF w \in expired THEN lasting[w] \cap MatchesListed'
       ELSE {}]

-----------------------------------------------------------------------------

MessageReceived(e) ==
  \/ LinkEvent(e) \/ NotifyListeners(e)
  \/ \E w \in Waiters : Tell(e, w)
  \/ AllTold(e)
  \/ RemoveLast(e) \/ DropEvent(e)

AdminCall ==
  \/ ClearDeque \/ ClearEvents
  \/ \E e \in Events : RemoveLink(e)
  \/ RemoveEvent

Wait(w) ==
  \/ Look(w) \/ Register(w) \/ Woken(w) \/ Elapsed(w)
  \/ FinalLook(w)

Step ==
  \/ \E e \in Events : PutEvent(e) \/ MessageReceived(e)
  \/ AdminCall
  \/ \E w \in Waiters : Begin(w) \/ Wait(w) \/ TimeIsUp(w)

Next == Step /\ Track

Spec == Init /\ [][Next]_vars

\* Threads in a call are scheduled, and 100 ms pass; but no message need come,
\* no admin call be made, and the time given to a wait may be as long as ever.
FairSpec ==
  /\ Spec
  /\ \A e \in Events : WF_state(MessageReceived(e))
  /\ \A w \in Waiters : WF_state(Wait(w))

-----------------------------------------------------------------------------
(* Properties                                                              *)

\* A wait that returns less than it asked for has missed nothing: it returns
\* every matching event that was listed from when its time was up, and
\* waitForEvent returns an event if one was linked and told to the listeners
\* while it was awaiting, even one that has been evicted or reset since.
EmptyIsJustified ==
  [][\A w \in Waiters :
       (at[w] # "done" /\ at'[w] = "done" /\ Cardinality(found'[w]) < Enough(w)) =>
         /\ lasting[w] \subseteq found'[w]
         /\ w \notin told]_vars

\* Whatever its time, waitForEvent ends when a matching event arrives while it
\* is awaiting, and waitForEvents when there are enough that stay.  (It is not
\* so for an event linked before waitForEvent's listener is registered, whose
\* first look it missed: that one is found when the time is up.)
ArrivalsEndWaits ==
  /\ \A w \in Singles, e \in Matching :
       (at[w] = "await" /\ pc[e] = "link") ~> at[w] = "done"
  /\ \A w \in Batchers :
       <>[](at[w] # "idle" /\ Cardinality(MatchesListed) >= Wanted) => <>(at[w] = "done")
=============================================================================
