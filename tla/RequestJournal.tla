---------------------------- MODULE RequestJournal ----------------------------
(***************************************************************************)
(* The journal of served requests: AbstractRequestJournal over             *)
(* InMemoryRequestJournalStore, a ConcurrentLinkedDeque of event ids and a *)
(* ConcurrentHashMap of the events.  Each request is handled by a thread   *)
(* of its own, so a thread is named by its request's ServeEvent.  Every    *)
(* access of the deque or of the map is a step; nothing larger is atomic.  *)
(***************************************************************************)
EXTENDS Naturals, SequencesExt

CONSTANTS
  Events,   \* ids of ServeEvents, a fresh UUID for each request
  Admins,   \* threads that run admin calls on the journal
  Workers,  \* threads of the server: requests in hand at once
  MaxEntries, \* maxEntries; null, no limit, behaves as one that is never reached
  None

ASSUME JournalAssumption ==
  /\ IsFiniteSet(Events)
  /\ Workers \in Nat \ {0}
  /\ MaxEntries \in Nat          \* the constructor rejects a negative limit
  /\ None \notin Events

VARIABLES
  deque,    \* ids, newest first
  held,     \* the ids that are keys of the map serveEvents
  pc,       \* where the request of each event is
  left,     \* what its count of the journal has still to visit
  n,        \* what it has counted
  victim,   \* the id its removeLast has polled
  doing,    \* what each admin thread is doing
  todo,     \* the ids it has still to remove from the map
  gone,     \* the id its remove has taken out of the deque
  before    \* history: the ids in the deque when its reset began

requestVars == <<pc, left, n, victim>>
adminVars == <<doing, todo, gone, before>>
vars == <<deque, held, requestVars, adminVars>>

\* getAll: the ids of the deque that have an event in the map.
Listed == {e \in held : Contains(deque, e)}

TypeOK ==
  /\ deque \in Seq(Events)
  /\ held \subseteq Events
  /\ pc \in [Events -> {"new", "link", "count", "visit", "poll", "drop",
                        "sent", "store", "done"}]
  /\ left \in [Events -> Seq(Events)]
  /\ n \in [Events -> 0 .. Cardinality(Events)]
  /\ victim \in [Events -> Events \cup {None}]
  /\ doing \in [Admins -> {"none", "poll", "map", "remove", "drop"}]
  /\ todo \in [Admins -> SUBSET Events]
  /\ gone \in [Admins -> Events \cup {None}]
  /\ before \in [Admins -> SUBSET Events]

Init ==
  /\ deque = <<>>
  /\ held = {}
  /\ pc = [e \in Events |-> "new"]
  /\ left = [e \in Events |-> <<>>]
  /\ n = [e \in Events |-> 0]
  /\ victim = [e \in Events |-> None]
  /\ doing = [a \in Admins |-> "none"]
  /\ todo = [a \in Admins |-> {}]
  /\ gone = [a \in Admins |-> None]
  /\ before = [a \in Admins |-> {}]

Goto(e, label) == pc' = [pc EXCEPT ![e] = label]

-----------------------------------------------------------------------------
(* requestReceived, before the response is sent: add ...                   *)

InHand == {e \in Events : pc[e] \notin {"new", "done"}}

PutEvent(e) ==
  /\ pc[e] = "new"
  /\ Cardinality(InHand) < Workers
  /\ held' = held \cup {e}
  /\ Goto(e, "link")
  /\ UNCHANGED <<deque, left, n, victim, adminVars>>

\* Mutant: the id is put at the wrong end.
LinkLast(e) ==
  /\ pc[e] = "link"
  /\ deque' = deque \o <<e>>
  /\ Goto(e, "count")
  /\ UNCHANGED <<held, left, n, victim, adminVars>>

LinkEvent(e) ==
  /\ pc[e] = "link"
  /\ deque' = <<e>> \o deque
  /\ Goto(e, "count")
  /\ UNCHANGED <<held, left, n, victim, adminVars>>

\* ... and removeOldEntries: count, removeLast, and count again.

\* Mutant: a count goes on from the previous one.
CountOn(e) ==
  /\ pc[e] = "count"
  /\ left' = [left EXCEPT ![e] = deque]
  /\ Goto(e, "visit")
  /\ UNCHANGED <<deque, held, n, victim, adminVars>>

\* The stream over the deque is weakly consistent: it visits the ids there
\* when it starts, except those that are gone when it gets to them.  (Newer
\* ones are linked in front of where it starts.)
StartCount(e) ==
  /\ pc[e] = "count"
  /\ left' = [left EXCEPT ![e] = deque]
  /\ n' = [n EXCEPT ![e] = 0]
  /\ Goto(e, "visit")
  /\ UNCHANGED <<deque, held, victim, adminVars>>

VisitNext(e) ==
  /\ pc[e] = "visit"
  /\ left[e] # <<>>
  /\ left' = [left EXCEPT ![e] = Tail(@)]
  /\ n' = IF Head(left[e]) \in Listed THEN [n EXCEPT ![e] = @ + 1] ELSE n
  /\ UNCHANGED <<deque, held, pc, victim, adminVars>>

\* Mutants: the comparison off by one, on either side.
OverFull(e) == n[e] > MaxEntries + 1
AtLimit(e) == n[e] >= MaxEntries

TooMany(e) == n[e] > MaxEntries

Counted(e) ==
  /\ pc[e] = "visit"
  /\ left[e] = <<>>
  /\ Goto(e, IF TooMany(e) THEN "poll" ELSE "sent")
  /\ UNCHANGED <<deque, held, left, n, victim, adminVars>>

\* Mutant: removeLast looks at the last id and leaves it there.
PeekLast(e) ==
  /\ pc[e] = "poll"
  /\ Goto(e, "count")
  /\ UNCHANGED <<deque, held, left, n, victim, adminVars>>

\* pollLast gives null when the others have emptied the deque meanwhile.
PollLast(e) ==
  /\ pc[e] = "poll"
  /\ IF deque = <<>>
     THEN Goto(e, "count") /\ UNCHANGED <<deque, victim>>
     ELSE /\ Goto(e, "drop")
          /\ deque' = Front(deque)
          /\ victim' = [victim EXCEPT ![e] = Last(deque)]
  /\ UNCHANGED <<held, left, n, adminVars>>

\* Mutant: removeLast forgets the map.
DropLinkOnly(e) ==
  /\ pc[e] = "drop"
  /\ victim' = [victim EXCEPT ![e] = None]
  /\ Goto(e, "count")
  /\ UNCHANGED <<deque, held, left, n, adminVars>>

DropEvent(e) ==
  /\ pc[e] = "drop"
  /\ held' = held \ {victim[e]}
  /\ victim' = [victim EXCEPT ![e] = None]
  /\ Goto(e, "count")
  /\ UNCHANGED <<deque, left, n, adminVars>>

-----------------------------------------------------------------------------
(* serveCompleted, after the response was sent: the event is put again if   *)
(* its id is in the deque.                                                 *)

CheckLinked(e) ==
  /\ pc[e] = "sent"
  /\ Goto(e, IF Contains(deque, e) THEN "store" ELSE "done")
  /\ UNCHANGED <<deque, held, left, n, victim, adminVars>>

StoreAgain(e) ==
  /\ pc[e] = "store"
  /\ held' = held \cup {e}
  /\ Goto(e, "done")
  /\ UNCHANGED <<deque, left, n, victim, adminVars>>

-----------------------------------------------------------------------------
(* Admin calls                                                             *)

Does(a, label) == doing' = [doing EXCEPT ![a] = label]

Reset(a) ==
  /\ doing[a] = "none"
  /\ Does(a, "poll")
  /\ before' = [before EXCEPT ![a] = ToSet(deque)]
  /\ UNCHANGED <<deque, held, requestVars, todo, gone>>

\* deque.clear polls until it finds the deque empty.
ClearPolls(a) ==
  /\ doing[a] = "poll"
  /\ deque # <<>>
  /\ deque' = Tail(deque)
  /\ UNCHANGED <<held, requestVars, adminVars>>

\* Mutant: only the map is cleared.
ClearsMapOnly(a) ==
  /\ doing[a] = "poll"
  /\ Does(a, "map")
  /\ todo' = [todo EXCEPT ![a] = Events]
  /\ UNCHANGED <<deque, held, requestVars, gone, before>>

DequeCleared(a) ==
  /\ doing[a] = "poll"
  /\ deque = <<>>
  /\ Does(a, "map")
  /\ todo' = [todo EXCEPT ![a] = Events]
  /\ UNCHANGED <<deque, held, requestVars, gone, before>>

\* serveEvents.clear goes through the map's bins, in an order of its own.
ClearBin(a, e) ==
  /\ doing[a] = "map"
  /\ e \in todo[a]
  /\ held' = held \ {e}
  /\ todo' = [todo EXCEPT ![a] = @ \ {e}]
  /\ IF todo[a] = {e}
     THEN Does(a, "none") /\ before' = [before EXCEPT ![a] = {}]
     ELSE UNCHANGED <<doing, before>>
  /\ UNCHANGED <<deque, requestVars, gone>>

\* removeEvent takes an id, the other removals the ids of listed events that
\* match a pattern.
AskRemoval(a, S) ==
  /\ doing[a] = "none"
  /\ S # {}
  /\ S \subseteq Listed \/ \E e \in held : S = {e}
  /\ Does(a, "remove")
  /\ todo' = [todo EXCEPT ![a] = S]
  /\ UNCHANGED <<deque, held, requestVars, gone, before>>

\* An id is in the deque once.
RemoveLink(a, e) ==
  /\ doing[a] = "remove"
  /\ e \in todo[a]
  /\ \/ ~Contains(deque, e) /\ UNCHANGED deque
     \/ \E i \in DOMAIN deque : deque[i] = e /\ deque' = RemoveAt(deque, i)
  /\ gone' = [gone EXCEPT ![a] = e]
  /\ Does(a, "drop")
  /\ UNCHANGED <<held, requestVars, todo, before>>

RemoveEvent(a) ==
  /\ doing[a] = "drop"
  /\ held' = held \ {gone[a]}
  /\ todo' = [todo EXCEPT ![a] = @ \ {gone[a]}]
  /\ gone' = [gone EXCEPT ![a] = None]
  /\ Does(a, IF todo[a] = {gone[a]} THEN "none" ELSE "remove")
  /\ UNCHANGED <<deque, requestVars, before>>

-----------------------------------------------------------------------------

RemoveOldEntries(e) ==
  \/ StartCount(e) \/ VisitNext(e) \/ Counted(e)
  \/ PollLast(e) \/ DropEvent(e)

RequestReceived(e) == LinkEvent(e) \/ RemoveOldEntries(e)

ServeCompleted(e) == CheckLinked(e) \/ StoreAgain(e)

AdminCall(a) ==
  \/ Reset(a) \/ ClearPolls(a) \/ DequeCleared(a)
  \/ \E e \in Events : ClearBin(a, e)
  \/ \E S \in SUBSET Events : AskRemoval(a, S)
  \/ \E e \in Events : RemoveLink(a, e)
  \/ RemoveEvent(a)

Next ==
  \/ \E e \in Events : PutEvent(e) \/ RequestReceived(e) \/ ServeCompleted(e)
  \/ \E a \in Admins : AdminCall(a)

Spec == Init /\ [][Next]_vars

\* A request in hand is run by its own thread, which the JVM keeps scheduling.
FairSpec ==
  Spec /\ \A e \in Events : WF_vars(RequestReceived(e) \/ ServeCompleted(e))

-----------------------------------------------------------------------------
(* Properties                                                              *)

Linked == {e \in Events : pc[e] \notin {"new", "link"}}
Evicting == {e \in Events : pc[e] \in {"count", "visit", "poll", "drop"}}

\* The limit holds: with no removeOldEntries under way the journal lists at
\* most MaxEntries events, however the requests that filled it overlapped.
ListIsBounded ==
  (Admins = {} /\ Evicting = {}) => Cardinality(Listed) <= MaxEntries

\* Requests that evict at the same time may each remove an event on account
\* of the same excess, but no more than one each: the journal never goes below
\* its limit by as many events as there are server threads.
OvershootIsBounded ==
  Admins = {} =>
    \/ Len(deque) = Cardinality(Linked)
    \/ Len(deque) + Workers > MaxEntries

\* A reset leaves none of the events listed when it began, whatever requests
\* it runs against; nor do these come back when their responses complete.
ResetClears ==
  \A a \in Admins :
    doing[a] = "map" => ToSet(deque) \cap before[a] = {}

\* removeOldEntries ends: no request spins on a full journal for ever.
EvictionEnds ==
  \A e \in Events : pc[e] = "count" ~> pc[e] = "sent"

\* An event that is in the map and in no list, and that nobody is about to link
\* or to remove: neither an eviction nor a removal of matching events finds it.
Orphan(e) ==
  /\ e \in held \ ToSet(deque)
  /\ pc[e] # "link"
  /\ \A f \in Events : victim[f] # e
  /\ \A a \in Admins :
       doing[a] # "poll" /\ e \notin todo[a] /\ gone[a] # e

\* However requests, evictions, removals and resets overlap, there is one way
\* for the map to outgrow the list: an event whose id goes between the check of
\* it and the put that completes it is put back, and stays until it is removed by
\* its id or reset.
OrphansAreStoredLate ==
  [][\A e \in Events : (~Orphan(e) /\ Orphan(e)') => StoreAgain(e)]_vars

-----------------------------------------------------------------------------
(* The journal, when nobody resets or removes, implements BoundedLog.       *)

\* What an evicting request has still to remove is no longer in the log.
LogOf(s) == IF Len(s) > MaxEntries THEN SubSeq(s, 1, MaxEntries) ELSE s

\* A request has counted too many, and another has evicted them since.
Overdue ==
  Len(deque) <= MaxEntries /\ \E e \in Events : pc[e] = "poll"

Log == INSTANCE BoundedLog WITH log <- LogOf(deque), overdue <- Overdue

\* Every id of the deque has its event: what is listed is the whole deque.
AllListed == ToSet(deque) \subseteq held

\* The journal keeps the newest MaxEntries events, newest first, and loses
\* another, the oldest, only to an eviction that was decided on while the
\* journal was over its limit and carried out when it no longer was.
KeepsTheNewest == Log!Spec /\ []AllListed
=============================================================================
