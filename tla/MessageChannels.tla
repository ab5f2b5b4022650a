--------------------------- MODULE MessageChannels ---------------------------
(***************************************************************************)
(* A fixed message channel while it is created and removed and messages    *)
(* are sent to it: MessageChannels over InMemoryMessageChannelStore, the   *)
(* sinks of InMemoryChannelProviderDriver, and MessageStubRequestHandler,  *)
(* which forwards to the channel and journals what it did.  One name of    *)
(* one provider is modelled; names do not interact.  Each access of a map  *)
(* is a step of its own.                                                   *)
(***************************************************************************)
EXTENDS SequencesExt

CONSTANTS
  Callers,   \* threads that create and remove the channel
  Messages,  \* messages from clients, each handled by a thread of its own
  Channels,  \* FixedChannels, a fresh UUID for each creation
  None

ASSUME ChannelsAssumption == None \notin Channels

VARIABLES
  stored,    \* the channels of this name in the channel store
  sink,      \* whether the driver has a sink under the name
  doing,     \* where each caller is
  mine,      \* the channel it creates or removes
  handling,  \* where the handler of each message is
  journal,   \* what it has journalled
  damaged,   \* history: calls have overlapped since the name was last free
  disturbed  \* history: messages during which the channel was missing or
             \* a removal under way

channelVars == <<stored, sink, doing, mine>>
vars == <<channelVars, handling, journal, damaged, disturbed>>

\* What the stub's actions and the message itself leave in the journal: the
\* reply, the message the fixed channel receives, the forwarding of it, and
\* the message from the client.
Entries == <<"reply", "inbound", "sent", "received">>

\* Each variable holds what its comment says, and the journal has what the
\* actions did before it has the message they answer.
TypeOK ==
  /\ stored \subseteq Channels
  /\ sink \in BOOLEAN
  /\ doing \in [Callers -> {"none", "sink", "find", "add", "close", "remove"}]
  /\ mine \in [Callers -> Channels \cup {None}]
  /\ handling \in [Messages -> {"new", "reply", "find", "deliver", "inbound", "sent",
                                "received", "done", "failed"}]
  /\ \A m \in Messages : IsPrefix(journal[m], Entries)
  /\ damaged \in BOOLEAN
  /\ disturbed \subseteq Messages

Init ==
  /\ stored = {}
  /\ sink = FALSE
  /\ doing = [c \in Callers |-> "none"]
  /\ mine = [c \in Callers |-> None]
  /\ handling = [m \in Messages |-> "new"]
  /\ journal = [m \in Messages |-> <<>>]
  /\ damaged = FALSE
  /\ disturbed = {}

Does(c, label) == doing' = [doing EXCEPT ![c] = label]

-----------------------------------------------------------------------------
(* createFixedChannel: the driver gets its sink first, MessageChannels.add  *)
(* looks whether the name is taken and adds the channel.                   *)

Create(c, ch) ==
  /\ doing[c] = "none"
  /\ ch \notin stored /\ \A d \in Callers : mine[d] # ch
  /\ mine' = [mine EXCEPT ![c] = ch]
  /\ Does(c, "sink")
  /\ UNCHANGED <<stored, sink>>

PutSink(c) ==
  /\ doing[c] = "sink"
  /\ sink' = TRUE
  /\ Does(c, "find")
  /\ UNCHANGED <<stored, mine>>

Return(c) ==
  /\ mine' = [mine EXCEPT ![c] = None]
  /\ Does(c, "none")

\* Mutant: the creation that is refused takes its sink back.
ConflictTakesBack(c) ==
  /\ doing[c] = "find"
  /\ stored # {}
  /\ sink' = FALSE
  /\ Return(c)
  /\ UNCHANGED stored

\* ConflictException.  The sink stays: it does what the one before it did.
Conflict(c) ==
  /\ doing[c] = "find"
  /\ stored # {}
  /\ Return(c)
  /\ UNCHANGED <<stored, sink>>

\* Mutant: the name is not looked up.
NameTakenOrFree(c) ==
  /\ doing[c] = "find"
  /\ Does(c, "add")
  /\ UNCHANGED <<stored, sink, mine>>

NameIsFree(c) ==
  /\ doing[c] = "find"
  /\ stored = {}
  /\ Does(c, "add")
  /\ UNCHANGED <<stored, sink, mine>>

AddChannel(c) ==
  /\ doing[c] = "add"
  /\ stored' = stored \cup {mine[c]}
  /\ Return(c)
  /\ UNCHANGED sink

-----------------------------------------------------------------------------
(* MessageChannels.remove: close, which deletes the driver's sink, and the  *)
(* removal from the store.                                                 *)

BeginRemove(c, ch) ==
  /\ doing[c] = "none"
  /\ ch \in stored
  /\ mine' = [mine EXCEPT ![c] = ch]
  /\ Does(c, "close")
  /\ UNCHANGED <<stored, sink>>

CloseChannel(c) ==
  /\ doing[c] = "close"
  /\ sink' = FALSE
  /\ Does(c, "remove")
  /\ UNCHANGED <<stored, mine>>

RemoveChannel(c) ==
  /\ doing[c] = "remove"
  /\ stored' = stored \ {mine[c]}
  /\ Return(c)
  /\ UNCHANGED sink

-----------------------------------------------------------------------------
(* processMessage, of a message for which there is a stub: one that replies *)
(* to the client and forwards to the fixed channel.                        *)

Goto(m, label) == handling' = [handling EXCEPT ![m] = label] /\ UNCHANGED channelVars

Record(m, entry) == journal' = [journal EXCEPT ![m] = Append(@, entry)]

\* Mutant: the message is journalled before its actions run.
ReceiveFirst(m) ==
  /\ handling[m] = "new"
  /\ Goto(m, "reply")
  /\ Record(m, "received")

Receive(m) ==
  /\ handling[m] = "new"
  /\ Goto(m, "reply")
  /\ UNCHANGED journal

Reply(m) ==
  /\ handling[m] = "reply"
  /\ Goto(m, "find")
  /\ Record(m, "reply")

\* requireFixed: NotFoundException.
RequireFixed(m) ==
  /\ handling[m] = "find"
  /\ Goto(m, IF stored = {} THEN "failed" ELSE "deliver")
  /\ UNCHANGED journal

\* The driver finds no sink: IllegalStateException.
Deliver(m) ==
  /\ handling[m] = "deliver"
  /\ Goto(m, IF sink THEN "inbound" ELSE "failed")
  /\ UNCHANGED journal

\* The sink looks the channel up once more, and journals what it received.
ReceiveInbound(m) ==
  /\ handling[m] = "inbound"
  /\ IF stored = {}
     THEN Goto(m, "failed") /\ UNCHANGED journal
     ELSE Goto(m, "sent") /\ Record(m, "inbound")

JournalSent(m) ==
  /\ handling[m] = "sent"
  /\ Goto(m, "received")
  /\ Record(m, "sent")

JournalReceived(m) ==
  /\ handling[m] = "received"
  /\ Goto(m, "done")
  /\ Record(m, "received")

-----------------------------------------------------------------------------

ChannelCall(c) ==
  /\ \/ \E ch \in Channels : Create(c, ch) \/ BeginRemove(c, ch)
     \/ PutSink(c) \/ Conflict(c) \/ NameIsFree(c) \/ AddChannel(c)
     \/ CloseChannel(c) \/ RemoveChannel(c)
  /\ UNCHANGED <<handling, journal>>

Handle(m) ==
  \/ Receive(m) \/ Reply(m)
  \/ RequireFixed(m) \/ Deliver(m) \/ ReceiveInbound(m)
  \/ JournalSent(m) \/ JournalReceived(m)

\* History: what the step means to the name and to the messages in hand.
Idle == \A c \in Callers : doing[c] = "none"

Overlapping ==
  \E c, d \in Callers : c # d /\ doing[c] # "none" /\ doing[d] # "none"

Missing == stored = {} \/ \E c \in Callers : doing[c] \in {"close", "remove"}

Track ==
  /\ damaged' = (Overlapping' \/ (damaged /\ ~(Idle /\ stored = {})'))
  /\ disturbed' =
       {m \in Messages : handling'[m] # "new" /\ (m \in disturbed \/ Missing')}

Next ==
  /\ (\E c \in Callers : ChannelCall(c)) \/ (\E m \in Messages : Handle(m))
  /\ Track

Spec == Init /\ [][Next]_vars

-----------------------------------------------------------------------------
(* Properties                                                              *)

\* When no call is under way the name has one channel at most, and one that has
\* a sink, unless two calls have overlapped since the name was last free: both
\* find it free, or one deletes the sink that the other has just put.  Such
\* damage ends when the channels of the name have been removed.
ChannelsWork ==
  (Idle /\ ~damaged) =>
    /\ \A f, g \in stored : f = g
    /\ stored # {} => sink

\* A message that finds its channel is handled to the end and journalled,
\* whatever creations, refused ones included, run meanwhile: what it did is left
\* in the journal without it only if the channel was missing, or was being
\* removed, at some moment of it.
FailureIsJustified ==
  \A m \in Messages : (handling[m] = "failed" /\ ~damaged) => m \in disturbed
=============================================================================
