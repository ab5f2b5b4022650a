------------------------ MODULE MessageChannelsProofs ------------------------
(***************************************************************************)
(* Proofs about MessageChannels, for any number of threads and messages:   *)
(* the channel and its sink agree unless calls have overlapped, and a      *)
(* message that fails has lost its channel.                                *)
(***************************************************************************)
EXTENDS MessageChannels, SequenceTheorems, TLAPS

\* What a handler has journalled, by where it is.
Progress ==
  \A m \in Messages :
    /\ handling[m] \in {"new", "reply"} => journal[m] = <<>>
    /\ handling[m] \in {"find", "deliver", "inbound", "failed"} => journal[m] = <<"reply">>
    /\ handling[m] = "sent" => journal[m] = <<"reply", "inbound">>
    /\ handling[m] = "received" => journal[m] = <<"reply", "inbound", "sent">>
    /\ handling[m] = "done" => journal[m] = Entries

Types ==
  /\ stored \subseteq Channels
  /\ sink \in BOOLEAN
  /\ doing \in [Callers -> {"none", "sink", "find", "add", "close", "remove"}]
  /\ mine \in [Callers -> Channels \cup {None}]
  /\ \A c \in Callers : doing[c] # "none" => mine[c] \in Channels
  /\ handling \in [Messages -> {"new", "reply", "find", "deliver", "inbound", "sent",
                                "received", "done", "failed"}]
  /\ journal = [m \in Messages |-> journal[m]]
  /\ damaged \in BOOLEAN
  /\ disturbed \subseteq Messages

\* While no two calls overlap: the name has one channel, and it has its sink
\* until the call that removes it has closed it.
Sound ==
  ~damaged =>
    /\ ~Overlapping
    /\ \A f, g \in stored : f = g
    /\ stored # {} /\ (\A c \in Callers : doing[c] # "remove") => sink
    /\ \A c \in Callers :
         /\ doing[c] = "find" => sink
         /\ doing[c] = "add" => sink /\ stored = {}
         /\ doing[c] \in {"close", "remove"} => stored = {mine[c]}

\* A message that is not disturbed has its channel all the time.
Steady ==
  \A m \in Messages :
    (handling[m] # "new" /\ m \notin disturbed) =>
      /\ ~Missing
      /\ handling[m] = "failed" => damaged

IInv == Types /\ Progress /\ Sound /\ Steady

-----------------------------------------------------------------------------
(* The invariant gives the properties.                                     *)

LEMMA PrefixesOfEntries ==
  /\ IsPrefix(<<>>, Entries)
  /\ IsPrefix(<<"reply">>, Entries)
  /\ IsPrefix(<<"reply", "inbound">>, Entries)
  /\ IsPrefix(<<"reply", "inbound", "sent">>, Entries)
  /\ IsPrefix(Entries, Entries)
BY DEF IsPrefix, Entries

LEMMA IInvImplies ==
  ASSUME IInv
  PROVE  TypeOK /\ ChannelsWork /\ FailureIsJustified
<1>1. TypeOK
  <2>1. \A m \in Messages : IsPrefix(journal[m], Entries)
    BY PrefixesOfEntries DEF IInv, Types, Progress
  <2> QED BY <2>1 DEF IInv, Types, TypeOK
<1>2. ChannelsWork
  BY DEF IInv, Types, Sound, ChannelsWork, Idle
<1>3. FailureIsJustified
  BY DEF IInv, Steady, FailureIsJustified
<1> QED BY <1>1, <1>2, <1>3

-----------------------------------------------------------------------------
(* The inductive invariant, action by action.                              *)

LEMMA InitIInv == Init => IInv
<1> SUFFICES ASSUME Init PROVE IInv
  OBVIOUS
<1> QED BY DEF Init, IInv, Types, Progress, Sound, Steady, Overlapping

\* What Track makes of a step, whatever the step is.
LEMMA SteadyKept ==
  ASSUME IInv, Track,
         \A m \in Messages :
           (handling[m] # "new" /\ handling'[m] = "failed" /\ handling[m] # "failed") =>
             Missing \/ damaged',
         handling' \in [Messages -> {"new", "reply", "find", "deliver", "inbound", "sent",
                                     "received", "done", "failed"}],
         \A m \in Messages : handling[m] # "new" => handling'[m] # "new",
         \A m \in Messages : handling[m] = "new" => handling'[m] # "failed"
  PROVE  Steady'
<1> SUFFICES ASSUME NEW m \in Messages, handling'[m] # "new", m \notin disturbed'
             PROVE  ~Missing' /\ (handling'[m] = "failed" => damaged')
  BY DEF Steady
<1>1. ~Missing' /\ m \notin disturbed
  BY DEF Track
<1>2. ASSUME handling'[m] = "failed"
      PROVE  damaged'
  <2>1. handling[m] # "new" /\ ~Missing /\ (handling[m] = "failed" => damaged)
    BY <1>1, <1>2 DEF IInv, Steady
  <2>2. CASE handling[m] = "failed"
    BY <1>1, <2>1, <2>2 DEF Track, Missing
  <2>3. CASE handling[m] # "failed"
    BY <1>2, <2>1, <2>3
  <2> QED BY <2>2, <2>3
<1> QED BY <1>1, <1>2

\* A call's step leaves the messages where they are.
LEMMA CallKeepsMessages ==
  ASSUME IInv, Track, UNCHANGED <<handling, journal>>
  PROVE  Steady' /\ Progress' /\ disturbed' \subseteq Messages /\ damaged' \in BOOLEAN
<1>1. Steady'
  BY SteadyKept DEF IInv, Types
<1>2. disturbed' \subseteq Messages /\ damaged' \in BOOLEAN
  BY DEF Track, IInv, Types
<1>3. Progress'
  BY DEF Progress, IInv
<1> QED BY <1>1, <1>2, <1>3

LEMMA CallTypes ==
  ASSUME IInv, NEW c \in Callers, ChannelCall(c), Track
  PROVE  Types'
<1> USE DEF IInv, Types, Does, Return
<1>1. disturbed' \subseteq Messages /\ damaged' \in BOOLEAN /\ UNCHANGED <<handling, journal>>
  BY CallKeepsMessages DEF ChannelCall
<1>2. CASE \E ch \in Channels : Create(c, ch)
  BY <1>1, <1>2 DEF Create
<1>3. CASE PutSink(c)
  BY <1>1, <1>3 DEF PutSink
<1>4. CASE Conflict(c)
  BY <1>1, <1>4 DEF Conflict
<1>5. CASE NameIsFree(c)
  BY <1>1, <1>5 DEF NameIsFree
<1>6. CASE AddChannel(c)
  BY <1>1, <1>6 DEF AddChannel
<1>7. CASE \E ch \in Channels : BeginRemove(c, ch)
  BY <1>1, <1>7 DEF BeginRemove
<1>8. CASE CloseChannel(c)
  BY <1>1, <1>8 DEF CloseChannel
<1>9. CASE RemoveChannel(c)
  BY <1>1, <1>9 DEF RemoveChannel
<1> QED BY <1>2, <1>3, <1>4, <1>5, <1>6, <1>7, <1>8, <1>9 DEF ChannelCall

\* The heart of it: a call that overlaps with no other.
LEMMA CallSound ==
  ASSUME Types, Sound, NEW c \in Callers, ChannelCall(c), ~damaged, ~Overlapping'
  PROVE  Sound'
<1> USE DEF Types, Does, Return
<1>1. /\ \A d \in Callers \ {c} : doing[d] = doing'[d] /\ mine[d] = mine'[d]
      /\ doing[c] # "none" => \A d \in Callers \ {c} : doing[d] = "none"
      /\ doing'[c] # "none" => \A d \in Callers \ {c} : doing'[d] = "none"
  BY DEF Sound, Overlapping, ChannelCall, Create, PutSink, Conflict, NameIsFree,
         AddChannel, BeginRemove, CloseChannel, RemoveChannel
<1>2. CASE \E ch \in Channels : Create(c, ch)
  BY <1>1, <1>2 DEF Create, Sound, Overlapping
<1>3. CASE PutSink(c)
  BY <1>1, <1>3 DEF PutSink, Sound, Overlapping
<1>4. CASE Conflict(c)
  BY <1>1, <1>4 DEF Conflict, Sound, Overlapping
<1>5. CASE NameIsFree(c)
  BY <1>1, <1>5 DEF NameIsFree, Sound, Overlapping
<1>6. CASE AddChannel(c)
  BY <1>1, <1>6 DEF AddChannel, Sound, Overlapping
<1>7. CASE \E ch \in Channels : BeginRemove(c, ch)
  BY <1>1, <1>7 DEF BeginRemove, Sound, Overlapping
<1>8. CASE CloseChannel(c)
  BY <1>1, <1>8 DEF CloseChannel, Sound, Overlapping
<1>9. CASE RemoveChannel(c)
  BY <1>1, <1>9 DEF RemoveChannel, Sound, Overlapping
<1> QED BY <1>2, <1>3, <1>4, <1>5, <1>6, <1>7, <1>8, <1>9 DEF ChannelCall

LEMMA CallIInv ==
  ASSUME IInv, NEW c \in Callers, ChannelCall(c), Track
  PROVE  IInv'
<1>1. Steady' /\ Progress'
  BY CallKeepsMessages DEF ChannelCall
<1>2. Types'
  BY CallTypes
<1>3. CASE damaged'
  BY <1>1, <1>2, <1>3 DEF Sound, IInv
<1>4. CASE ~damaged' /\ damaged
  <2>1. (Idle /\ stored = {})' /\ ~Overlapping'
    BY <1>4 DEF Track
  <2>2. \A d \in Callers : doing'[d] = "none"
    BY <2>1 DEF Idle
  <2>3. Sound'
    BY <2>1, <2>2 DEF Sound
  <2> QED BY <1>1, <1>2, <2>3 DEF IInv
<1>5. CASE ~damaged' /\ ~damaged
  <2>1. ~Overlapping'
    BY <1>5 DEF Track
  <2>2. Sound'
    BY <1>5, <2>1, CallSound DEF IInv
  <2> QED BY <1>1, <1>2, <2>2 DEF IInv
<1> QED BY <1>3, <1>4, <1>5

Kinds == {"reply", "inbound", "sent", "received"}

LEMMA AppendIs ==
  ASSUME NEW s \in Seq(Kinds), NEW t \in Seq(Kinds), NEW k \in Kinds,
         Len(t) = Len(s) + 1, \A i \in 1 .. Len(s) : t[i] = s[i], t[Len(t)] = k
  PROVE  Append(s, k) = t
<1>1. /\ Append(s, k) \in Seq(Kinds)
      /\ Len(Append(s, k)) = Len(t)
      /\ \A i \in 1 .. Len(Append(s, k)) : Append(s, k)[i] = t[i]
  BY AppendProperties
<1> QED BY <1>1, SeqEqual

\* Each entry a handler appends is the next of Entries.
LEMMA OneEntryMore ==
  /\ Append(<<>>, "reply") = <<"reply">>
  /\ Append(<<"reply">>, "inbound") = <<"reply", "inbound">>
  /\ Append(<<"reply", "inbound">>, "sent") = <<"reply", "inbound", "sent">>
  /\ Append(<<"reply", "inbound", "sent">>, "received") = Entries
<1>1. Append(<<>>, "reply") = <<"reply">>
  OBVIOUS
<1>2. /\ <<"reply">> \in Seq(Kinds)
      /\ <<"reply", "inbound">> \in Seq(Kinds)
      /\ <<"reply", "inbound", "sent">> \in Seq(Kinds)
      /\ Entries \in Seq(Kinds)
      /\ "inbound" \in Kinds /\ "sent" \in Kinds /\ "received" \in Kinds
  BY DEF Entries, Kinds
<1>3. Append(<<"reply">>, "inbound") = <<"reply", "inbound">>
  <2> DEFINE s == <<"reply">>
             t == <<"reply", "inbound">>
  <2>1. Len(t) = Len(s) + 1 /\ t[Len(t)] = "inbound" /\ \A i \in 1 .. Len(s) : t[i] = s[i]
    OBVIOUS
  <2>2. s \in Seq(Kinds) /\ t \in Seq(Kinds)
    BY <1>2
  <2> HIDE DEF s, t
  <2>3. Append(s, "inbound") = t
    BY <1>2, <2>1, <2>2, AppendIs
  <2> QED BY <2>3 DEF s, t
<1>4. Append(<<"reply", "inbound">>, "sent") = <<"reply", "inbound", "sent">>
  <2> DEFINE s == <<"reply", "inbound">>
             t == <<"reply", "inbound", "sent">>
  <2>1. Len(t) = Len(s) + 1 /\ t[Len(t)] = "sent" /\ \A i \in 1 .. Len(s) : t[i] = s[i]
    OBVIOUS
  <2>2. s \in Seq(Kinds) /\ t \in Seq(Kinds)
    BY <1>2
  <2> HIDE DEF s, t
  <2>3. Append(s, "sent") = t
    BY <1>2, <2>1, <2>2, AppendIs
  <2> QED BY <2>3 DEF s, t
<1>5. Append(<<"reply", "inbound", "sent">>, "received") = Entries
  <2> DEFINE s == <<"reply", "inbound", "sent">>
  <2>1. /\ Len(Entries) = Len(s) + 1 /\ Entries[Len(Entries)] = "received"
        /\ \A i \in 1 .. Len(s) : Entries[i] = s[i]
    BY DEF Entries
  <2>2. s \in Seq(Kinds)
    BY <1>2
  <2> HIDE DEF s
  <2>3. Append(s, "received") = Entries
    BY <1>2, <2>1, <2>2, AppendIs
  <2> QED BY <2>3 DEF s
<1> QED BY <1>1, <1>3, <1>4, <1>5

\* A handler's step leaves the channel as it is.
LEMMA HandleIInv ==
  ASSUME IInv, NEW m \in Messages, Handle(m), Track
  PROVE  IInv'
<1> USE DEF Goto, Record, channelVars
<1>1. /\ UNCHANGED channelVars
      /\ handling' \in [Messages -> {"new", "reply", "find", "deliver", "inbound", "sent",
                                     "received", "done", "failed"}]
      /\ journal' = [x \in Messages |-> journal'[x]]
      /\ \A x \in Messages \ {m} : handling'[x] = handling[x] /\ journal'[x] = journal[x]
  BY DEF IInv, Types, Handle, Receive, Reply, RequireFixed, Deliver, ReceiveInbound,
         JournalSent, JournalReceived
<1>2. Types'
  <2>1. disturbed' \subseteq Messages /\ damaged' \in BOOLEAN
    BY DEF Track, IInv, Types
  <2> QED BY <1>1, <2>1 DEF IInv, Types
<1>3. Progress'
  <2>1. CASE Receive(m) \/ RequireFixed(m) \/ Deliver(m)
    BY <1>1, <2>1 DEF IInv, Types, Progress, Receive, RequireFixed, Deliver
  <2>2. CASE Reply(m)
    BY <1>1, <2>2, OneEntryMore DEF IInv, Types, Progress, Reply
  <2>3. CASE ReceiveInbound(m)
    BY <1>1, <2>3, OneEntryMore DEF IInv, Types, Progress, ReceiveInbound
  <2>4. CASE JournalSent(m)
    BY <1>1, <2>4, OneEntryMore DEF IInv, Types, Progress, JournalSent
  <2>5. CASE JournalReceived(m)
    BY <1>1, <2>5, OneEntryMore DEF IInv, Types, Progress, JournalReceived
  <2> QED BY <2>1, <2>2, <2>3, <2>4, <2>5 DEF Handle
<1>4. damaged' = (damaged /\ ~(Idle /\ stored = {})) \/ damaged' = TRUE
  BY <1>1 DEF Track, Idle
<1>5. Sound'
  <2>1. CASE damaged /\ ~damaged'
    BY <1>1, <2>1 DEF Track, Idle, Sound, Overlapping
  <2>2. CASE ~damaged
    BY <1>1, <2>2 DEF IInv, Sound, Overlapping
  <2>3. CASE damaged'
    BY <2>3 DEF Sound
  <2> QED BY <2>1, <2>2, <2>3
<1>6. Steady'
  <2>1. ASSUME handling'[m] = "failed", handling[m] # "failed"
        PROVE  Missing \/ damaged'
    <3>1. stored = {} \/ ~sink
      BY <2>1 DEF Handle, Receive, Reply, RequireFixed, Deliver, ReceiveInbound,
                  JournalSent, JournalReceived, IInv, Types
    <3>2. damaged => damaged' \/ stored = {}
      BY <1>1 DEF Track, Idle
    <3>3. ~damaged => Missing
      BY <3>1 DEF IInv, Sound, Missing
    <3> QED BY <3>2, <3>3 DEF Missing
  <2>2. /\ \A x \in Messages : handling[x] # "new" => handling'[x] # "new"
        /\ \A x \in Messages : handling[x] = "new" => handling'[x] # "failed"
    BY <1>1 DEF Handle, Receive, Reply, RequireFixed, Deliver, ReceiveInbound,
                JournalSent, JournalReceived, IInv, Types
  <2> QED BY <1>1, <2>1, <2>2, SteadyKept
<1> QED BY <1>2, <1>3, <1>5, <1>6 DEF IInv

-----------------------------------------------------------------------------

LEMMA StutterIInv ==
  ASSUME IInv, UNCHANGED vars
  PROVE  IInv'
BY DEF IInv, Types, Progress, Sound, Steady, Overlapping, Missing, vars, channelVars

LEMMA StepIInv ==
  ASSUME IInv, [Next]_vars
  PROVE  IInv'
BY CallIInv, HandleIInv, StutterIInv DEF Next

\* The inductive invariant holds in every reachable state.
THEOREM Invariance == Spec => []IInv
<1>1. IInv /\ [Next]_vars => IInv'
  BY StepIInv
<1> QED BY <1>1, InitIInv, PTL DEF Spec

\* Type correctness, for any number of threads, messages and channels: what a
\* message's actions did is journalled before the message, in their order.
THEOREM TypeCorrect == Spec => []TypeOK
<1>1. IInv => TypeOK
  BY IInvImplies
<1> QED BY <1>1, Invariance, PTL

\* The name has one channel and its sink whenever no call is under way, unless
\* MessageChannels.add and remove have overlapped since it was last free.
THEOREM ChannelsWorkAlways == Spec => []ChannelsWork
<1>1. IInv => ChannelsWork
  BY IInvImplies
<1> QED BY <1>1, Invariance, PTL

\* A message whose channel is there all the time is handled to the end and
\* journalled, unless calls have overlapped.
THEOREM FailureIsAlwaysJustified == Spec => []FailureIsJustified
<1>1. IInv => FailureIsJustified
  BY IInvImplies
<1> QED BY <1>1, Invariance, PTL
=============================================================================
