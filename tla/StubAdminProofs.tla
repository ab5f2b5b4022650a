---------------------------- MODULE StubAdminProofs ----------------------------
(***************************************************************************)
(* Theorems about StubAdmin, for any number of admin calls, requests,      *)
(* stubs and scenarios: each id has one stub, a stub is in its scenario    *)
(* and found there, and the first match wins, in every interleaving.       *)
(***************************************************************************)
EXTENDS StubAdmin, TLAPS

\* What a call has in hand in each of its stages.
Prepared(c) ==
  /\ c.op = "none" <=> c.at = ""
  /\ c.op # "none" => c.id \in Ids
  /\ c.op = "add" => c.at \in {"insert", "readNew", "putNew"}
  /\ c.op = "edit" =>
       c.at \in {"unlink", "relink", "readOld", "putOld", "readNew", "putNew"}
  /\ c.op = "remove" => c.at \in {"remove", "readOld", "putOld"}
  /\ c.op = "reset" =>
       c.at \in {"clear", "scenarios", "load", "insert", "readNew", "putNew"}
  /\ c.at \in {"clear", "scenarios", "load"} => c.new = Default /\ c.id = Default.id
  /\ c.at = "insert" => c.new \in Stubs /\ c.new.id = c.id
  /\ c.at \in {"unlink", "relink", "remove", "readOld", "putOld"} =>
       c.old \in Entries /\ c.old.id = c.id
  /\ (c.op = "edit" \/ c.at \in {"readNew", "putNew"}) =>
       c.new \in Entries /\ c.new.id = c.id
  /\ c.at \in {"unlink", "relink"} => c.new.idx = c.old.idx
  /\ c.at \in {"readOld", "putOld"} => c.old.scen \in Scenarios
  /\ (c.op = "edit" /\ c.at \in {"readOld", "putOld"}) => c.old.scen # c.new.scen
  /\ c.at \in {"readNew", "putNew"} => c.new.scen \in Scenarios
  /\ c.at \in {"putOld", "putNew"} => c.read \subseteq Ids
  /\ c.at = "scenarios" => c.read \subseteq Scenarios

Ready == \A a \in Admins : Prepared(call[a])

\* An insertion index belongs to one id: no edit replaces another's stub.
Edited(a) == call[a].at \in {"unlink", "relink"}

Indexed ==
  /\ \A e \in store : e.idx < count
  /\ \A e, f \in store : e.idx = f.idx => e.id = f.id
  /\ \A a \in Admins : Edited(a) =>
       /\ call[a].old.idx < count
       /\ \A e \in store : e.idx = call[a].old.idx => e.id = call[a].id
  /\ \A a, b \in Admins :
       (Edited(a) /\ Edited(b) /\ call[a].old.idx = call[b].old.idx) =>
         call[a].id = call[b].id

Gone(id) == \A e \in store : e.id # id

\* A stub is registered in the scenario sc and in no other that is sound.
RegisteredAt(id, sc) ==
  \A s \in Scenarios \ raced : id \in registered[s] <=> s = sc

\* What a call that no other gets in the way of has done so far.
Stage(c, id) ==
  /\ c.at \in {"insert", "load"} => Gone(id) /\ RegisteredAt(id, None)
  /\ c.at = "relink" => Gone(id) /\ RegisteredAt(id, c.old.scen)
  /\ c.at \in {"unlink", "remove"} => c.old \in store /\ RegisteredAt(id, c.old.scen)
  /\ c.at \in {"readOld", "putOld"} =>
       /\ RegisteredAt(id, c.old.scen)
       /\ IF c.op = "edit" THEN c.new \in store ELSE Gone(id)
  /\ c.at \in {"readNew", "putNew"} =>
       /\ \A s \in Scenarios \ raced :
            id \in registered[s] => id = c.id /\ s = c.new.scen
       /\ IF id = c.id THEN c.new \in store ELSE Gone(id)
  /\ c.at = "scenarios" =>
       /\ Gone(id)
       /\ \A s \in Scenarios \ (raced \cup c.read) : id \notin registered[s]

Works(a, id) == id \in Concerns(call[a])

OneStub(id) == \A e, f \in store : (e.id = id /\ f.id = id) => e = f

OneCall(id) == \A a, b \in Admins : (Works(a, id) /\ Works(b, id)) => a = b

Agree(id) ==
  \A s \in Scenarios \ raced :
    id \in registered[s] <=> \E e \in store : e.id = id /\ e.scen = s

Sound(id) ==
  /\ OneStub(id)
  /\ OneCall(id)
  /\ (\A a \in Admins : ~Works(a, id)) => Agree(id)
  /\ \A a \in Admins : Works(a, id) => Stage(call[a], id)

Orderly == \A id \in Ids \ suspect : Sound(id)

\* What a request has in hand.
Serving ==
  \A t \in Threads :
    LET r == request[t]
    IN /\ r.at # "idle" => r.throughout \subseteq store /\ InHand(Admins) \subseteq r.touched
       /\ r.at = "scan" => \A f \in r.throughout : f.scen = None => After(t, f)
       /\ r.at \in {"serve", "put"} => r.chosen \in Entries \cup {NotConfigured}
       /\ (r.at = "serve" /\ r.chosen # NotConfigured /\ r.chosen.id \notin suspect \cup r.touched)
            => r.chosen \in store
       /\ r.at = "put" => r.chosen \in Entries /\ r.chosen.scen \in Scenarios

IInv == TypeOK /\ Ready /\ Indexed /\ Orderly /\ Serving /\ FirstMatchWins

-----------------------------------------------------------------------------
(* A step of a call under way, in general.                                 *)

\* The thread a goes on with its call or ends it.
Continues(a) ==
  /\ call' \in [Admins -> CallType]
  /\ \A b \in Admins \ {a} : call'[b] = call[b]
  /\ Prepared(call'[a])
  /\ call'[a] = NoCall \/ (call'[a].op = call[a].op /\ call'[a].id = call[a].id)

LEMMA NoCallPrepared ==
  /\ NoCall \in CallType
  /\ Prepared(NoCall)
  /\ Concerns(NoCall) = {}
  /\ NoCall.at = "" /\ NoCall.op = "none"
<1>1. NoCall \in CallType
  BY DEF NoCall, CallType
<1>2. /\ NoCall.op = "none" /\ NoCall.at = "" /\ NoCall.id = None
      /\ NoCall.read = {} /\ NoCall.old = None /\ NoCall.new = None
  BY DEF NoCall
<1>3. Prepared(NoCall)
  BY <1>2 DEF Prepared
<1>4. Concerns(NoCall) = {}
  BY <1>2 DEF Concerns
<1> QED BY <1>1, <1>2, <1>3, <1>4

LEMMA ContinuesReady ==
  ASSUME Ready, NEW a \in Admins, Continues(a)
  PROVE  Ready'
<1>1. Ready' <=> \A b \in Admins : Prepared(call'[b])
  BY DEF Ready, Prepared
<1> QED BY <1>1 DEF Ready, Continues

LEMMA ContinuesConcerns ==
  ASSUME TypeOK, NEW a \in Admins, Continues(a)
  PROVE  /\ \A b \in Admins : Concerns(call'[b]) \subseteq Concerns(call[b])
         /\ InHand(Admins)' \subseteq InHand(Admins)
<1>1. Concerns(call'[a]) \subseteq Concerns(call[a])
  <2>1. CASE call'[a] = NoCall
    BY <2>1, NoCallPrepared
  <2>2. CASE call'[a].op = call[a].op /\ call'[a].id = call[a].id
    BY <2>2 DEF Concerns
  <2> QED BY <2>1, <2>2 DEF Continues
<1>2. \A b \in Admins \ {a} : Concerns(call'[b]) = Concerns(call[b])
  BY DEF Continues
<1>3. \A b \in Admins : Concerns(call'[b]) \subseteq Concerns(call[b])
  BY <1>1, <1>2
<1>4. InHand(Admins)' = UNION {Concerns(call'[b]) : b \in Admins}
  BY DEF InHand, Concerns
<1>5. InHand(Admins)' \subseteq InHand(Admins)
  BY <1>3, <1>4 DEF InHand
<1> QED BY <1>3, <1>5

\* A call is about its own id, or a reset about all ids.
LEMMA Concerned ==
  ASSUME TypeOK, Ready, NEW a \in Admins, call[a].op # "none"
  PROVE  /\ call[a].id \in Concerns(call[a])
         /\ Concerns(call[a]) \subseteq Ids
         /\ call[a].op # "reset" => Concerns(call[a]) = {call[a].id}
         /\ call[a].op = "reset" => Concerns(call[a]) = Ids
<1>1. call[a].id \in Ids
  BY DEF Ready, Prepared
<1> QED BY <1>1 DEF Concerns

\* What no call under way works on stays as it is.
LEMMA Frame ==
  ASSUME TypeOK, Ready, NEW id \in Ids, Sound(id),
         \A b \in Admins : Works(b, id) => call'[b] = call[b],
         \A b \in Admins : id \in Concerns(call'[b]) => Works(b, id),
         \A e \in store \cup store' : e.id = id => (e \in store <=> e \in store'),
         raced \subseteq raced',
         \A s \in Scenarios \ raced' : id \in registered[s] <=> id \in registered'[s]
  PROVE  Sound(id)'
<1>1. \A b \in Admins : Works(b, id)' <=> id \in Concerns(call'[b])
  BY DEF Works, Concerns
<1>2. \A b \in Admins : Works(b, id)' <=> Works(b, id)
  BY <1>1 DEF Works
<1>3. OneStub(id)'
  BY DEF Sound, OneStub
<1>4. OneCall(id)'
  BY <1>2 DEF Sound, OneCall
<1>5. Gone(id) => Gone(id)'
  BY DEF Gone
<1>6. \A s : RegisteredAt(id, s) => RegisteredAt(id, s)'
  BY DEF RegisteredAt
<1>7. (\A b \in Admins : ~Works(b, id)') => Agree(id)'
  <2> SUFFICES ASSUME Agree(id) PROVE Agree(id)'
    BY <1>2 DEF Sound
  <2>1. \A s : (\E e \in store : e.id = id /\ e.scen = s)
              <=> (\E e \in store' : e.id = id /\ e.scen = s)
    OBVIOUS
  <2> QED BY <2>1 DEF Agree
<1>8. ASSUME NEW b \in Admins, Works(b, id)'
      PROVE  Stage(call[b], id)'
  <2> DEFINE c == call[b]
  <2>1. Works(b, id) /\ call'[b] = c /\ Prepared(c) /\ Stage(c, id) /\ c.op # "none"
    BY <1>2, <1>8, NoCallPrepared DEF Sound, Ready, Works, Concerns
  <2>2. c.op # "reset" => c.id = id
    BY <2>1, Concerned DEF Works
  <2>3. c.at \in {"unlink", "remove"} /\ c.old \in store => c.old \in store'
    BY <2>1, <2>2 DEF Prepared
  <2>4. (c.op = "edit" \/ c.at \in {"readNew", "putNew"}) /\ id = c.id /\ c.new \in store
           => c.new \in store'
    BY <2>1, <2>2 DEF Prepared
  <2>5. c.op = "edit" => id = c.id
    BY <2>2
  <2> HIDE DEF c
  <2>6. Stage(c, id) => Stage(call[b], id)'
    BY <1>5, <1>6, <2>1, <2>3, <2>4, <2>5 DEF Stage
  <2> QED BY <2>1, <2>6
<1> QED BY <1>3, <1>4, <1>7, <1>8 DEF Sound

\* A step of a call keeps in order what it leaves alone; what is left to show
\* is about the ids the call works on.
LEMMA OrderlyStep ==
  ASSUME IInv, NEW a \in Admins, Continues(a),
         suspect \subseteq suspect', raced \subseteq raced',
         \A e \in store \cup store' :
           (e \in store <=> e \in store') \/ e.id \in Concerns(call[a]),
         \A s \in Scenarios \ raced', id \in Ids :
           (id \in registered[s] <=> id \in registered'[s]) \/ id \in Concerns(call[a]),
         \A id \in Concerns(call[a]) \ suspect' :
           /\ OneStub(id)'
           /\ id \in Concerns(call'[a]) => Stage(call[a], id)'
           /\ id \notin Concerns(call'[a]) => Agree(id)'
  PROVE  Orderly'
<1> SUFFICES ASSUME NEW id \in Ids \ suspect' PROVE Sound(id)'
  BY DEF Orderly, Sound
<1>1. Sound(id) /\ TypeOK /\ Ready
  BY DEF IInv, Orderly
<1>2. \A b \in Admins : id \in Concerns(call'[b]) => Works(b, id)
  BY <1>1, ContinuesConcerns DEF Works
<1>3. \A b \in Admins : Works(b, id)' <=> id \in Concerns(call'[b])
  BY DEF Works, Concerns
<1>4. CASE id \notin Concerns(call[a])
  <2>1. \A b \in Admins : Works(b, id) => call'[b] = call[b]
    BY <1>4 DEF Works, Continues
  <2> QED BY <1>1, <1>2, <1>4, <2>1, Frame
<1>5. CASE id \in Concerns(call[a])
  <2>1. \A b \in Admins \ {a} : ~Works(b, id)
    BY <1>1, <1>5 DEF Sound, OneCall, Works
  <2>2. \A b \in Admins \ {a} : ~Works(b, id)'
    BY <1>2, <1>3, <2>1
  <2>3. OneCall(id)'
    BY <2>2 DEF OneCall
  <2>4. (\A b \in Admins : ~Works(b, id)') => Agree(id)'
    BY <1>3, <1>5
  <2>5. ASSUME NEW b \in Admins, Works(b, id)' PROVE Stage(call[b], id)'
    BY <1>3, <1>5, <2>2, <2>5
  <2> QED BY <1>5, <2>3, <2>4, <2>5 DEF Sound
<1> QED BY <1>4, <1>5

\* What serving threads see of a step leaves them where they are.
LEMMA WatchedStep ==
  ASSUME TypeOK, NEW s, NEW ids \in SUBSET Ids, request' = Watched(s, ids)
  PROVE  /\ request' \in [Threads -> RequestType]
         /\ \A t \in Threads :
              /\ request'[t].at = request[t].at
              /\ request'[t].last = request[t].last
              /\ request'[t].chosen = request[t].chosen
              /\ request[t].touched \subseteq request'[t].touched
              /\ request[t].at # "idle" => request'[t].touched = request[t].touched \cup ids
              /\ request'[t].throughout \subseteq request[t].throughout
              /\ request[t].at # "idle" => request'[t].throughout \subseteq s
<1>1. ASSUME NEW t \in Threads
      PROVE  /\ request'[t] \in RequestType
             /\ request'[t].at = request[t].at
             /\ request'[t].last = request[t].last
             /\ request'[t].chosen = request[t].chosen
             /\ request[t].touched \subseteq request'[t].touched
             /\ request[t].at # "idle" => request'[t].touched = request[t].touched \cup ids
             /\ request'[t].throughout \subseteq request[t].throughout
             /\ request[t].at # "idle" => request'[t].throughout \subseteq s
  <2>1. CASE request[t].at = "idle"
    BY <2>1 DEF Watched, TypeOK
  <2>2. CASE request[t].at # "idle"
    <3> DEFINE r == request[t]
               X == r.throughout \cap s
               Y == r.touched \cup ids
    <3>1. r \in RequestType /\ X \in SUBSET Entries /\ Y \in SUBSET Ids
      BY DEF TypeOK, RequestType
    <3>2. request'[t] = [r EXCEPT !.throughout = X, !.touched = Y]
      BY <2>2 DEF Watched
    <3>3. X \subseteq r.throughout /\ X \subseteq s /\ r.touched \subseteq Y /\ Y = r.touched \cup ids
      OBVIOUS
    <3> HIDE DEF X, Y, r
    <3>4. /\ request'[t] \in RequestType
          /\ request'[t].at = r.at /\ request'[t].last = r.last
          /\ request'[t].chosen = r.chosen /\ request'[t].touched = Y
          /\ request'[t].throughout = X
      BY <3>1, <3>2 DEF RequestType
    <3> QED BY <3>3, <3>4 DEF r
  <2> QED BY <2>1, <2>2
<1>2. request' \in [Threads -> RequestType]
  BY <1>1 DEF Watched
<1> QED BY <1>1, <1>2

\* Requests under way are not misled by a step of a call.
LEMMA ServingStep ==
  ASSUME IInv, NEW a \in Admins, Continues(a), suspect \subseteq suspect',
         \/ store' = store /\ request' = request
         \/ StoreIs(store'),
         \A e \in store \ store' : e.id \in Concerns(call[a])
  PROVE  request' \in [Threads -> RequestType] /\ Serving' /\ FirstMatchWins'
<1>1. TypeOK /\ Serving /\ FirstMatchWins
  BY DEF IInv
<1>2. InHand(Admins)' \subseteq InHand(Admins)
  BY <1>1, ContinuesConcerns
<1>3. CASE store' = store /\ request' = request
  BY <1>1, <1>2, <1>3 DEF TypeOK, Serving, FirstMatchWins, Serves, After, Precedes
<1>4. CASE StoreIs(store')
  <2>2. ASSUME NEW t \in Threads
        PROVE  /\ request'[t].at = request[t].at
               /\ request'[t].last = request[t].last
               /\ request'[t].chosen = request[t].chosen
               /\ request[t].touched \subseteq request'[t].touched
               /\ request'[t].throughout \subseteq request[t].throughout
               /\ request[t].at # "idle" => request'[t].throughout \subseteq store'
    BY <1>1, <1>4, WatchedStep DEF StoreIs
  <2>3. request' \in [Threads -> RequestType]
    BY <1>1, <1>4, WatchedStep DEF StoreIs
  <2>4. FirstMatchWins'
    BY <1>1, <2>2 DEF FirstMatchWins, Serves
  <2>5. Serving'
    <3> SUFFICES ASSUME NEW t \in Threads
                 PROVE  LET r == request'[t]
                        IN /\ r.at # "idle" => r.throughout \subseteq store'
                                              /\ InHand(Admins)' \subseteq r.touched
                           /\ r.at = "scan" => \A f \in r.throughout : f.scen = None => After(t, f)'
                           /\ r.at \in {"serve", "put"} => r.chosen \in Entries \cup {NotConfigured}
                           /\ (r.at = "serve" /\ r.chosen # NotConfigured
                                 /\ r.chosen.id \notin suspect' \cup r.touched)
                                => r.chosen \in store'
                           /\ r.at = "put" => r.chosen \in Entries /\ r.chosen.scen \in Scenarios
      BY DEF Serving
    <3>1. \A f : After(t, f) => After(t, f)'
      BY <2>2 DEF After, Precedes
    <3>2. (request[t].at = "serve" /\ request[t].chosen \in store
             /\ request[t].chosen.id \notin request[t].touched) => request[t].chosen \in store'
      BY <1>1 DEF Serving, InHand
    <3> QED BY <1>1, <1>2, <2>2, <3>1, <3>2 DEF Serving
  <2> QED BY <2>3, <2>4, <2>5
<1> QED BY <1>3, <1>4

\* The ways in which a call goes on.

LEMMA Relabelled ==
  ASSUME TypeOK, NEW a \in Admins, NEW label \in {"scenarios", "load", "insert", "relink",
         "readOld", "putOld", "readNew", "putNew"}, Goto(a, label)
  PROVE  /\ call' \in [Admins -> CallType]
         /\ \A b \in Admins \ {a} : call'[b] = call[b]
         /\ call'[a].at = label /\ call'[a].op = call[a].op /\ call'[a].id = call[a].id
         /\ call'[a].old = call[a].old /\ call'[a].new = call[a].new
         /\ call'[a].read = call[a].read
BY DEF Goto, TypeOK, CallType

LEMMA Ended ==
  ASSUME TypeOK, NEW a \in Admins, EndCall(a)
  PROVE  /\ Continues(a) /\ call'[a] = NoCall
         /\ Concerns(call'[a]) = {} /\ call'[a].at = ""
<1>1. call'[a] = NoCall /\ \A b \in Admins \ {a} : call'[b] = call[b]
  BY DEF EndCall, TypeOK
<1>2. call' \in [Admins -> CallType]
  BY NoCallPrepared DEF EndCall, TypeOK
<1> QED BY <1>1, <1>2, NoCallPrepared DEF Continues

\* The call ends or turns to the scenario of the stub it has put.
LEMMA Registers ==
  ASSUME TypeOK, NEW a \in Admins, NEW new \in Entries, Prepared(call[a]),
         call[a].op \in {"add", "edit", "reset"}, new.id = call[a].id,
         ThenRegister(a, new)
  PROVE  /\ Continues(a)
         /\ call'[a].at \notin {"unlink", "relink"}
         /\ \/ new.scen = None /\ Concerns(call'[a]) = {}
            \/ /\ new.scen \in Scenarios
               /\ call'[a].at = "readNew" /\ call'[a].new = new
               /\ call'[a].op = call[a].op /\ call'[a].id = call[a].id
<1>1. CASE new.scen = None
  <2>1. EndCall(a)
    BY <1>1 DEF ThenRegister
  <2> QED BY <1>1, <2>1, Ended
<1>2. CASE new.scen # None
  <2>1. new.scen \in Scenarios /\ call[a] \in CallType
    BY <1>2 DEF Entries, TypeOK
  <2>2. /\ call' \in [Admins -> CallType]
        /\ \A b \in Admins \ {a} : call'[b] = call[b]
        /\ call'[a].at = "readNew" /\ call'[a].new = new
        /\ call'[a].op = call[a].op /\ call'[a].id = call[a].id
    <3>1. call' = [call EXCEPT ![a] = [call[a] EXCEPT !.at = "readNew", !.new = new]]
      BY <1>2 DEF ThenRegister, TypeOK, CallType
    <3>2. [call[a] EXCEPT !.at = "readNew", !.new = new] \in CallType
      BY <2>1 DEF CallType
    <3> QED BY <2>1, <3>1, <3>2 DEF TypeOK, CallType
  <2>3. call[a].id \in Ids
    BY DEF Prepared
  <2>4. Prepared(call'[a])
    BY <2>1, <2>2, <2>3 DEF Prepared
  <2> QED BY <2>1, <2>2, <2>4 DEF Continues
<1> QED BY <1>1, <1>2

LEMMA UpdatesScenarios ==
  ASSUME TypeOK, NEW a \in Admins, Prepared(call[a]), call[a].at \in {"unlink", "relink"},
         ThenUpdateScenarios(a)
  PROVE  /\ Continues(a)
         /\ call'[a].at \notin {"unlink", "relink"}
         /\ \/ /\ call[a].new.scen = None /\ call[a].old.scen = None
               /\ Concerns(call'[a]) = {}
            \/ /\ call[a].old.scen \in {None, call[a].new.scen}
               /\ call'[a].at = "readNew" /\ call'[a].new = call[a].new
               /\ call'[a].op = "edit" /\ call'[a].id = call[a].id
            \/ /\ call'[a].at = "readOld" /\ call'[a].old = call[a].old
               /\ call'[a].new = call[a].new
               /\ call'[a].op = "edit" /\ call'[a].id = call[a].id
<1> DEFINE c == call[a]
<1>1. /\ c \in CallType /\ c.op = "edit" /\ c.id \in Ids
      /\ c.old \in Entries /\ c.new \in Entries /\ c.old.id = c.id /\ c.new.id = c.id
      /\ c.old.scen \in Scenarios \cup {None} /\ c.new.scen \in Scenarios \cup {None}
  BY DEF TypeOK, CallType, Prepared, Entries
<1>2. CASE c.old.scen # None /\ c.old.scen # c.new.scen
  <2>1. Goto(a, "readOld")
    BY <1>2 DEF ThenUpdateScenarios
  <2>2. Prepared(call'[a])
    BY <1>1, <1>2, <2>1, Relabelled DEF Prepared
  <2> QED BY <1>1, <2>1, <2>2, Relabelled DEF Continues
<1>3. CASE c.old.scen \in {None, c.new.scen}
  <2>1. ThenRegister(a, c.new)
    BY <1>3 DEF ThenUpdateScenarios
  <2> QED BY <1>1, <1>3, <2>1, Registers
<1> QED BY <1>2, <1>3

LEMMA IndexedLess ==
  ASSUME IInv, NEW a \in Admins, Continues(a), store' \subseteq store, count' = count,
         Edited(a)' => Edited(a) /\ call'[a].old = call[a].old /\ call'[a].id = call[a].id
  PROVE  Indexed'
<1>1. \A b \in Admins : Edited(b)' => /\ Edited(b) /\ call'[b].old = call[b].old
                                     /\ call'[b].id = call[b].id
  BY DEF Continues, Edited
<1> QED BY <1>1 DEF Indexed, IInv

\* What there is to show of a step that leaves the store alone.
LEMMA QuietStep ==
  ASSUME IInv, NEW a \in Admins, Continues(a), UNCHANGED <<store, count, request>>,
         Edited(a)' => Edited(a) /\ call'[a].old = call[a].old /\ call'[a].id = call[a].id,
         registered' \in [Scenarios -> SUBSET Ids],
         suspect \subseteq suspect', suspect' \subseteq Ids,
         raced \subseteq raced', raced' \subseteq Scenarios,
         \A s \in Scenarios \ raced', id \in Ids :
           (id \in registered[s] <=> id \in registered'[s]) \/ id \in Concerns(call[a]),
         \A id \in Concerns(call[a]) \ suspect' :
           /\ id \in Concerns(call'[a]) => Stage(call[a], id)'
           /\ id \notin Concerns(call'[a]) => Agree(id)'
  PROVE  IInv'
<1>1. request' \in [Threads -> RequestType] /\ Serving' /\ FirstMatchWins'
  BY ServingStep
<1>2. TypeOK'
  BY <1>1 DEF IInv, TypeOK, Continues
<1>3. Indexed'
  BY IndexedLess
<1>4. \A id \in Concerns(call[a]) \ suspect' : OneStub(id)'
  BY DEF IInv, Orderly, Sound, OneStub, Concerns
<1>5. Orderly'
  BY <1>4, OrderlyStep
<1> QED BY <1>1, <1>2, <1>3, <1>5, ContinuesReady DEF IInv

-----------------------------------------------------------------------------
(* The inductive invariant, action by action.                              *)

LEMMA RemoveIfIInv ==
  ASSUME IInv, NEW a \in Admins, RemoveIf(a)
  PROVE  IInv'
<1>0. PICK c : c = call[a]
  OBVIOUS
<1>1. /\ TypeOK /\ Ready /\ Prepared(c) /\ c \in CallType
      /\ c.at = "remove" /\ c.op = "remove" /\ c.id \in Ids
      /\ c.old \in Entries /\ c.old.id = c.id /\ c.old.scen \in Scenarios \cup {None}
  BY <1>0 DEF IInv, Ready, RemoveIf, At, TypeOK, CallType, Prepared, Entries
<1>2. Concerns(c) = {c.id}
  BY <1>0, <1>1, Concerned
<1>3. /\ store' = {e \in store : e.id # c.id} /\ StoreIs(store')
      /\ UNCHANGED <<count, registered, suspect, raced>>
  BY <1>0 DEF RemoveIf, StoreIs
<1>4. /\ Continues(a)
      /\ call'[a].at \notin {"unlink", "relink"}
      /\ \/ c.old.scen = None /\ Concerns(call'[a]) = {}
         \/ /\ call'[a].at = "readOld" /\ call'[a].old = c.old
            /\ call'[a].op = "remove" /\ call'[a].id = c.id
  <2>1. CASE c.old.scen = None
    <3>1. EndCall(a)
      BY <1>0, <2>1 DEF RemoveIf
    <3> QED BY <1>0, <1>1, <2>1, <3>1, Ended
  <2>2. CASE c.old.scen # None
    <3>1. Goto(a, "readOld")
      BY <1>0, <2>2 DEF RemoveIf
    <3>2. Prepared(call'[a])
      BY <1>0, <1>1, <2>2, <3>1, Relabelled DEF Prepared
    <3> QED BY <1>0, <1>1, <2>2, <3>1, <3>2, Relabelled DEF Continues
  <2> QED BY <2>1, <2>2
<1>5. request' \in [Threads -> RequestType] /\ Serving' /\ FirstMatchWins'
  BY <1>0, <1>2, <1>3, <1>4, ServingStep
<1>6. TypeOK'
  BY <1>1, <1>3, <1>4, <1>5 DEF TypeOK, Continues
<1>7. Indexed'
  BY <1>3, <1>4, IndexedLess DEF Edited
<1>8. Orderly'
  <2>1. ASSUME c.id \notin suspect
        PROVE  /\ OneStub(c.id)'
               /\ c.id \in Concerns(call'[a]) => Stage(call[a], c.id)'
               /\ c.id \notin Concerns(call'[a]) => Agree(c.id)'
    <3>1. RegisteredAt(c.id, c.old.scen)
      BY <1>0, <1>1, <1>2, <2>1 DEF IInv, Orderly, Sound, Works, Stage
    <3>2. Gone(c.id)' /\ OneStub(c.id)'
      BY <1>3 DEF Gone, OneStub
    <3>3. Concerns(call'[a]) # {} => call'[a].at = "readOld" /\ call'[a].old = c.old /\ call'[a].op = "remove"
      BY <1>4
    <3>4. c.id \in Concerns(call'[a]) => Stage(call[a], c.id)'
      BY <1>3, <3>1, <3>2, <3>3 DEF Stage, RegisteredAt
    <3>5. c.id \notin Concerns(call'[a]) => Agree(c.id)'
      <4>1. c.id \notin Concerns(call'[a]) => c.old.scen = None
        BY <1>1, <1>4 DEF Concerns
      <4> QED BY <1>3, <3>1, <3>2, <4>1, AdminAssumption DEF RegisteredAt, Agree, Gone
    <3> QED BY <3>2, <3>4, <3>5
  <2> QED BY <1>0, <1>2, <1>3, <1>4, <2>1, OrderlyStep
<1> QED BY <1>1, <1>4, <1>5, <1>6, <1>7, <1>8, ContinuesReady DEF IInv
LEMMA StoreAddIInv ==
  ASSUME IInv, NEW a \in Admins, StoreAdd(a)
  PROVE  IInv'
<1>0. PICK c : c = call[a]
  OBVIOUS
<1>1. /\ TypeOK /\ Ready /\ Indexed /\ Prepared(c) /\ c \in CallType
      /\ c.at = "insert" /\ c.op \in {"add", "reset"} /\ c.id \in Ids
      /\ c.new \in Stubs /\ c.new.id = c.id
  BY <1>0 DEF IInv, Ready, StoreAdd, At, TypeOK, CallType, Prepared
<1>2. PICK e : e = [id |-> c.new.id, prio |-> c.new.prio, scen |-> c.new.scen, idx |-> count]
  OBVIOUS
<1>3. /\ e \in Entries /\ e.id = c.id /\ e.idx = count /\ e.scen \in Scenarios \cup {None}
  BY <1>1, <1>2, AdminAssumption DEF Entries, TypeOK
<1>4. /\ store' = store \cup {e} /\ StoreIs(store') /\ count' = count + 1
      /\ ThenRegister(a, e)
      /\ UNCHANGED <<registered, suspect, raced>>
  BY <1>0, <1>2 DEF StoreAdd, StoreIs
<1>5. /\ Continues(a)
      /\ call'[a].at \notin {"unlink", "relink"}
      /\ \/ e.scen = None /\ Concerns(call'[a]) = {}
         \/ /\ e.scen \in Scenarios
            /\ call'[a].at = "readNew" /\ call'[a].new = e
            /\ call'[a].op = c.op /\ call'[a].id = c.id
  BY <1>0, <1>1, <1>3, <1>4, Registers
<1>6. c.id \in Concerns(c)
  BY <1>0, <1>1, Concerned
<1>7. request' \in [Threads -> RequestType] /\ Serving' /\ FirstMatchWins'
  BY <1>4, <1>5, ServingStep
<1>8. \A f \in store : f.idx \in Nat /\ f.idx < count
  BY <1>1 DEF Indexed, TypeOK, Entries
<1>9. TypeOK'
  <2>1. store' \subseteq Entries /\ count' \in Nat
    BY <1>1, <1>3, <1>4 DEF TypeOK
  <2>2. \A f, g \in store' : (f.prio = g.prio /\ f.idx = g.idx) => f = g
    BY <1>1, <1>3, <1>4, <1>8 DEF TypeOK
  <2> QED BY <1>1, <1>4, <1>5, <1>7, <2>1, <2>2 DEF TypeOK, Continues
<1>10. Indexed'
  <2>1. \A b \in Admins : Edited(b)' => b # a /\ Edited(b) /\ call'[b] = call[b]
    BY <1>5 DEF Edited, Continues
  <2>2. \A b \in Admins : Edited(b) => call[b].old.idx \in Nat
    BY <1>1 DEF Ready, Prepared, Edited, Entries
  <2>3. count \in Nat
    BY <1>1 DEF TypeOK
  <2>4. \A f \in store' : f.idx < count'
    BY <1>3, <1>4, <1>8, <2>3
  <2>5. \A f, g \in store' : f.idx = g.idx => f.id = g.id
    BY <1>1, <1>3, <1>4, <1>8, <2>3 DEF Indexed
  <2>6. ASSUME NEW b \in Admins, Edited(b)'
        PROVE  /\ call'[b].old.idx < count'
               /\ \A f \in store' : f.idx = call'[b].old.idx => f.id = call'[b].id
    BY <1>1, <1>3, <1>4, <2>1, <2>2, <2>3, <2>6 DEF Indexed
  <2>7. \A b, d \in Admins :
          (Edited(b)' /\ Edited(d)' /\ call'[b].old.idx = call'[d].old.idx) =>
            call'[b].id = call'[d].id
    BY <1>1, <2>1 DEF Indexed
  <2> QED BY <2>4, <2>5, <2>6, <2>7 DEF Indexed
<1>11. Orderly'
  <2>1. ASSUME NEW id \in Concerns(call[a]) \ suspect'
        PROVE  /\ OneStub(id)'
               /\ id \in Concerns(call'[a]) => Stage(call[a], id)'
               /\ id \notin Concerns(call'[a]) => Agree(id)'
    <3>1. Gone(id) /\ RegisteredAt(id, None)
      BY <1>0, <1>1, <1>4, <2>1 DEF IInv, Orderly, Sound, Works, Stage, Concerns
    <3>2. \A f \in store' : f.id = id => f = e
      BY <1>4, <3>1 DEF Gone
    <3>3. \A s \in Scenarios \ raced : id \notin registered[s]
      BY <3>1, AdminAssumption DEF RegisteredAt
    <3>4. OneStub(id)'
      BY <3>2 DEF OneStub
    <3>5. id \in Concerns(call'[a]) => Stage(call[a], id)'
      <4>1. id # c.id => Gone(id)'
        BY <1>3, <3>2 DEF Gone
      <4> QED BY <1>4, <1>5, <3>3, <4>1 DEF Stage
    <3>6. id \notin Concerns(call'[a]) => Agree(id)'
      <4> SUFFICES ASSUME id \notin Concerns(call'[a]) PROVE Agree(id)'
        OBVIOUS
      <4>1. e.scen = None \/ e.id # id
        BY <1>1, <1>3, <1>5 DEF Concerns
      <4> QED BY <1>4, <3>2, <3>3, <4>1, AdminAssumption DEF Agree
    <3> QED BY <3>4, <3>5, <3>6
  <2> QED BY <1>0, <1>3, <1>4, <1>5, <1>6, <2>1, OrderlyStep
<1> QED BY <1>5, <1>7, <1>9, <1>10, <1>11, ContinuesReady DEF IInv

LEMMA ReplaceRemoveIInv ==
  ASSUME IInv, NEW a \in Admins, ReplaceRemove(a)
  PROVE  IInv'
<1>0. PICK c : c = call[a]
  OBVIOUS
<1>1. /\ TypeOK /\ Ready /\ Indexed /\ Prepared(c) /\ c \in CallType
      /\ c.at = "unlink" /\ c.op = "edit" /\ c.id \in Ids
      /\ c.old \in Entries /\ c.old.id = c.id /\ c.new \in Entries /\ c.new.id = c.id
      /\ c.new.idx = c.old.idx
  BY <1>0 DEF IInv, Ready, ReplaceRemove, At, TypeOK, CallType, Prepared
<1>2. Concerns(c) = {c.id}
  BY <1>0, <1>1, Concerned
<1>3. c.id \notin suspect => c.old \in store /\ RegisteredAt(c.id, c.old.scen) /\ OneStub(c.id)
  BY <1>0, <1>1, <1>2 DEF IInv, Orderly, Sound, Works, Stage
<1>4. CASE \E e \in store : SameKey(e, c.old)
  <2>1. /\ store' = {e \in store : ~SameKey(e, c.old)} /\ StoreIs(store')
        /\ Goto(a, "relink") /\ UNCHANGED <<count, registered, suspect, raced>>
    BY <1>0, <1>4 DEF ReplaceRemove, StoreIs
  <2>2. /\ call' \in [Admins -> CallType]
        /\ \A b \in Admins \ {a} : call'[b] = call[b]
        /\ call'[a].at = "relink" /\ call'[a].op = c.op /\ call'[a].id = c.id
        /\ call'[a].old = c.old /\ call'[a].new = c.new
    BY <1>0, <1>1, <2>1, Relabelled
  <2>3. Prepared(call'[a])
    BY <1>1, <2>2 DEF Prepared
  <2>4. Continues(a)
    BY <1>0, <2>2, <2>3 DEF Continues
  <2>5. \A e \in store \ store' : e.id = c.id
    BY <1>0, <1>1, <2>1 DEF Indexed, Edited, SameKey
  <2>6. request' \in [Threads -> RequestType] /\ Serving' /\ FirstMatchWins'
    BY <1>0, <1>2, <2>1, <2>4, <2>5, ServingStep
  <2>7. TypeOK'
    BY <1>1, <2>1, <2>4, <2>6 DEF TypeOK, Continues
  <2>8. Edited(a)' => Edited(a) /\ call'[a].old = call[a].old /\ call'[a].id = call[a].id
    BY <1>0, <1>1, <2>2 DEF Edited
  <2>9. Indexed'
    BY <2>1, <2>4, <2>8, IndexedLess
  <2>10. ASSUME c.id \notin suspect
         PROVE  OneStub(c.id)' /\ Stage(call[a], c.id)' /\ c.id \in Concerns(call'[a])
    <3>1. \A e \in store : e.id = c.id => e = c.old
      BY <1>1, <1>3, <2>10 DEF OneStub
    <3>2. Gone(c.id)' /\ OneStub(c.id)'
      BY <2>1, <3>1 DEF Gone, OneStub, SameKey
    <3>3. RegisteredAt(c.id, c.old.scen)'
      BY <1>3, <2>1, <2>10 DEF RegisteredAt
    <3> QED BY <1>1, <2>2, <3>2, <3>3 DEF Stage, Concerns
  <2>11. Orderly'
    BY <1>0, <1>2, <2>1, <2>4, <2>5, <2>10, OrderlyStep
  <2> QED BY <2>4, <2>6, <2>7, <2>9, <2>11, <1>1, ContinuesReady DEF IInv
<1>5. CASE ~\E e \in store : SameKey(e, c.old)
  <2>1. ThenUpdateScenarios(a) /\ UNCHANGED <<store, request, count, registered, suspect, raced>>
    BY <1>0, <1>5 DEF ReplaceRemove
  <2>2. Continues(a) /\ call'[a].at \notin {"unlink", "relink"}
    BY <1>0, <1>1, <2>1, UpdatesScenarios
  <2>3. c.id \in suspect
    BY <1>3, <1>5 DEF SameKey
  <2> QED BY <1>0, <1>1, <1>2, <2>1, <2>2, <2>3, QuietStep DEF Edited, TypeOK
<1> QED BY <1>4, <1>5

LEMMA ReplaceAddIInv ==
  ASSUME IInv, NEW a \in Admins, ReplaceAdd(a)
  PROVE  IInv'
<1>0. PICK c : c = call[a]
  OBVIOUS
<1>1. /\ TypeOK /\ Ready /\ Indexed /\ Prepared(c) /\ c \in CallType
      /\ c.at = "relink" /\ c.op = "edit" /\ c.id \in Ids
      /\ c.old \in Entries /\ c.old.id = c.id /\ c.new \in Entries /\ c.new.id = c.id
      /\ c.new.idx = c.old.idx
      /\ c.old.scen \in Scenarios \cup {None} /\ c.new.scen \in Scenarios \cup {None}
  BY <1>0 DEF IInv, Ready, ReplaceAdd, At, TypeOK, CallType, Prepared, Entries
<1>2. Concerns(c) = {c.id} /\ Edited(a)
  BY <1>0, <1>1, Concerned DEF Edited
<1>3. /\ store' = IF \E e \in store : SameKey(e, c.new) THEN store ELSE store \cup {c.new}
      /\ StoreIs(store') /\ ThenUpdateScenarios(a)
      /\ UNCHANGED <<count, registered, suspect, raced>>
  BY <1>0 DEF ReplaceAdd, StoreIs
<1>4. /\ Continues(a)
      /\ call'[a].at \notin {"unlink", "relink"}
      /\ \/ /\ c.new.scen = None /\ c.old.scen = None
            /\ Concerns(call'[a]) = {}
         \/ /\ c.old.scen \in {None, c.new.scen}
            /\ call'[a].at = "readNew" /\ call'[a].new = c.new
            /\ call'[a].op = "edit" /\ call'[a].id = c.id
         \/ /\ call'[a].at = "readOld" /\ call'[a].old = c.old
            /\ call'[a].new = c.new
            /\ call'[a].op = "edit" /\ call'[a].id = c.id
  BY <1>0, <1>1, <1>3, UpdatesScenarios
<1>5. \A e \in store \cup store' : (e \in store <=> e \in store') \/ e.id = c.id
  BY <1>1, <1>3
<1>6. request' \in [Threads -> RequestType] /\ Serving' /\ FirstMatchWins'
  BY <1>0, <1>2, <1>3, <1>4, <1>5, ServingStep
<1>7. TypeOK'
  <2>1. store' \subseteq Entries
    BY <1>1, <1>3 DEF TypeOK
  <2>2. \A e, f \in store' : (e.prio = f.prio /\ e.idx = f.idx) => e = f
    BY <1>1, <1>3 DEF TypeOK, SameKey
  <2> QED BY <1>1, <1>3, <1>4, <1>6, <2>1, <2>2 DEF TypeOK, Continues
<1>8. Indexed'
  <2>1. \A b \in Admins : Edited(b)' => b # a /\ Edited(b) /\ call'[b] = call[b]
    BY <1>4 DEF Edited, Continues
  <2>2. c.new.idx < count /\ \A e \in store : e.idx = c.new.idx => e.id = c.new.id
    BY <1>0, <1>1, <1>2 DEF Indexed
  <2>3. \A e \in store' : e.idx < count'
    BY <1>1, <1>3, <2>2 DEF Indexed
  <2>4. \A e, f \in store' : e.idx = f.idx => e.id = f.id
    BY <1>1, <1>3, <2>2 DEF Indexed
  <2>5. ASSUME NEW b \in Admins, Edited(b)'
        PROVE  /\ call'[b].old.idx < count'
               /\ \A e \in store' : e.idx = call'[b].old.idx => e.id = call'[b].id
    <3>1. c.new.idx = call[b].old.idx => c.new.id = call[b].id
      <4>1. \A d \in Admins :
              (Edited(a) /\ Edited(d) /\ call[a].old.idx = call[d].old.idx) =>
                call[a].id = call[d].id
        BY <1>1 DEF Indexed
      <4>2. /\ Edited(a) /\ Edited(b) /\ c.new.idx = call[a].old.idx
            /\ c.new.id = call[a].id
        BY <1>0, <1>1, <1>2, <2>1, <2>5
      <4> QED BY <4>1, <4>2
    <3> QED BY <1>1, <1>3, <2>1, <2>5, <3>1 DEF Indexed
  <2>6. \A b, d \in Admins :
          (Edited(b)' /\ Edited(d)' /\ call'[b].old.idx = call'[d].old.idx) =>
            call'[b].id = call'[d].id
    BY <1>1, <2>1 DEF Indexed
  <2> QED BY <2>3, <2>4, <2>5, <2>6 DEF Indexed
<1>9. ASSUME c.id \notin suspect
      PROVE  /\ OneStub(c.id)'
             /\ c.id \in Concerns(call'[a]) => Stage(call[a], c.id)'
             /\ c.id \notin Concerns(call'[a]) => Agree(c.id)'
  <2>1. Gone(c.id) /\ RegisteredAt(c.id, c.old.scen)
    BY <1>0, <1>1, <1>2, <1>9 DEF IInv, Orderly, Sound, Works, Stage
  <2>2. \A e \in store : ~SameKey(e, c.new)
    BY <1>0, <1>1, <1>2, <2>1 DEF Indexed, Gone, SameKey
  <2>3. store' = store \cup {c.new} /\ \A e \in store' : e.id = c.id => e = c.new
    BY <1>3, <2>1, <2>2 DEF Gone
  <2>4. OneStub(c.id)'
    BY <2>3 DEF OneStub
  <2>5. \A s \in Scenarios \ raced' : c.id \in registered'[s] <=> s = c.old.scen
    BY <1>3, <2>1 DEF RegisteredAt
  <2>6. CASE c.new.scen = None /\ c.old.scen = None /\ Concerns(call'[a]) = {}
    BY <2>3, <2>4, <2>5, <2>6, AdminAssumption DEF Agree
  <2>7. CASE /\ c.old.scen \in {None, c.new.scen}
             /\ call'[a].at = "readNew" /\ call'[a].new = c.new
             /\ call'[a].op = "edit" /\ call'[a].id = c.id
    <3>1. c.id \in Concerns(call'[a])
      BY <1>1, <2>7 DEF Concerns
    <3>2. \A s \in Scenarios \ raced' : c.id \in registered'[s] => s = c.new.scen
      BY <2>5, <2>7, AdminAssumption
    <3>3. Stage(call[a], c.id)'
      BY <2>3, <2>7, <3>2 DEF Stage
    <3> QED BY <2>4, <3>1, <3>3
  <2>8. CASE /\ call'[a].at = "readOld" /\ call'[a].old = c.old
             /\ call'[a].new = c.new
             /\ call'[a].op = "edit" /\ call'[a].id = c.id
    <3>1. c.id \in Concerns(call'[a])
      BY <1>1, <2>8 DEF Concerns
    <3>2. Stage(call[a], c.id)'
      BY <2>3, <2>5, <2>8 DEF Stage, RegisteredAt
    <3> QED BY <2>4, <3>1, <3>2
  <2> QED BY <1>4, <2>6, <2>7, <2>8
<1>10. Orderly'
  BY <1>0, <1>2, <1>3, <1>4, <1>5, <1>9, OrderlyStep
<1> QED BY <1>1, <1>4, <1>6, <1>7, <1>8, <1>10, ContinuesReady DEF IInv

LEMMA ScenarioIsMissingIInv ==
  ASSUME IInv, NEW a \in Admins, ScenarioIsMissing(a)
  PROVE  IInv'
<1>0. PICK c : c = call[a]
  OBVIOUS
<1>1. /\ TypeOK /\ Ready /\ Prepared(c) /\ c.at = "readOld" /\ c.op \in {"edit", "remove"}
      /\ c.id \in Ids
  BY <1>0 DEF IInv, Ready, ScenarioIsMissing, At, Prepared, TypeOK, CallType
<1>2. Concerns(c) = {c.id}
  BY <1>0, <1>1, Concerned
<1>3. EndCall(a) /\ suspect' = suspect \cup {c.id}
      /\ UNCHANGED <<store, count, registered, request, raced>>
  BY <1>0 DEF ScenarioIsMissing
<1>4. Continues(a) /\ call'[a].at = ""
  BY <1>1, <1>3, Ended
<1> QED BY <1>0, <1>1, <1>2, <1>3, <1>4, QuietStep DEF Edited, TypeOK

\* A call goes on with what it has read.
LEMMA Reads ==
  ASSUME TypeOK, NEW a \in Admins, NEW label \in {"scenarios", "putOld", "putNew"},
         NEW X \in SUBSET (Ids \cup Scenarios),
         call' = [call EXCEPT ![a].at = label, ![a].read = X]
  PROVE  /\ call' \in [Admins -> CallType]
         /\ \A b \in Admins \ {a} : call'[b] = call[b]
         /\ call'[a].at = label /\ call'[a].op = call[a].op /\ call'[a].id = call[a].id
         /\ call'[a].old = call[a].old /\ call'[a].new = call[a].new
         /\ call'[a].read = X
<1>1. call[a] \in CallType
  BY DEF TypeOK
<1>2. PICK r : r = [call[a] EXCEPT !.at = label, !.read = X]
  OBVIOUS
<1>3. call' = [call EXCEPT ![a] = r]
  BY <1>1, <1>2 DEF TypeOK, CallType
<1>4. /\ r \in CallType /\ r.at = label /\ r.read = X
      /\ r.op = call[a].op /\ r.id = call[a].id
      /\ r.old = call[a].old /\ r.new = call[a].new
  BY <1>1, <1>2 DEF CallType
<1> QED BY <1>1, <1>3, <1>4 DEF TypeOK

LEMMA ReadOldIInv ==
  ASSUME IInv, NEW a \in Admins, ReadOld(a)
  PROVE  IInv'
<1>0. PICK c : c = call[a]
  OBVIOUS
<1>1. /\ TypeOK /\ Ready /\ Prepared(c) /\ c.at = "readOld" /\ c.op \in {"edit", "remove"}
      /\ c.id \in Ids /\ c.old.scen \in Scenarios
  BY <1>0 DEF IInv, Ready, ReadOld, At, Prepared, TypeOK, CallType
<1>2. Concerns(c) = {c.id}
  BY <1>0, <1>1, Concerned
<1>3. /\ call' = [call EXCEPT ![a].at = "putOld", ![a].read = registered[c.old.scen]]
      /\ UNCHANGED <<store, count, registered, request, suspect, raced>>
  BY <1>0 DEF ReadOld
<1>4. /\ call' \in [Admins -> CallType]
      /\ \A b \in Admins \ {a} : call'[b] = call[b]
      /\ call'[a].at = "putOld" /\ call'[a].op = c.op /\ call'[a].id = c.id
      /\ call'[a].old = c.old /\ call'[a].new = c.new
      /\ call'[a].read \subseteq Ids
  <2>1. PICK X : X = registered[c.old.scen]
    OBVIOUS
  <2>2. X \in SUBSET (Ids \cup Scenarios) /\ X \subseteq Ids
    BY <1>1, <2>1 DEF TypeOK
  <2>3. call' = [call EXCEPT ![a].at = "putOld", ![a].read = X]
    BY <1>3, <2>1
  <2>4. /\ call' \in [Admins -> CallType]
        /\ \A b \in Admins \ {a} : call'[b] = call[b]
        /\ call'[a].at = "putOld" /\ call'[a].op = call[a].op /\ call'[a].id = call[a].id
        /\ call'[a].old = call[a].old /\ call'[a].new = call[a].new
        /\ call'[a].read = X
    BY <1>1, <2>2, <2>3, Reads
  <2> QED BY <1>0, <2>2, <2>4
<1>5. Continues(a)
  BY <1>0, <1>1, <1>4 DEF Continues, Prepared
<1>6. ASSUME c.id \notin suspect
      PROVE  c.id \in Concerns(call'[a]) /\ Stage(call[a], c.id)'
  <2>1. /\ RegisteredAt(c.id, c.old.scen)
        /\ IF c.op = "edit" THEN c.new \in store ELSE Gone(c.id)
    BY <1>0, <1>1, <1>2, <1>6 DEF IInv, Orderly, Sound, Works, Stage
  <2>2. RegisteredAt(c.id, c.old.scen)' /\ (Gone(c.id) => Gone(c.id)')
    BY <1>3, <2>1 DEF RegisteredAt, Gone
  <2> QED BY <1>1, <1>3, <1>4, <2>1, <2>2 DEF Stage, Concerns
<1> QED BY <1>0, <1>1, <1>2, <1>3, <1>4, <1>5, <1>6, QuietStep DEF Edited, TypeOK

LEMMA ReadNewIInv ==
  ASSUME IInv, NEW a \in Admins, ReadNew(a)
  PROVE  IInv'
<1>0. PICK c : c = call[a]
  OBVIOUS
<1>1. /\ TypeOK /\ Ready /\ Prepared(c) /\ c.at = "readNew" /\ c.op \in {"add", "edit", "reset"}
      /\ c.id \in Ids /\ c.new \in Entries /\ c.new.scen \in Scenarios
  BY <1>0 DEF IInv, Ready, ReadNew, At, Prepared, TypeOK, CallType
<1>2. /\ call' = [call EXCEPT ![a].at = "putNew", ![a].read = registered[c.new.scen]]
      /\ UNCHANGED <<store, count, registered, request, suspect, raced>>
  BY <1>0 DEF ReadNew
<1>3. /\ call' \in [Admins -> CallType]
      /\ \A b \in Admins \ {a} : call'[b] = call[b]
      /\ call'[a].at = "putNew" /\ call'[a].op = c.op /\ call'[a].id = c.id
      /\ call'[a].old = c.old /\ call'[a].new = c.new
      /\ call'[a].read \subseteq Ids
  <2>1. PICK X : X = registered[c.new.scen]
    OBVIOUS
  <2>2. X \in SUBSET (Ids \cup Scenarios) /\ X \subseteq Ids
    BY <1>1, <2>1 DEF TypeOK
  <2>3. call' = [call EXCEPT ![a].at = "putNew", ![a].read = X]
    BY <1>2, <2>1
  <2>4. /\ call' \in [Admins -> CallType]
        /\ \A b \in Admins \ {a} : call'[b] = call[b]
        /\ call'[a].at = "putNew" /\ call'[a].op = call[a].op /\ call'[a].id = call[a].id
        /\ call'[a].old = call[a].old /\ call'[a].new = call[a].new
        /\ call'[a].read = X
    BY <1>1, <2>2, <2>3, Reads
  <2> QED BY <1>0, <2>2, <2>4
<1>4. Continues(a)
  BY <1>0, <1>1, <1>3 DEF Continues, Prepared
<1>5. Concerns(call'[a]) = Concerns(c)
  BY <1>3 DEF Concerns
<1>6. ASSUME NEW id \in Concerns(c) \ suspect
      PROVE  Stage(call[a], id)'
  <2>1. /\ \A s \in Scenarios \ raced : id \in registered[s] => id = c.id /\ s = c.new.scen
        /\ IF id = c.id THEN c.new \in store ELSE Gone(id)
    BY <1>0, <1>1, <1>6 DEF IInv, Orderly, Sound, Works, Stage, Concerns
  <2>2. Gone(id) => Gone(id)'
    BY <1>2 DEF Gone
  <2> QED BY <1>2, <1>3, <2>1, <2>2 DEF Stage
<1> QED BY <1>0, <1>1, <1>2, <1>3, <1>4, <1>5, <1>6, QuietStep DEF Edited, TypeOK

\* A put that does not overwrite a change changes what it says it does.
LEMMA Puts ==
  ASSUME TypeOK, NEW sc \in Scenarios, NEW read, NEW new \in SUBSET Ids,
         PutScenario(sc, read, new)
  PROVE  /\ registered' \in [Scenarios -> SUBSET Ids]
         /\ raced \subseteq raced' /\ raced' \subseteq Scenarios
         /\ \A s \in Scenarios : registered'[s] = IF s = sc THEN new ELSE registered[s]
         /\ sc \notin raced' => registered[sc] = read
BY DEF PutScenario, TypeOK

LEMMA PutOldIInv ==
  ASSUME IInv, NEW a \in Admins, PutOld(a)
  PROVE  IInv'
<1>0. PICK c : c = call[a]
  OBVIOUS
<1>1. /\ TypeOK /\ Ready /\ Prepared(c) /\ c.at = "putOld" /\ c.op \in {"edit", "remove"}
      /\ c.id \in Ids /\ c.old \in Entries /\ c.old.scen \in Scenarios /\ c.read \subseteq Ids
      /\ c.op = "edit" => /\ c.new \in Entries /\ c.new.id = c.id
                          /\ c.new.scen # c.old.scen
                          /\ c.new.scen \in Scenarios \cup {None}
  BY <1>0 DEF IInv, Ready, PutOld, At, Prepared, TypeOK, CallType, Entries
<1>2. Concerns(c) = {c.id}
  BY <1>0, <1>1, Concerned
<1>3. /\ PutScenario(c.old.scen, c.read, c.read \ {c.id})
      /\ IF c.op = "remove" THEN EndCall(a) ELSE ThenRegister(a, c.new)
      /\ UNCHANGED <<store, count, request, suspect>>
  BY <1>0 DEF PutOld
<1>4. /\ registered' \in [Scenarios -> SUBSET Ids]
      /\ raced \subseteq raced' /\ raced' \subseteq Scenarios
      /\ \A s \in Scenarios :
           registered'[s] = IF s = c.old.scen THEN c.read \ {c.id} ELSE registered[s]
      /\ c.old.scen \notin raced' => registered[c.old.scen] = c.read
  BY <1>1, <1>3, Puts
<1>5. /\ Continues(a)
      /\ call'[a].at \notin {"unlink", "relink"}
      /\ \/ (c.op = "edit" => c.new.scen = None) /\ Concerns(call'[a]) = {}
         \/ /\ c.op = "edit" /\ c.new.scen \in Scenarios
            /\ call'[a].at = "readNew" /\ call'[a].new = c.new
            /\ call'[a].op = c.op /\ call'[a].id = c.id
  <2>1. CASE c.op = "remove"
    BY <1>1, <1>3, <2>1, Ended
  <2>2. CASE c.op = "edit"
    BY <1>0, <1>1, <1>3, <2>2, Registers
  <2> QED BY <1>1, <2>1, <2>2
<1>6. ASSUME c.id \notin suspect
      PROVE  /\ c.id \in Concerns(call'[a]) => Stage(call[a], c.id)'
             /\ c.id \notin Concerns(call'[a]) => Agree(c.id)'
  <2>1. /\ RegisteredAt(c.id, c.old.scen) /\ OneStub(c.id)
        /\ IF c.op = "edit" THEN c.new \in store ELSE Gone(c.id)
    BY <1>0, <1>1, <1>2, <1>6 DEF IInv, Orderly, Sound, Works, Stage
  <2>2. \A s \in Scenarios \ raced' : c.id \notin registered'[s]
    BY <1>4, <2>1 DEF RegisteredAt
  <2>3. CASE (c.op = "edit" => c.new.scen = None) /\ Concerns(call'[a]) = {}
    <3>1. \A e \in store : e.id = c.id => e.scen = None
      BY <1>1, <2>1, <2>3 DEF Gone, OneStub
    <3> QED BY <1>3, <2>2, <2>3, <3>1, AdminAssumption DEF Agree
  <2>4. CASE /\ c.op = "edit" /\ c.new.scen \in Scenarios
             /\ call'[a].at = "readNew" /\ call'[a].new = c.new
             /\ call'[a].op = c.op /\ call'[a].id = c.id
    BY <1>1, <1>3, <2>1, <2>2, <2>4 DEF Stage, Concerns
  <2> QED BY <1>5, <2>3, <2>4
<1>7. \A s \in Scenarios \ raced', id \in Ids :
        (id \in registered[s] <=> id \in registered'[s]) \/ id \in Concerns(call[a])
  BY <1>0, <1>2, <1>4
<1> QED BY <1>0, <1>1, <1>2, <1>3, <1>4, <1>5, <1>6, <1>7, QuietStep DEF Edited, TypeOK

LEMMA PutNewIInv ==
  ASSUME IInv, NEW a \in Admins, PutNew(a)
  PROVE  IInv'
<1>0. PICK c : c = call[a]
  OBVIOUS
<1>1. /\ TypeOK /\ Ready /\ Prepared(c) /\ c.at = "putNew" /\ c.op \in {"add", "edit", "reset"}
      /\ c.id \in Ids /\ c.new \in Entries /\ c.new.id = c.id
      /\ c.new.scen \in Scenarios /\ c.read \subseteq Ids
  BY <1>0 DEF IInv, Ready, PutNew, At, Prepared, TypeOK, CallType
<1>2. c.id \in Concerns(c)
  BY <1>0, <1>1, Concerned
<1>3. /\ PutScenario(c.new.scen, c.read, c.read \cup {c.id})
      /\ EndCall(a)
      /\ UNCHANGED <<store, count, request, suspect>>
  BY <1>0, <1>1 DEF PutNew
<1>4. /\ registered' \in [Scenarios -> SUBSET Ids]
      /\ raced \subseteq raced' /\ raced' \subseteq Scenarios
      /\ \A s \in Scenarios :
           registered'[s] = IF s = c.new.scen THEN c.read \cup {c.id} ELSE registered[s]
      /\ c.new.scen \notin raced' => registered[c.new.scen] = c.read
  BY <1>1, <1>3, Puts
<1>5. Continues(a) /\ Concerns(call'[a]) = {} /\ call'[a].at = ""
  BY <1>1, <1>3, Ended
<1>6. ASSUME NEW id \in Concerns(c) \ suspect
      PROVE  Agree(id)'
  <2>1. /\ \A s \in Scenarios \ raced : id \in registered[s] => id = c.id /\ s = c.new.scen
        /\ IF id = c.id THEN c.new \in store ELSE Gone(id)
        /\ OneStub(id)
    BY <1>0, <1>1, <1>6 DEF IInv, Orderly, Sound, Works, Stage, Concerns
  <2>2. \A s \in Scenarios \ raced' : id \in registered'[s] <=> id = c.id /\ s = c.new.scen
    BY <1>4, <2>1
  <2>3. \A s : (\E e \in store : e.id = id /\ e.scen = s) <=> (id = c.id /\ s = c.new.scen)
    BY <1>1, <2>1 DEF Gone, OneStub
  <2> QED BY <1>3, <2>2, <2>3 DEF Agree
<1>7. \A s \in Scenarios \ raced', id \in Ids :
        (id \in registered[s] <=> id \in registered'[s]) \/ id \in Concerns(call[a])
  BY <1>0, <1>2, <1>4
<1> QED BY <1>0, <1>1, <1>3, <1>4, <1>5, <1>6, <1>7, QuietStep DEF Edited, TypeOK

\* A call that resets works on every id.
LEMMA Resets ==
  ASSUME IInv, NEW a \in Admins, call[a].at \in {"clear", "scenarios", "load"}
  PROVE  /\ TypeOK /\ Prepared(call[a]) /\ call[a].op = "reset"
         /\ Concerns(call[a]) = Ids
         /\ call[a].new = Default /\ call[a].id = Default.id
         /\ Default \in Stubs /\ Default.id \in Ids
         /\ \A id \in Ids \ suspect : OneStub(id) /\ Stage(call[a], id)
<1>1. /\ TypeOK /\ Ready /\ Prepared(call[a]) /\ call[a] \in CallType
  BY DEF IInv, Ready, TypeOK
<1>2. call[a].op = "reset" /\ call[a].new = Default /\ call[a].id = Default.id
  BY <1>1 DEF Prepared, CallType
<1>3. Concerns(call[a]) = Ids
  BY <1>1, <1>2, Concerned
<1> QED BY <1>1, <1>2, <1>3, AdminAssumption DEF IInv, Orderly, Sound, Works

LEMMA ClearFirstIInv ==
  ASSUME IInv, NEW a \in Admins, ClearFirst(a)
  PROVE  IInv'
<1>1. /\ TypeOK /\ Ready /\ Prepared(call[a]) /\ call[a].at = "clear"
      /\ Concerns(call[a]) = Ids
  BY Resets DEF IInv, ClearFirst, At
<1>2. PICK e \in store : StoreIs(store \ {e})
  BY DEF ClearFirst
<1>3. /\ store' = store \ {e} /\ StoreIs(store')
      /\ UNCHANGED <<count, registered, call, suspect, raced>>
  BY <1>2 DEF ClearFirst, StoreIs
<1>4. Continues(a)
  BY <1>1, <1>3 DEF Continues, TypeOK
<1>5. \A f \in store : f.id \in Ids
  BY <1>1 DEF TypeOK, Entries
<1>6. request' \in [Threads -> RequestType] /\ Serving' /\ FirstMatchWins'
  BY <1>1, <1>3, <1>4, <1>5, ServingStep
<1>7. TypeOK'
  BY <1>1, <1>3, <1>4, <1>6 DEF TypeOK, Continues
<1>8. Indexed'
  BY <1>3, <1>4, IndexedLess DEF Edited
<1>9. ASSUME NEW id \in Ids \ suspect
      PROVE  OneStub(id)' /\ Stage(call[a], id)' /\ Concerns(call'[a]) = Ids
  BY <1>1, <1>3, Resets DEF OneStub, Stage
<1>10. Orderly'
  BY <1>1, <1>3, <1>4, <1>5, <1>9, OrderlyStep
<1> QED BY <1>1, <1>4, <1>6, <1>7, <1>8, <1>10, ContinuesReady DEF IInv

LEMMA StoreClearedIInv ==
  ASSUME IInv, NEW a \in Admins, StoreCleared(a)
  PROVE  IInv'
<1>1. /\ TypeOK /\ Prepared(call[a]) /\ call[a].at = "clear" /\ call[a].op = "reset"
      /\ Concerns(call[a]) = Ids
      /\ call[a].new = Default /\ call[a].id = Default.id /\ Default.id \in Ids
  BY Resets DEF StoreCleared, At
<1>2. /\ store = {}
      /\ call' = [call EXCEPT ![a].at = "scenarios", ![a].read = Scenarios]
      /\ UNCHANGED <<store, count, registered, request, suspect, raced>>
  BY DEF StoreCleared
<1>3. /\ call' \in [Admins -> CallType]
      /\ \A b \in Admins \ {a} : call'[b] = call[b]
      /\ call'[a].at = "scenarios" /\ call'[a].op = "reset" /\ call'[a].id = Default.id
      /\ call'[a].old = call[a].old /\ call'[a].new = Default
      /\ call'[a].read = Scenarios
  BY <1>1, <1>2, Reads
<1>4. Continues(a)
  BY <1>1, <1>3 DEF Continues, Prepared
<1>5. ASSUME NEW id \in Ids
      PROVE  Stage(call[a], id)' /\ id \in Concerns(call'[a])
  BY <1>2, <1>3 DEF Stage, Gone, Concerns
<1> QED BY <1>1, <1>2, <1>3, <1>4, <1>5, QuietStep DEF Edited, TypeOK

LEMMA ClearScenarioIInv ==
  ASSUME IInv, NEW a \in Admins, NEW sc \in Scenarios, ClearScenario(a, sc)
  PROVE  IInv'
<1>1. /\ TypeOK /\ Prepared(call[a]) /\ call[a].at = "scenarios" /\ call[a].op = "reset"
      /\ Concerns(call[a]) = Ids
      /\ call[a].new = Default /\ call[a].id = Default.id /\ Default.id \in Ids
      /\ call[a].read \subseteq Scenarios
  BY Resets DEF ClearScenario, At, Prepared
<1>2. /\ registered' = [registered EXCEPT ![sc] = {}]
      /\ call' = [call EXCEPT ![a].read = @ \ {sc}]
      /\ UNCHANGED <<store, count, request, suspect, raced>>
  BY DEF ClearScenario
<1>3. /\ call' \in [Admins -> CallType]
      /\ \A b \in Admins \ {a} : call'[b] = call[b]
      /\ call'[a].at = "scenarios" /\ call'[a].op = "reset" /\ call'[a].id = Default.id
      /\ call'[a].old = call[a].old /\ call'[a].new = Default
      /\ call'[a].read = call[a].read \ {sc}
  <2>1. PICK X : X = call[a].read \ {sc}
    OBVIOUS
  <2>2. call' = [call EXCEPT ![a].read = X] /\ X \in SUBSET (Ids \cup Scenarios)
    BY <1>1, <1>2, <2>1 DEF TypeOK, CallType
  <2>3. PICK r : r = [call[a] EXCEPT !.read = X]
    OBVIOUS
  <2>4. /\ r \in CallType /\ r.at = "scenarios" /\ r.op = "reset" /\ r.id = Default.id
        /\ r.old = call[a].old /\ r.new = Default /\ r.read = X
    BY <1>1, <2>2, <2>3 DEF TypeOK, CallType
  <2>5. call' = [call EXCEPT ![a] = r]
    BY <1>1, <2>2, <2>3 DEF TypeOK, CallType
  <2> QED BY <1>1, <2>1, <2>4, <2>5 DEF TypeOK
<1>4. Continues(a)
  BY <1>1, <1>3 DEF Continues, Prepared
<1>5. ASSUME NEW id \in Ids \ suspect
      PROVE  Stage(call[a], id)' /\ id \in Concerns(call'[a])
  <2>1. Gone(id) /\ \A s \in Scenarios \ (raced \cup call[a].read) : id \notin registered[s]
    BY <1>1, Resets DEF Stage
  <2>2. Gone(id)' /\ \A s \in Scenarios \ (raced' \cup call'[a].read) : id \notin registered'[s]
    BY <1>1, <1>2, <1>3, <2>1 DEF Gone, TypeOK
  <2> QED BY <1>3, <2>2 DEF Stage, Concerns
<1>6. registered' \in [Scenarios -> SUBSET Ids]
  BY <1>1, <1>2 DEF TypeOK
<1> QED BY <1>1, <1>2, <1>3, <1>4, <1>5, <1>6, QuietStep DEF Edited, TypeOK

LEMMA ScenariosClearedIInv ==
  ASSUME IInv, NEW a \in Admins, ScenariosCleared(a)
  PROVE  IInv'
<1>1. /\ TypeOK /\ Prepared(call[a]) /\ call[a].at = "scenarios" /\ call[a].op = "reset"
      /\ Concerns(call[a]) = Ids
      /\ call[a].new = Default /\ call[a].id = Default.id /\ Default.id \in Ids
  BY Resets DEF ScenariosCleared, At
<1>2. /\ Goto(a, "load") /\ call[a].read = {}
      /\ UNCHANGED <<store, count, registered, request>>
  BY DEF ScenariosCleared
<1>3. /\ call' \in [Admins -> CallType]
      /\ \A b \in Admins \ {a} : call'[b] = call[b]
      /\ call'[a].at = "load" /\ call'[a].op = "reset" /\ call'[a].id = Default.id
      /\ call'[a].old = call[a].old /\ call'[a].new = Default
  BY <1>1, <1>2, Relabelled
<1>4. Continues(a)
  BY <1>1, <1>3 DEF Continues, Prepared
<1>5. \A id \in Ids : id \in Concerns(call'[a])
  BY <1>3 DEF Concerns
<1>6. CASE ~Alone(a)
  <2>1. suspect' = suspect /\ raced' = raced
    BY <1>6 DEF ScenariosCleared
  <2>2. ASSUME NEW id \in Ids \ suspect
        PROVE  Stage(call[a], id)'
    <3>1. Gone(id) /\ \A s \in Scenarios \ raced : id \notin registered[s]
      BY <1>1, <1>2, <2>2, Resets DEF Stage
    <3>2. Gone(id)' /\ RegisteredAt(id, None)'
      BY <1>2, <2>1, <3>1, AdminAssumption DEF Gone, RegisteredAt
    <3> QED BY <1>3, <3>2 DEF Stage
  <2> QED BY <1>1, <1>2, <1>3, <1>4, <1>5, <2>1, <2>2, QuietStep DEF Edited, TypeOK
<1>7. CASE Alone(a)
  <2>1. /\ suspect' = {} /\ raced' = {} /\ store' = {}
        /\ \A sc \in Scenarios : registered'[sc] = {}
        /\ \A b \in Admins \ {a} : call'[b] = NoCall
        /\ \A t \in Threads : request'[t] = NoRequest
    BY <1>2, <1>3, <1>7 DEF Alone, ScenariosCleared
  <2>2. TypeOK'
    BY <1>1, <1>2, <1>3, <2>1 DEF TypeOK
  <2>3. Indexed'
    <3>1. \A b \in Admins : ~Edited(b)'
      BY <1>3, <2>1, NoCallPrepared DEF Edited
    <3> QED BY <2>1, <3>1 DEF Indexed
  <2>4. ASSUME NEW id \in Ids PROVE Sound(id)'
    <3>1. \A b \in Admins : Works(b, id)' <=> b = a
      BY <1>5, <2>1, NoCallPrepared DEF Works, Concerns
    <3>2. OneStub(id)' /\ Gone(id)' /\ RegisteredAt(id, None)'
      BY <2>1, AdminAssumption DEF OneStub, Gone, RegisteredAt
    <3>3. Stage(call[a], id)'
      BY <1>3, <3>2 DEF Stage
    <3>4. OneCall(id)'
      BY <3>1 DEF OneCall
    <3> QED BY <3>1, <3>2, <3>3, <3>4 DEF Sound
  <2>5. NoRequest.at = "idle"
    BY DEF NoRequest
  <2>6. Serving' /\ FirstMatchWins'
    BY <2>1, <2>5 DEF Serving, FirstMatchWins, Serves
  <2> QED BY <1>1, <1>4, <2>2, <2>3, <2>4, <2>6, ContinuesReady DEF IInv, Orderly
<1> QED BY <1>6, <1>7

LEMMA LoadDefaultIInv ==
  ASSUME IInv, NEW a \in Admins, LoadDefault(a)
  PROVE  IInv'
<1>1. /\ TypeOK /\ Prepared(call[a]) /\ call[a].at = "load" /\ call[a].op = "reset"
      /\ Concerns(call[a]) = Ids
      /\ call[a].new = Default /\ call[a].id = Default.id
      /\ Default \in Stubs /\ Default.id \in Ids
  BY Resets DEF LoadDefault, At
<1>2. UNCHANGED <<store, count, registered, request, suspect, raced>>
  BY DEF LoadDefault
<1>3. ASSUME NEW id \in Ids \ suspect
      PROVE  Gone(id)' /\ RegisteredAt(id, None)' /\ Agree(id)'
  <2>1. Gone(id) /\ RegisteredAt(id, None)
    BY <1>1, Resets DEF Stage
  <2>2. Gone(id)' /\ RegisteredAt(id, None)'
    BY <1>2, <2>1 DEF Gone, RegisteredAt
  <2> QED BY <2>2, AdminAssumption DEF Gone, RegisteredAt, Agree
<1>4. CASE IsFree(Default.id)
  <2>1. Goto(a, "insert")
    BY <1>4 DEF LoadDefault
  <2>2. /\ call' \in [Admins -> CallType]
        /\ \A b \in Admins \ {a} : call'[b] = call[b]
        /\ call'[a].at = "insert" /\ call'[a].op = "reset" /\ call'[a].id = Default.id
        /\ call'[a].old = call[a].old /\ call'[a].new = Default
    BY <1>1, <2>1, Relabelled
  <2>3. Continues(a)
    BY <1>1, <2>2 DEF Continues, Prepared
  <2>4. \A id \in Ids \ suspect : Stage(call[a], id)' /\ id \in Concerns(call'[a])
    BY <1>3, <2>2 DEF Stage, Concerns
  <2> QED BY <1>1, <1>2, <2>2, <2>3, <2>4, QuietStep DEF Edited, TypeOK
<1>5. CASE ~IsFree(Default.id)
  <2>1. EndCall(a)
    BY <1>5 DEF LoadDefault
  <2>2. Continues(a) /\ Concerns(call'[a]) = {} /\ call'[a].at = ""
    BY <1>1, <2>1, Ended
  <2> QED BY <1>1, <1>2, <1>3, <2>2, QuietStep DEF Edited, TypeOK
<1> QED BY <1>4, <1>5

\* A call begins with a stub in the state the calls before it have left it in.
LEMMA BeginIInv ==
  ASSUME IInv, NEW a \in Admins, NEW c \in CallType, Begin(a, c),
         c.op # "none", Prepared(c),
         c.at \in {"unlink", "relink"} => c.old \in store,
         \A id \in Concerns(c) \ suspect : (OneStub(id) /\ Agree(id)) => Stage(c, id)
  PROVE  IInv'
<1>1. /\ TypeOK /\ Ready /\ Indexed /\ Orderly /\ Serving /\ FirstMatchWins
      /\ Concerns(c) \subseteq Ids /\ Concerns(call[a]) = {} /\ ~Edited(a)
  BY NoCallPrepared DEF IInv, Concerns, Begin, Edited
<1>2. /\ call' = [call EXCEPT ![a] = c]
      /\ suspect' = suspect \cup (Concerns(c) \cap InHand(Admins \ {a}))
      /\ request' = Watched(store, Concerns(c))
      /\ UNCHANGED <<store, count, registered, raced>>
  BY DEF Begin
<1>3. /\ call' \in [Admins -> CallType] /\ call'[a] = c
      /\ \A b \in Admins \ {a} : call'[b] = call[b]
  BY <1>1, <1>2 DEF TypeOK
<1>4. TypeOK'
  BY <1>1, <1>2, <1>3, WatchedStep DEF TypeOK
<1>5. Ready'
  <2>1. Ready' <=> \A b \in Admins : Prepared(call'[b])
    BY DEF Ready, Prepared
  <2> QED BY <1>1, <1>3, <2>1 DEF Ready
<1>6. Indexed'
  <2>1. Edited(a)' => /\ c.old \in store /\ c.old.id = c.id
    BY <1>3 DEF Edited, Prepared
  <2>2. \A b \in Admins \ {a} : Edited(b)' => Edited(b)
    BY <1>3 DEF Edited
  <2>3. ASSUME NEW b \in Admins, Edited(b)'
        PROVE  /\ call'[b].old.idx < count
               /\ \A e \in store : e.idx = call'[b].old.idx => e.id = call'[b].id
    BY <1>1, <1>3, <2>1, <2>2, <2>3 DEF Indexed
  <2>4. \A b, d \in Admins :
          (Edited(b)' /\ Edited(d)' /\ call'[b].old.idx = call'[d].old.idx) =>
            call'[b].id = call'[d].id
    BY <1>1, <1>3, <2>1, <2>2 DEF Indexed
  <2> QED BY <1>1, <1>2, <2>3, <2>4 DEF Indexed
<1>7. ASSUME NEW id \in Ids \ suspect'
      PROVE  Sound(id)'
  <2>1. Sound(id) /\ id \notin suspect
    BY <1>1, <1>2, <1>7 DEF Orderly
  <2>2. \A b \in Admins : Works(b, id)' <=> id \in Concerns(call'[b])
    BY DEF Works, Concerns
  <2>3. CASE id \notin Concerns(c)
    <3>1. \A b \in Admins : Works(b, id) => call'[b] = call[b]
      BY <1>1, <1>3 DEF Works
    <3>2. \A b \in Admins : id \in Concerns(call'[b]) => Works(b, id)
      BY <1>3, <2>3 DEF Works
    <3> QED BY <1>1, <1>2, <2>1, <3>1, <3>2, Frame
  <2>4. CASE id \in Concerns(c)
    <3>1. \A b \in Admins : ~Works(b, id)
      BY <1>1, <1>2, <1>7, <2>4 DEF InHand, Works
    <3>2. \A b \in Admins : Works(b, id)' <=> b = a
      BY <1>3, <2>2, <2>4, <3>1 DEF Works
    <3>3. OneStub(id) /\ Stage(c, id)
      BY <2>1, <2>4, <3>1 DEF Sound
    <3>4. OneStub(id)' /\ Stage(call[a], id)'
      BY <1>2, <1>3, <3>3 DEF OneStub, Stage, Gone, RegisteredAt
    <3>5. OneCall(id)'
      BY <3>2 DEF OneCall
    <3> QED BY <3>2, <3>4, <3>5 DEF Sound
  <2> QED BY <2>3, <2>4
<1>8. FirstMatchWins'
  BY <1>1, <1>2, WatchedStep DEF FirstMatchWins, Serves
<1>9. Serving'
  <2>1. InHand(Admins)' \subseteq InHand(Admins) \cup Concerns(c)
    <3>1. InHand(Admins)' = UNION {Concerns(call'[b]) : b \in Admins}
      BY DEF InHand, Concerns
    <3> QED BY <1>3, <3>1 DEF InHand
  <2>2. ASSUME NEW t \in Threads
        PROVE  /\ request'[t].at = request[t].at
               /\ request'[t].last = request[t].last
               /\ request'[t].chosen = request[t].chosen
               /\ request[t].touched \subseteq request'[t].touched
               /\ request[t].at # "idle" => request'[t].touched = request[t].touched \cup Concerns(c)
               /\ request'[t].throughout \subseteq request[t].throughout
               /\ request[t].at # "idle" => request'[t].throughout \subseteq store
    BY <1>1, <1>2, WatchedStep
  <2>3. SUFFICES ASSUME NEW t \in Threads
               PROVE  LET r == request'[t]
                      IN /\ r.at # "idle" => r.throughout \subseteq store'
                                            /\ InHand(Admins)' \subseteq r.touched
                         /\ r.at = "scan" => \A f \in r.throughout : f.scen = None => After(t, f)'
                         /\ r.at \in {"serve", "put"} => r.chosen \in Entries \cup {NotConfigured}
                         /\ (r.at = "serve" /\ r.chosen # NotConfigured
                               /\ r.chosen.id \notin suspect' \cup r.touched)
                              => r.chosen \in store'
                         /\ r.at = "put" => r.chosen \in Entries /\ r.chosen.scen \in Scenarios
    BY DEF Serving
  <2>4. \A f : After(t, f) => After(t, f)'
    BY <2>2 DEF After, Precedes
  <2> QED BY <1>1, <1>2, <2>1, <2>2, <2>4 DEF Serving
<1> QED BY <1>1, <1>4, <1>5, <1>6, <1>7, <1>8, <1>9 DEF IInv, Orderly

LEMMA AddMappingIInv ==
  ASSUME IInv, NEW a \in Admins, NEW s \in Stubs, AddMapping(a, s)
  PROVE  IInv'
<1>1. PICK c : c = [NoCall EXCEPT !.op = "add", !.at = "insert", !.id = s.id, !.new = s]
  OBVIOUS
<1>2. IsFree(s.id) /\ Begin(a, c) /\ s.id \in Ids
  BY <1>1, AdminAssumption DEF AddMapping
<1>3. /\ c \in CallType /\ c.op = "add" /\ c.at = "insert" /\ c.id = s.id /\ c.new = s
      /\ c.old = None /\ c.read = {}
  BY <1>1, <1>2 DEF NoCall, CallType
<1>4. Prepared(c) /\ Concerns(c) = {s.id}
  BY <1>2, <1>3 DEF Prepared, Concerns
<1>5. Agree(s.id) => Stage(c, s.id)
  BY <1>2, <1>3, AdminAssumption DEF IsFree, Agree, Stage, Gone, RegisteredAt
<1> QED BY <1>2, <1>3, <1>4, <1>5, BeginIInv

LEMMA EditMappingIInv ==
  ASSUME IInv, NEW a \in Admins, NEW s \in Stubs, EditMapping(a, s)
  PROVE  IInv'
<1>1. PICK old \in store :
        /\ old.id = s.id
        /\ Begin(a, [NoCall EXCEPT !.op = "edit", !.at = "unlink", !.id = s.id, !.old = old,
             !.new = [id |-> s.id, prio |-> s.prio, scen |-> s.scen, idx |-> old.idx]])
  BY DEF EditMapping
<1>2. PICK e : e = [id |-> s.id, prio |-> s.prio, scen |-> s.scen, idx |-> old.idx]
  OBVIOUS
<1>3. /\ old \in Entries /\ old.idx \in Nat /\ e \in Entries /\ e.id = s.id /\ e.idx = old.idx
      /\ s.id \in Ids
  BY <1>1, <1>2, AdminAssumption DEF IInv, TypeOK, Entries
<1>4. PICK c : c = [NoCall EXCEPT !.op = "edit", !.at = "unlink", !.id = s.id, !.old = old, !.new = e]
  OBVIOUS
<1>5. Begin(a, c)
  BY <1>1, <1>2, <1>4
<1>6. /\ c \in CallType /\ c.op = "edit" /\ c.at = "unlink" /\ c.id = s.id /\ c.new = e
      /\ c.old = old /\ c.read = {}
  BY <1>3, <1>4 DEF NoCall, CallType
<1>7. Prepared(c) /\ Concerns(c) = {s.id}
  BY <1>1, <1>3, <1>6 DEF Prepared, Concerns
<1>8. (OneStub(s.id) /\ Agree(s.id)) => RegisteredAt(s.id, old.scen)
  BY <1>1 DEF OneStub, Agree, RegisteredAt
<1>9. (OneStub(s.id) /\ Agree(s.id)) => Stage(c, s.id)
  BY <1>1, <1>6, <1>8 DEF Stage
<1> QED BY <1>1, <1>5, <1>6, <1>7, <1>9, BeginIInv

LEMMA RemoveMappingIInv ==
  ASSUME IInv, NEW a \in Admins, NEW id \in Ids, RemoveMapping(a, id)
  PROVE  IInv'
<1>1. PICK old \in store :
        /\ old.id = id
        /\ Begin(a, [NoCall EXCEPT !.op = "remove", !.at = "remove", !.id = id, !.old = old])
  BY DEF RemoveMapping
<1>2. PICK c : c = [NoCall EXCEPT !.op = "remove", !.at = "remove", !.id = id, !.old = old]
  OBVIOUS
<1>3. Begin(a, c) /\ old \in Entries
  BY <1>1, <1>2 DEF IInv, TypeOK
<1>4. /\ c \in CallType /\ c.op = "remove" /\ c.at = "remove" /\ c.id = id
      /\ c.old = old /\ c.read = {}
  BY <1>2, <1>3 DEF NoCall, CallType
<1>5. Prepared(c) /\ Concerns(c) = {id}
  BY <1>1, <1>3, <1>4 DEF Prepared, Concerns
<1>6. (OneStub(id) /\ Agree(id)) => RegisteredAt(id, old.scen)
  BY <1>1 DEF OneStub, Agree, RegisteredAt
<1>7. (OneStub(id) /\ Agree(id)) => Stage(c, id)
  BY <1>1, <1>4, <1>6 DEF Stage
<1> QED BY <1>3, <1>4, <1>5, <1>7, BeginIInv

LEMMA ResetToDefaultMappingsIInv ==
  ASSUME IInv, NEW a \in Admins, ResetToDefaultMappings(a)
  PROVE  IInv'
<1>1. PICK c : c = [NoCall EXCEPT !.op = "reset", !.at = "clear", !.id = Default.id, !.new = Default]
  OBVIOUS
<1>2. Begin(a, c) /\ Default.id \in Ids /\ Default \in Stubs
  BY <1>1, AdminAssumption DEF ResetToDefaultMappings
<1>3. /\ c \in CallType /\ c.op = "reset" /\ c.at = "clear" /\ c.id = Default.id
      /\ c.new = Default /\ c.old = None /\ c.read = {}
  BY <1>1, <1>2 DEF NoCall, CallType
<1>4. Prepared(c)
  BY <1>2, <1>3 DEF Prepared
<1>5. \A id \in Concerns(c) : Stage(c, id)
  BY <1>3 DEF Stage
<1> QED BY <1>2, <1>3, <1>4, <1>5, BeginIInv

\* What there is to show of a step of a serving thread: what it has in hand.
LEMMA ThreadStep ==
  ASSUME IInv, NEW t \in Threads, NEW r \in RequestType, request' = [request EXCEPT ![t] = r],
         UNCHANGED <<store, count, call, suspect>>,
         registered' \in [Scenarios -> SUBSET Ids],
         raced \subseteq raced', raced' \subseteq Scenarios,
         \A s \in Scenarios \ raced' : registered'[s] = registered[s],
         r.at # "idle" => r.throughout \subseteq store /\ InHand(Admins) \subseteq r.touched,
         r.at = "scan" => \A f \in r.throughout :
           (f.scen = None /\ r.last # None) => Precedes(r.last, f),
         r.at \in {"serve", "put"} => r.chosen \in Entries \cup {NotConfigured},
         (r.at = "serve" /\ r.chosen # NotConfigured /\ r.chosen.id \notin suspect \cup r.touched)
           => r.chosen \in store,
         r.at = "put" => r.chosen \in Entries /\ r.chosen.scen \in Scenarios,
         r.at = "serve" => \A f \in r.throughout : f.scen = None =>
           /\ r.chosen # NotConfigured
           /\ r.chosen.prio < f.prio \/ (r.chosen.prio = f.prio /\ r.chosen.idx >= f.idx)
  PROVE  IInv'
<1>1. /\ TypeOK /\ Ready /\ Indexed /\ Orderly /\ Serving /\ FirstMatchWins
  BY DEF IInv
<1>2. /\ request' \in [Threads -> RequestType] /\ request'[t] = r
      /\ \A u \in Threads \ {t} : request'[u] = request[u]
  BY <1>1 DEF TypeOK
<1>3. TypeOK'
  BY <1>1, <1>2 DEF TypeOK
<1>4. Ready' /\ Indexed'
  <2>1. \A b \in Admins : Edited(b)' <=> Edited(b)
    BY DEF Edited
  <2> QED BY <1>1, <2>1 DEF Ready, Prepared, Indexed
<1>5. ASSUME NEW id \in Ids \ suspect'
      PROVE  Sound(id)'
  <2>1. Sound(id)
    BY <1>1, <1>5 DEF Orderly
  <2>2. \A b \in Admins : id \in Concerns(call'[b]) => Works(b, id)
    BY DEF Works
  <2> QED BY <1>1, <2>1, <2>2, Frame
<1>6. InHand(Admins)' = InHand(Admins)
  BY DEF InHand
<1>7. Serving'
  <2>1. SUFFICES ASSUME NEW u \in Threads
               PROVE  LET q == request'[u]
                      IN /\ q.at # "idle" => q.throughout \subseteq store
                                            /\ InHand(Admins) \subseteq q.touched
                         /\ q.at = "scan" => \A f \in q.throughout : f.scen = None => After(u, f)'
                         /\ q.at \in {"serve", "put"} => q.chosen \in Entries \cup {NotConfigured}
                         /\ (q.at = "serve" /\ q.chosen # NotConfigured
                               /\ q.chosen.id \notin suspect \cup q.touched)
                              => q.chosen \in store
                         /\ q.at = "put" => q.chosen \in Entries /\ q.chosen.scen \in Scenarios
    BY <1>6 DEF Serving
  <2>2. CASE u = t
    <3>1. \A f : After(u, f)' <=> (r.last # None => Precedes(r.last, f))
      BY <1>2, <2>2 DEF After, Precedes
    <3> QED BY <1>2, <2>2, <3>1
  <2>3. CASE u # t
    <3>1. \A f : After(u, f)' <=> After(u, f)
      BY <1>2, <2>3 DEF After, Precedes
    <3> QED BY <1>1, <1>2, <2>3, <3>1 DEF Serving
  <2> QED BY <2>2, <2>3
<1>8. FirstMatchWins'
  BY <1>1, <1>2 DEF FirstMatchWins, Serves
<1> QED BY <1>3, <1>4, <1>5, <1>7, <1>8 DEF IInv, Orderly

LEMMA Responds ==
  ASSUME IInv, NEW t \in Threads, Respond(t), UNCHANGED <<store, count, call, suspect>>,
         registered' \in [Scenarios -> SUBSET Ids],
         raced \subseteq raced', raced' \subseteq Scenarios,
         \A s \in Scenarios \ raced' : registered'[s] = registered[s]
  PROVE  IInv'
<1>1. NoRequest \in RequestType /\ NoRequest.at = "idle"
  BY DEF NoRequest, RequestType
<1> QED BY <1>1, ThreadStep DEF Respond

LEMMA BeginServeIInv ==
  ASSUME IInv, NEW t \in Threads, BeginServe(t)
  PROVE  IInv'
<1>1. PICK r : r = [NoRequest EXCEPT !.at = "scan", !.throughout = store, !.touched = InHand(Admins)]
  OBVIOUS
<1>2. /\ request' = [request EXCEPT ![t] = r]
      /\ UNCHANGED <<store, count, call, suspect, registered, raced>>
  BY <1>1 DEF BeginServe
<1>3. /\ TypeOK /\ store \subseteq Entries /\ InHand(Admins) \subseteq Ids
  BY DEF IInv, TypeOK, InHand, Concerns
<1>4. /\ r \in RequestType /\ r.at = "scan" /\ r.last = None
      /\ r.throughout = store /\ r.touched = InHand(Admins)
  BY <1>1, <1>3 DEF NoRequest, RequestType
<1> QED BY <1>2, <1>3, <1>4, ThreadStep DEF TypeOK

\* Stubs have their priorities and insertion indexes in the natural numbers.
LEMMA EntriesOrdered ==
  ASSUME NEW e \in Entries
  PROVE  e.prio \in Nat /\ e.idx \in Nat
BY AdminAssumption DEF Entries

\* A request makes its choice.
LEMMA ChooseStep ==
  ASSUME IInv, NEW t \in Threads, Serves(t, "scan"), NEW s \in Entries \cup {NotConfigured},
         Choose(t, s), s # NotConfigured => s \in store,
         \A f \in request[t].throughout : f.scen = None =>
           s # NotConfigured /\ ~Precedes(f, s)
  PROVE  IInv'
<1>1. PICK r : r = [request[t] EXCEPT !.at = "serve", !.chosen = s]
  OBVIOUS
<1>2. /\ TypeOK /\ request[t] \in RequestType /\ Serving
  BY DEF IInv, TypeOK
<1>3. /\ request' = [request EXCEPT ![t] = r]
      /\ UNCHANGED <<store, count, call, suspect, registered, raced>>
  BY <1>1, <1>2 DEF Choose, TypeOK, RequestType
<1>4. /\ r \in RequestType /\ r.at = "serve" /\ r.chosen = s
      /\ r.throughout = request[t].throughout /\ r.touched = request[t].touched
  BY <1>1, <1>2 DEF RequestType
<1>5. /\ r.throughout \subseteq store /\ r.throughout \subseteq Entries
      /\ InHand(Admins) \subseteq r.touched
  BY <1>2, <1>4 DEF Serving, Serves, TypeOK
<1>6. ASSUME NEW f \in r.throughout, f.scen = None
      PROVE  s # NotConfigured /\ (s.prio < f.prio \/ (s.prio = f.prio /\ s.idx >= f.idx))
  <2>1. s # NotConfigured /\ ~Precedes(f, s) /\ f \in Entries /\ s \in Entries
    BY <1>4, <1>5, <1>6
  <2> QED BY <2>1, EntriesOrdered DEF Precedes
<1> QED BY <1>2, <1>3, <1>4, <1>5, <1>6, ThreadStep DEF TypeOK

LEMMA TakeStubIInv ==
  ASSUME IInv, NEW t \in Threads, TakeStub(t)
  PROVE  IInv'
<1>1. PICK e \in store : Reaches(t, e) /\ Choose(t, e)
  BY DEF TakeStub
<1>2. e \in Entries /\ e # NotConfigured
  BY NoEntryAssumption DEF IInv, TypeOK
<1>3. \A f \in request[t].throughout : f.scen = None => ~Precedes(f, e)
  BY <1>1 DEF IInv, Serving, Serves, Reaches
<1> QED BY <1>1, <1>2, <1>3, ChooseStep DEF Reaches

LEMMA NothingLeftIInv ==
  ASSUME IInv, NEW t \in Threads, NothingLeft(t)
  PROVE  IInv'
<1>1. Choose(t, NotConfigured) /\ Serves(t, "scan")
  BY DEF NothingLeft
<1>2. \A f \in request[t].throughout : f.scen # None
  BY DEF IInv, Serving, Serves, NothingLeft
<1> QED BY <1>1, <1>2, ChooseStep

LEMMA PassStubIInv ==
  ASSUME IInv, NEW t \in Threads, PassStub(t)
  PROVE  IInv'
<1>1. PICK e \in store :
        Reaches(t, e) /\ e.scen # None /\ request' = [request EXCEPT ![t].last = e]
  BY DEF PassStub
<1>2. /\ TypeOK /\ request[t] \in RequestType /\ Serving /\ e \in Entries /\ Serves(t, "scan")
  BY <1>1 DEF IInv, TypeOK, Reaches
<1>3. PICK r : r = [request[t] EXCEPT !.last = e]
  OBVIOUS
<1>4. /\ request' = [request EXCEPT ![t] = r]
      /\ UNCHANGED <<store, count, call, suspect, registered, raced>>
  BY <1>1, <1>2, <1>3 DEF PassStub, TypeOK, RequestType
<1>5. /\ r \in RequestType /\ r.at = "scan" /\ r.last = e
      /\ r.throughout = request[t].throughout /\ r.touched = request[t].touched
  BY <1>2, <1>3 DEF RequestType, Serves
<1>6. /\ r.throughout \subseteq store /\ InHand(Admins) \subseteq r.touched
  BY <1>2, <1>5 DEF Serving, Serves
<1>7. ASSUME NEW f \in r.throughout, f.scen = None
      PROVE  Precedes(e, f)
  <2>1. f \in store /\ f \in Entries /\ f # e /\ ~Precedes(f, e)
    BY <1>1, <1>2, <1>5, <1>6, <1>7 DEF Serving, Serves, Reaches, TypeOK
  <2>2. ~(e.prio = f.prio /\ e.idx = f.idx)
    BY <1>1, <1>2, <2>1 DEF TypeOK
  <2> QED BY <1>2, <2>1, <2>2, EntriesOrdered DEF Precedes
<1> QED BY <1>2, <1>4, <1>5, <1>6, <1>7, ThreadStep DEF TypeOK

LEMMA ServeReadsIInv ==
  ASSUME IInv, NEW t \in Threads, ServeReads(t)
  PROVE  IInv'
<1>1. /\ TypeOK /\ request[t] \in RequestType /\ Serving /\ Serves(t, "serve")
      /\ UNCHANGED <<store, count, call, suspect, registered, raced>>
  BY DEF IInv, TypeOK, ServeReads
<1>2. CASE Respond(t)
  BY <1>1, <1>2, Responds DEF TypeOK
<1>3. CASE /\ ~OutsideScenario(request[t].chosen)
           /\ request' = [request EXCEPT ![t].at = "put",
                          ![t].read = registered[request[t].chosen.scen]]
  <2>1. request[t].chosen \in Entries /\ request[t].chosen.scen \in Scenarios
    BY <1>1, <1>3 DEF OutsideScenario, Serving, Serves, Entries
  <2>2. PICK X : X = registered[request[t].chosen.scen]
    OBVIOUS
  <2>3. X \subseteq Ids
    BY <1>1, <2>1, <2>2 DEF TypeOK
  <2>4. PICK r : r = [request[t] EXCEPT !.at = "put", !.read = X]
    OBVIOUS
  <2>5. request' = [request EXCEPT ![t] = r]
    BY <1>1, <1>3, <2>2, <2>4 DEF TypeOK, RequestType
  <2>6. /\ r \in RequestType /\ r.at = "put" /\ r.chosen = request[t].chosen
        /\ r.throughout = request[t].throughout /\ r.touched = request[t].touched
    BY <1>1, <2>3, <2>4 DEF RequestType
  <2>7. /\ r.throughout \subseteq store /\ InHand(Admins) \subseteq r.touched
    BY <1>1, <2>6 DEF Serving, Serves
  <2> QED BY <1>1, <2>1, <2>5, <2>6, <2>7, ThreadStep DEF TypeOK
<1> QED BY <1>2, <1>3 DEF ServeReads

LEMMA ServePutsIInv ==
  ASSUME IInv, NEW t \in Threads, ServePuts(t)
  PROVE  IInv'
<1>1. PICK r : r = request[t]
  OBVIOUS
<1>2. /\ TypeOK /\ r \in RequestType /\ r.at = "put" /\ r.chosen.scen \in Scenarios
      /\ r.read \subseteq Ids
  BY <1>1 DEF IInv, TypeOK, ServePuts, Serves, Serving, RequestType
<1>3. /\ PutScenario(r.chosen.scen, r.read, r.read) /\ Respond(t)
      /\ UNCHANGED <<store, count, call, suspect>>
  BY <1>1 DEF ServePuts
<1>4. /\ registered' \in [Scenarios -> SUBSET Ids]
      /\ raced \subseteq raced' /\ raced' \subseteq Scenarios
      /\ \A s \in Scenarios : registered'[s] = IF s = r.chosen.scen THEN r.read ELSE registered[s]
      /\ r.chosen.scen \notin raced' => registered[r.chosen.scen] = r.read
  BY <1>2, <1>3, Puts
<1>5. \A s \in Scenarios \ raced' : registered'[s] = registered[s]
  BY <1>4
<1> QED BY <1>3, <1>4, <1>5, Responds

LEMMA ServeLeavesIInv ==
  ASSUME IInv, NEW t \in Threads, ServeLeaves(t)
  PROVE  IInv'
BY Responds DEF ServeLeaves, IInv, TypeOK

-----------------------------------------------------------------------------
(* The theorems.                                                           *)

LEMMA InitIInv ==
  ASSUME Init
  PROVE  IInv
<1>1. NoCall \in CallType /\ NoCall.at = "" /\ Prepared(NoCall) /\ Concerns(NoCall) = {}
  BY NoCallPrepared
<1>2. NoRequest \in RequestType /\ NoRequest.at = "idle"
  BY DEF NoRequest, RequestType
<1>3. /\ store = {} /\ count = 0 /\ suspect = {} /\ raced = {}
      /\ registered = [sc \in Scenarios |-> {}]
      /\ \A a \in Admins : call[a] = NoCall
      /\ \A t \in Threads : request[t] = NoRequest
  BY DEF Init
<1>4. TypeOK
  <2>1. call \in [Admins -> CallType] /\ request \in [Threads -> RequestType]
    BY <1>1, <1>2 DEF Init
  <2>2. registered \in [Scenarios -> SUBSET Ids] /\ store \subseteq Entries /\ count \in Nat
    BY <1>3
  <2>3. \A e, f \in store : (e.prio = f.prio /\ e.idx = f.idx) => e = f
    BY <1>3
  <2> QED BY <1>3, <2>1, <2>2, <2>3 DEF TypeOK
<1>5. Ready /\ Indexed
  BY <1>1, <1>3 DEF Ready, Indexed, Edited
<1>6. \A id \in Ids : Sound(id)
  BY <1>1, <1>3 DEF Sound, OneStub, OneCall, Works, Agree
<1>7. Serving /\ FirstMatchWins
  BY <1>2, <1>3 DEF Serving, FirstMatchWins, Serves
<1> QED BY <1>4, <1>5, <1>6, <1>7 DEF IInv, Orderly

LEMMA StutterIInv ==
  ASSUME IInv, UNCHANGED vars
  PROVE  IInv'
<1>1. UNCHANGED <<store, count, registered, call, request, suspect, raced>>
  BY DEF vars
<1>2. TypeOK' /\ Ready' /\ Indexed'
  BY <1>1 DEF IInv, TypeOK, Ready, Prepared, Indexed, Edited
<1>3. \A id \in Ids : Sound(id) => Sound(id)'
  <2> TAKE id \in Ids
  <2>1. \A b \in Admins : id \in Concerns(call'[b]) => Works(b, id)
    BY <1>1 DEF Works
  <2> QED BY <1>1, <2>1, Frame DEF IInv
<1>4. Serving' /\ FirstMatchWins'
  <2>1. InHand(Admins)' = InHand(Admins)
    BY <1>1 DEF InHand
  <2>2. \A t \in Threads : \A f : After(t, f)' <=> After(t, f)
    BY <1>1 DEF After
  <2> QED BY <1>1, <2>1, <2>2 DEF IInv, Serving, FirstMatchWins, Serves
<1> QED BY <1>1, <1>2, <1>3, <1>4 DEF IInv, Orderly

LEMMA NextIInv ==
  ASSUME IInv, [Next]_vars
  PROVE  IInv'
<1>1. CASE UNCHANGED vars
  BY <1>1, StutterIInv
<1>2. ASSUME NEW a \in Admins, Call(a)
      PROVE  IInv'
  BY <1>2, AddMappingIInv, EditMappingIInv, RemoveMappingIInv, ResetToDefaultMappingsIInv
     DEF Call
<1>3. ASSUME NEW a \in Admins, Work(a)
      PROVE  IInv'
  BY <1>3, StoreAddIInv, ReplaceRemoveIInv, ReplaceAddIInv, RemoveIfIInv,
     ScenarioIsMissingIInv, ReadOldIInv, PutOldIInv, ReadNewIInv, PutNewIInv,
     ClearFirstIInv, StoreClearedIInv, ScenariosClearedIInv, LoadDefaultIInv,
     ClearScenarioIInv DEF Work
<1>4. ASSUME NEW t \in Threads, BeginServe(t) \/ Serve(t)
      PROVE  IInv'
  BY <1>4, BeginServeIInv, TakeStubIInv, PassStubIInv, NothingLeftIInv,
     ServeReadsIInv, ServePutsIInv, ServeLeavesIInv DEF Serve
<1> QED BY <1>1, <1>2, <1>3, <1>4 DEF Next

LEMMA IInvAlways == Spec => []IInv
BY InitIInv, NextIInv, PTL DEF Spec

\* What the invariant says of the properties.
LEMMA IInvImplies ==
  ASSUME IInv
  PROVE  UniqueIds /\ RegisteredAsStored /\ ScenarioIsFound
<1>1. TypeOK /\ Ready /\ Orderly /\ Serving
  BY DEF IInv
<1>2. UniqueIds
  BY <1>1 DEF Orderly, Sound, OneStub, UniqueIds
<1>3. RegisteredAsStored
  <2> SUFFICES ASSUME NEW id \in Settled PROVE Agree(id)
    BY DEF RegisteredAsStored, Agree
  <2> QED BY <1>1 DEF Settled, InHand, Orderly, Sound, Works
<1>4. ASSUME NEW a \in Admins, At(a, "readOld"), call[a].id \notin suspect,
             call[a].old.scen \notin raced
      PROVE  call[a].id \in registered[call[a].old.scen]
  <2>1. Prepared(call[a]) /\ call[a].at = "readOld" /\ call[a] \in CallType
    BY <1>1, <1>4 DEF Ready, At, TypeOK
  <2>2. call[a].op # "none" /\ call[a].id \in Ids /\ call[a].old.scen \in Scenarios
    BY <2>1 DEF Prepared
  <2>3. Works(a, call[a].id)
    BY <1>1, <2>2, Concerned DEF Works
  <2>4. RegisteredAt(call[a].id, call[a].old.scen)
    BY <1>1, <1>4, <2>1, <2>2, <2>3 DEF Orderly, Sound, Stage
  <2> QED BY <1>4, <2>2, <2>4 DEF RegisteredAt
<1>5. ASSUME NEW t \in Threads, Serves(t, "serve"), ~OutsideScenario(request[t].chosen),
             request[t].chosen.id \notin suspect \cup request[t].touched,
             request[t].chosen.scen \notin raced
      PROVE  request[t].chosen.id \in registered[request[t].chosen.scen]
  <2>1. /\ request[t].chosen \in store /\ request[t].chosen \in Entries
        /\ InHand(Admins) \subseteq request[t].touched
    BY <1>1, <1>5 DEF Serving, Serves, OutsideScenario, TypeOK
  <2>2. request[t].chosen.id \in Ids /\ request[t].chosen.scen \in Scenarios
    BY <1>5, <2>1 DEF Entries, OutsideScenario
  <2>3. \A a \in Admins : ~Works(a, request[t].chosen.id)
    BY <1>5, <2>1 DEF InHand, Works
  <2>4. Agree(request[t].chosen.id)
    BY <1>1, <1>5, <2>2, <2>3 DEF Orderly, Sound
  <2> QED BY <1>5, <2>1, <2>2, <2>4 DEF Agree
<1>6. ScenarioIsFound
  BY <1>4, <1>5 DEF ScenarioIsFound
<1> QED BY <1>2, <1>3, <1>6

\* The variables of the stub store and the scenarios hold what they should, and
\* no two stubs share a place in the order of the skip list.
THEOREM TypeCorrect == Spec => []TypeOK
<1>1. IInv => TypeOK
  BY DEF IInv
<1> QED BY <1>1, IInvAlways, PTL

\* However many admin calls and requests overlap, an id that no two of the
\* calls have worked on at once has one stub at most in StoreBackedStubMappings.
THEOREM IdsAreUnique == Spec => []UniqueIds
BY IInvAlways, IInvImplies, PTL

\* Scenarios and stubs agree but for stubs that calls have in hand or have met
\* on, and scenarios of which one thread has overwritten another's change.
THEOREM ScenariosAgree == Spec => []RegisteredAsStored
BY IInvAlways, IInvImplies, PTL

\* No call and no request fails for want of the scenario of its stub unless
\* another has been at work on that stub or the scenario has lost a change.
THEOREM NoScenarioIsMissed == Spec => []ScenarioIsFound
BY IInvAlways, IInvImplies, PTL

\* A request that runs while stubs come and go is answered by the first match
\* among those that were there throughout, or by one before it.
THEOREM FirstMatchAlwaysWins == Spec => []FirstMatchWins
<1>1. IInv => FirstMatchWins
  BY DEF IInv
<1> QED BY <1>1, IInvAlways, PTL
=============================================================================
