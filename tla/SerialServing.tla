--------------------------- MODULE SerialServing ---------------------------
(***************************************************************************)
(* StubServing with a memory of whether calls have ever overlapped: for as *)
(* long as they have not, it implements the atomic ScenarioMachine.        *)
(***************************************************************************)
EXTENDS StubServing

\* A caller is a request thread or an admin; an answer is not Null.
ASSUME CallersAssumption ==
  /\ Threads \cap Admins = {}
  /\ Null \notin Requests \X (Stubs \cup {NotConfigured})

VARIABLE calm  \* history: no two calls have been under way at once

Busy == {t \in Threads : pc[t] # "idle"} \cup {a \in Admins : resetting[a] # {}}

CalmInit == Init /\ calm = TRUE

\* A step of a call while no other call is under way leaves things calm.
StepOf(caller) == calm' = (calm /\ Busy \subseteq {caller})

CalmNext ==
  \/ \E t \in Threads, r \in Requests : Begin(t, r) /\ StepOf(t)
  \/ \E t \in Threads : Serve(t) /\ StepOf(t)
  \/ \E a \in Admins : AdminCall(a) /\ StepOf(a)

CalmSpec == CalmInit /\ [][CalmNext]_<<vars, calm>>

\* What the scenario machine knows of a thread: the request it has answered.
Answers ==
  [t \in Threads |->
     IF pc[t] = "answered" THEN <<req[t], chosen[t]>> ELSE Null]

Machine == INSTANCE ScenarioMachine WITH answer <- Answers

\* Calls made one after the other see the atomic machine of ScenarioMachine:
\* each answer is the first stub that the scenarios' states allow, and it
\* moves its scenario along.
SerialCallsSeeTheMachine ==
  Machine!Init /\ [][calm' => [Machine!Next]_(Machine!vars)]_<<vars, calm>>
=============================================================================
