---------------------------- MODULE MCStubServing ----------------------------
(* Small instances of StubServing. *)
EXTENDS SerialServing, FiniteSets, TLC

CONSTANTS t1, t2, a1, order, tracking, placed, on, any, post, get,
          orderStarted, orderPlaced, trackOn, trackAny, fallback

ThreadSymmetry == Permutations(Threads)

\* A scenario that wraps around, as in ScenarioConcurrencyTest, and one with a
\* stub that its state must allow and a stub that serves in any state and
\* moves it; a request with a stub for every state of the first, one that may
\* find none, and one that finds the unconstrained stub.
WrapStubs == {orderStarted, orderPlaced, trackOn, trackAny}
WrapOrder == <<trackOn, orderPlaced, trackAny, orderStarted>>
WrapMatching == post :> {orderStarted, orderPlaced}
             @@ get :> {trackOn, orderPlaced}
             @@ any :> {trackAny}
WrapScenarioOf == orderStarted :> order @@ orderPlaced :> order
               @@ trackOn :> tracking @@ trackAny :> tracking
WrapRequired == orderStarted :> Started @@ orderPlaced :> placed
             @@ trackOn :> on @@ trackAny :> Null
WrapNewState == orderStarted :> placed @@ orderPlaced :> Started
             @@ trackOn :> Null @@ trackAny :> on

\* Two scenarios, one of three states, with requests that match stubs of both, a
\* stub that serves in any state of its scenario, and one outside every scenario.
TwoStubs == {orderStarted, orderPlaced, trackOn, trackAny, fallback}
TwoOrder == <<trackOn, orderPlaced, orderStarted, trackAny, fallback>>
TwoMatching == post :> {trackOn, orderPlaced, orderStarted}
            @@ get :> {trackOn, trackAny}
            @@ any :> {orderPlaced, trackOn, fallback}
TwoScenarioOf == orderStarted :> order @@ orderPlaced :> order
              @@ trackOn :> tracking @@ trackAny :> tracking
              @@ fallback :> Null
TwoRequired == orderStarted :> Started @@ orderPlaced :> placed
            @@ trackOn :> on @@ trackAny :> Null @@ fallback :> Null
TwoNewState == orderStarted :> placed @@ orderPlaced :> on
            @@ trackOn :> Started @@ trackAny :> on @@ fallback :> Null
=============================================================================
