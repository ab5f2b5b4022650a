----------------------------- MODULE MCRecorder -----------------------------
(* A small instance of Recorder. *)
EXTENDS Recorder, TLC

Symmetry == Permutations(Events) \cup Permutations(Proxies)

\* The other stubs are there from the start.
StubsThere == RecorderInit /\ stubs = CatchAlls
=============================================================================
