-------------------------- MODULE MCStubLifecycle --------------------------
(* Two stubs and two scenarios.                                            *)
EXTENDS StubLifecycle, TLC

Symmetry == Permutations(Ids) \cup Permutations(Scenarios)
=============================================================================
