----------------------------- MODULE MCStubAdmin -----------------------------
(* A small instance of StubAdmin. *)
EXTENDS StubAdmin, TLC

CONSTANTS x, y, sc1, sc2

\* Two versions of one stub, in two scenarios and with two priorities, one of
\* another stub in the first scenario, and a version of that outside of both.
S(id, prio, scen) == [id |-> id, prio |-> prio, scen |-> scen]
SmallStubs == {S(x, 1, sc1), S(x, 2, sc2), S(y, 1, sc1), S(y, 2, None)}
SmallDefault == S(x, 1, sc1)

AdminSymmetry == Permutations(Admins)
=============================================================================
