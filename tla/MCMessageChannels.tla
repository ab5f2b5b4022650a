-------------------------- MODULE MCMessageChannels --------------------------
(* A small instance of MessageChannels. *)
EXTENDS MessageChannels

Symmetry ==
  Permutations(Callers) \cup Permutations(Channels) \cup Permutations(Messages)
=============================================================================
