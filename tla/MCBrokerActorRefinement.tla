------------------------ MODULE MCBrokerActorRefinement ------------------------
(* A small instance of BrokerActorRefinement for TLC. *)
EXTENDS BrokerActorRefinement, TLC

CONSTANTS c1, c2, a1, a2

Interchangeable == Permutations({c1, c2}) \cup Permutations({a1, a2})
=============================================================================
