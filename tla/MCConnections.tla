----------------------------- MODULE MCConnections -----------------------------
(* A small instance of Connections for TLC. *)
EXTENDS ConnectionsRefinement

CONSTANTS s1, a1, p1
=============================================================================
