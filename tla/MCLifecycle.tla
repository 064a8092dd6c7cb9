------------------------------- MODULE MCLifecycle -------------------------------
(* Small instances of Lifecycle for TLC. *)
EXTENDS Lifecycle, TLC

CONSTANTS a1, a2, s1, s2

Interchangeable == Permutations(Starts) \cup Permutations(Stops)
=============================================================================
