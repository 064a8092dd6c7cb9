------------------------------ MODULE MCExecClient ------------------------------
(* A small instance of ExecClient for TLC. *)
EXTENDS ExecClientRefinement

CONSTANTS s1, s2, out, err
=============================================================================
