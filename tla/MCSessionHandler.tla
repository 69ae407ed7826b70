-------------------------- MODULE MCSessionHandler --------------------------
(* SessionHandler on small sets; tokens are interchangeable when no liveness *)
(* property is checked.                                                      *)
EXTENDS SessionHandler, TLC

Symmetric == Permutations(Tokens)
=============================================================================
