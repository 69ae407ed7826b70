-------------------------- MODULE MCResponseBuffer --------------------------
(* ResponseBuffer with two calls that share a transaction, as every two VideoRoom *)
(* requests do, and one with a transaction of its own.                           *)
EXTENDS ResponseBuffer

CONSTANTS c1, c2, c3

SomeShared == [c \in Calls |-> IF c = c3 THEN c3 ELSE c1]
=============================================================================
