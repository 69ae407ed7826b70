----------------------------- MODULE MCBackend -----------------------------
(* Backend with a client that pipelines two requests, and two names, one of *)
(* which has a NULL column.                                                 *)
EXTENDS Backend

CONSTANTS a, alice, eve

RowOf == [n \in Names |-> IF n = alice THEN "usable" ELSE "null_column"]
RequestsOf == [c \in Conns |-> 2]
=============================================================================
