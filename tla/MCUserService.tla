--------------------------- MODULE MCUserService ---------------------------
(* UserService with one usable row and one whose password column is NULL. *)
EXTENDS UserService

CONSTANTS alice, eve

RowOf == [n \in Names |-> IF n = alice THEN "usable" ELSE "null_column"]
=============================================================================
