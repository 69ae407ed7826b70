------------------------------ MODULE Channel ------------------------------
(***************************************************************************)
(* What a queue<T> with one consumer promises: items come out in the order *)
(* they went in, each once.  log is everything ever put in, taken counts   *)
(* what came out of its front.                                             *)
(***************************************************************************)
EXTENDS Naturals, Sequences

CONSTANT Items

VARIABLES log, taken

Init == log = <<>> /\ taken = 0

Put(i) == log' = Append(log, i) /\ UNCHANGED taken
Take == taken < Len(log) /\ taken' = taken + 1 /\ UNCHANGED log

Next == (\E i \in Items : Put(i)) \/ Take

Spec == Init /\ [][Next]_<<log, taken>>
=============================================================================
