------------------------------ MODULE Exchange ------------------------------
(***************************************************************************)
(* What the server promises of a request: it is read once, in the order in *)
(* which its client sent it; it leaves the queue in that order too, for a  *)
(* coroutine or, when its client is found to have gone, for nothing; it is *)
(* answered at most once and delivered only once answered.  In which order *)
(* the requests of a client are answered is left open.                     *)
(***************************************************************************)
EXTENDS Naturals

CONSTANT Ids    \* requests: a connection, and a number that counts from 1

VARIABLE phase  \* "unread", "queued", "running", "answered", "delivered", "given up"

Init == phase = [r \in Ids |-> "unread"]

\* The requests sent before r on its connection.
Before(r) == {q \in Ids : q[1] = r[1] /\ q[2] < r[2]}

Goes(r, from, to) == phase[r] = from /\ phase' = [phase EXCEPT ![r] = to]

Read(r) ==
    /\ \A q \in Before(r) : phase[q] # "unread"
    /\ Goes(r, "unread", "queued")

\* Taken from the queue: a coroutine is spawned, or nobody waits for the answer.
Take(r) ==
    /\ \A q \in Before(r) : phase[q] # "queued"
    /\ Goes(r, "queued", "running") \/ Goes(r, "queued", "given up")

Throw(r) == Goes(r, "running", "given up")
Answer(r) == Goes(r, "running", "answered")
Deliver(r) == Goes(r, "answered", "delivered")

Next == \E r \in Ids : Read(r) \/ Take(r) \/ Throw(r) \/ Answer(r) \/ Deliver(r)

Spec == Init /\ [][Next]_phase
=============================================================================
