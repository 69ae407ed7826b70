---------------------------- MODULE SessionStore ----------------------------
(***************************************************************************)
(* What the session handler promises to the request handlers: a store of   *)
(* login tokens, each bound to the user that logged in and alive for       *)
(* MaxLife ticks after it was issued or last validated.  There is no       *)
(* vector, no mutex, no clean-up thread and no clock here: a token simply  *)
(* runs out.  SessionHandler implements this module.                       *)
(***************************************************************************)
EXTENDS Naturals, FiniteSets

CONSTANTS Callers,      \* the threads that call the store
          Tokens,       \* the tokens that can be issued
          Users,        \* the owners of the tokens
          Nullopt,      \* std::nullopt
          MaxSessions,  \* the capacity of the store
          MaxLife       \* the life of a token, in ticks

VARIABLES issued,       \* the tokens issued so far
          owner,        \* the owner of each live token
          left,         \* the ticks each token still has to live
          reply         \* what each caller's last call returned

vars == <<issued, owner, left, reply>>

Live == {t \in Tokens : left[t] > 0}

Init ==
    /\ issued = {}
    /\ owner = [t \in Tokens |-> Nullopt]
    /\ left = [t \in Tokens |-> 0]
    /\ reply = [c \in Callers |-> Nullopt]

\* A token never seen before is bound to u, if fewer than MaxSessions live.
Issue(c, u) ==
    /\ Cardinality(Live) < MaxSessions
    /\ \E t \in Tokens \ issued :
          /\ issued' = issued \union {t}
          /\ owner' = [owner EXCEPT ![t] = u]
          /\ left' = [left EXCEPT ![t] = MaxLife]
          /\ reply' = [reply EXCEPT ![c] = t]

\* A login is turned away only when capacity has been used up.
Refuse(c) ==
    /\ Cardinality(issued) >= MaxSessions
    /\ reply' = [reply EXCEPT ![c] = Nullopt]
    /\ UNCHANGED <<issued, owner, left>>

\* A token is valid exactly while it lives, and validation renews its life.
Validate(c, t) ==
    /\ reply' = [reply EXCEPT ![c] = (left[t] > 0)]
    /\ left' = [left EXCEPT ![t] = IF @ > 0 THEN MaxLife ELSE 0]
    /\ UNCHANGED <<issued, owner>>

\* The owner of a live token, and of no other.
Lookup(c, t) ==
    /\ reply' = [reply EXCEPT ![c] = owner[t]]
    /\ UNCHANGED <<issued, owner, left>>

\* One tick passes for every token at once.
Elapse ==
    /\ left' = [t \in Tokens |-> IF left[t] > 0 THEN left[t] - 1 ELSE 0]
    /\ owner' = [t \in Tokens |-> IF left[t] > 1 THEN owner[t] ELSE Nullopt]
    /\ UNCHANGED <<issued, reply>>

Next ==
    \/ \E c \in Callers, u \in Users : Issue(c, u)
    \/ \E c \in Callers : Refuse(c)
    \/ \E c \in Callers, t \in Tokens : Validate(c, t) \/ Lookup(c, t)
    \/ Elapse

Spec == Init /\ [][Next]_vars
=============================================================================
