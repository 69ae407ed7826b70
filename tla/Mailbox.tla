------------------------------ MODULE Mailbox ------------------------------
(***************************************************************************)
(* What a response_buffer promises: an outcome is handed over at most once, *)
(* to a call that waits; a call is handed at most one, and returns what it *)
(* was handed or nothing.  An outcome whose call has given up may stay, be *)
(* handed to the next call of the transaction, or be lost with the call it *)
(* was handed to.  It is of the call's transaction, unless it went astray: *)
(* an outcome may do so when a call of its transaction returns before it   *)
(* was handed over, and is then anyone's or nobody's.                      *)
(***************************************************************************)
CONSTANTS Calls, TxOf, Nobody, Nullopt

VARIABLES sent,     \* the outcomes Janus has sent
          astray,   \* those that went astray
          handed,   \* the outcome each call was handed
          phase,    \* "idle", "waiting", "returned"
          result    \* what each call returned

Init ==
    /\ sent = {} /\ astray = {}
    /\ handed = [c \in Calls |-> Nobody]
    /\ phase = [c \in Calls |-> "idle"]
    /\ result = [c \in Calls |-> Nobody]

Send(m) ==
    /\ m \notin sent /\ sent' = sent \union {m}
    /\ UNCHANGED <<astray, handed, phase, result>>

Wait(c) ==
    /\ phase[c] = "idle" /\ phase' = [phase EXCEPT ![c] = "waiting"]
    /\ UNCHANGED <<sent, astray, handed, result>>

\* The outcome m is nobody's yet.
Free(m) == m \in sent /\ \A d \in Calls : handed[d] # m

\* It is there for c, which waits for it.
For(m, c) ==
    /\ Free(m) /\ (TxOf[m] = TxOf[c] \/ m \in astray)
    /\ phase[c] = "waiting" /\ handed[c] = Nobody

Hand(m, c) ==
    /\ For(m, c) /\ handed' = [handed EXCEPT ![c] = m]
    /\ UNCHANGED <<sent, astray, phase, result>>

\* A call returns nothing, what it was handed, or what it is handed at once; one free
\* outcome of its transaction may go astray.
Return(c) ==
    /\ phase[c] = "waiting" /\ phase' = [phase EXCEPT ![c] = "returned"]
    /\ \/ result' = [result EXCEPT ![c] = Nullopt] /\ UNCHANGED handed
       \/ /\ handed[c] # Nobody
          /\ result' = [result EXCEPT ![c] = handed[c]] /\ UNCHANGED handed
       \/ \E m \in Calls :
            /\ For(m, c) /\ handed' = [handed EXCEPT ![c] = m]
            /\ result' = [result EXCEPT ![c] = m]
    /\ \/ UNCHANGED astray
       \/ \E m \in Calls : /\ Free(m) /\ TxOf[m] = TxOf[c]
                           /\ astray' = astray \union {m}
    /\ UNCHANGED sent

Next ==
    \/ \E c \in Calls : Wait(c) \/ Return(c) \/ Send(c)
    \/ \E m, c \in Calls : Hand(m, c)

Spec == Init /\ [][Next]_<<sent, astray, handed, phase, result>>
=============================================================================
