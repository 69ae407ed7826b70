--------------------------- MODULE ResponseBuffer ---------------------------
(***************************************************************************)
(* response_buffer: the long-poll task pushes Janus events into it on the  *)
(* Janus thread, calls of the repository wait in it for the event with     *)
(* their transaction on the server's thread.                               *)
(*                                                                         *)
(* push runs on the strand.  wait_for_transaction hops to the strand and   *)
(* back: co_await dispatch(strand, use_awaitable) resumes on the coroutine's *)
(* own executor, so its steps interleave with those of push.  One access to *)
(* a container is one action here.  The segments of different waits exclude *)
(* each other, for they share the server's thread.                         *)
(*                                                                         *)
(* push keeps an iterator over three steps, and a wait that resumes erases *)
(* the entry it stands on.  What push does through it then is undefined;   *)
(* the outcomes taken are that the freed memory still leads to the waiter, *)
(* that the next waiter was given it, that it leads to nothing of the      *)
(* program, and a crash.                                                   *)
(*                                                                         *)
(* push is taken by its body: it lacks the return of its awaitable, and the *)
(* long-poll task never reaches it (JanusClient, EventReachesBuffer).      *)
(***************************************************************************)
EXTENDS Naturals, Sequences, SequencesExt

CONSTANTS Calls,        \* calls that wait for the outcome of their request
          Transactions, \* transaction strings
          TxOf,         \* the transaction of each call
          Nobody,       \* no call
          Nullopt       \* std::nullopt

ASSUME BufferAssumption ==
    /\ TxOf \in [Calls -> Transactions]
    /\ {Nobody, Nullopt} \intersect Calls = {}

VARIABLES messages,     \* std::deque<response_message>: whose outcome each is
          waiters,      \* the map: the call that waits for each transaction
          wait,         \* where each wait_for_transaction is
          answer,       \* waiter::result
          result,       \* what each wait returned
          thread,       \* the wait that has the server's thread
          push,         \* where push is
          message,      \* the outcome being pushed
          it,           \* the waiter push's iterator leads to
          pushed,       \* history: the outcomes Janus has sent
          stray         \* history: those whose entry was erased before push wrote

vars == <<messages, waiters, wait, answer, result, thread, push, message, it, pushed,
          stray>>

\* The outcome of a call is named by the call; Nobody: none yet.
Outcome == Calls \union {Nobody}
WaitPC == {"idle", "scan", "emplace", "arm", "waiting", "signalled", "timedout",
           "returned"}
PushPC == {"idle", "find", "store", "deliver", "signal", "erase", "crashed"}

Init ==
    /\ messages = <<>>
    /\ waiters = [t \in Transactions |-> Nobody]
    /\ wait = [c \in Calls |-> "idle"]
    /\ answer = [c \in Calls |-> Nobody]
    /\ result = [c \in Calls |-> Nobody]
    /\ thread = Nobody
    /\ push = "idle" /\ message = Nobody /\ it = Nobody
    /\ pushed = {} /\ stray = {}

(***************************************************************************)
(* wait_for_transaction, on the server's thread                            *)
(***************************************************************************)
pushVars == <<push, message, it, pushed, stray>>

Alive == push # "crashed"

\* The iterator stands on an erased entry.
Dangling == push \in {"deliver", "signal", "erase"} /\ waiters[TxOf[it]] # it

WaitGoes(c, from, to) == wait[c] = from /\ wait' = [wait EXCEPT ![c] = to]

Begin(c) ==
    /\ Alive
    /\ thread = Nobody /\ thread' = c
    /\ WaitGoes(c, "idle", "scan")
    /\ UNCHANGED <<messages, waiters, answer, result, pushVars>>

Return(c, value) ==
    /\ wait' = [wait EXCEPT ![c] = "returned"]
    /\ result' = [result EXCEPT ![c] = value]
    /\ thread' = Nobody

\* Mutations of Matching and Without: any message will do; the message found is
\* left in the buffer.
AnyMessage(c) == DOMAIN messages
StillWith(k) == messages

Matching(c) == {k \in DOMAIN messages : TxOf[messages[k]] = TxOf[c]}
Without(k) == RemoveAt(messages, k)

\* try_pop_locked: the first buffered message with the transaction.
Scan(c) ==
    /\ Alive /\ wait[c] = "scan"
    /\ IF Matching(c) = {}
       THEN WaitGoes(c, "scan", "emplace") /\ UNCHANGED <<messages, result, thread>>
       ELSE \E k \in Matching(c) :
              /\ \A j \in Matching(c) : k <= j
              /\ messages' = Without(k)
              /\ Return(c, messages[k])
    /\ UNCHANGED <<waiters, answer, pushVars>>

\* emplace refuses a second waiter for the same transaction.  A new waiter may be
\* given the memory a dangling iterator leads to.
Emplace(c) ==
    /\ Alive /\ wait[c] = "emplace"
    /\ IF waiters[TxOf[c]] = Nobody
       THEN /\ waiters' = [waiters EXCEPT ![TxOf[c]] = c]
            /\ it' \in IF Dangling THEN {it, c} ELSE {it}
            /\ WaitGoes(c, "emplace", "arm") /\ UNCHANGED <<result, thread>>
       ELSE Return(c, Nullopt) /\ UNCHANGED <<waiters, it>>
    /\ UNCHANGED <<messages, answer, push, message, pushed, stray>>

\* Both timers are waited for; the thread is given up.
Arm(c) ==
    /\ Alive /\ WaitGoes(c, "arm", "waiting")
    /\ thread' = Nobody
    /\ UNCHANGED <<messages, waiters, answer, result, pushVars>>

\* Mutation of Timeout: only the signal is waited for.
WaitsForEver(c) == FALSE

Timeout(c) ==
    /\ Alive /\ WaitGoes(c, "waiting", "timedout")
    /\ UNCHANGED <<messages, waiters, answer, result, thread, pushVars>>

\* Mutation of WithoutWaiter: the entry is left to push.
WithWaiter(c) == waiters

\* The transaction is erased from the map by key, whosever entry it is now.
WithoutWaiter(c) == [waiters EXCEPT ![TxOf[c]] = Nobody]

Resume(c) ==
    /\ Alive /\ thread = Nobody
    /\ wait[c] \in {"signalled", "timedout"}
    /\ waiters' = WithoutWaiter(c)
    /\ Return(c, IF wait[c] = "signalled" /\ answer[c] # Nobody THEN answer[c] ELSE Nullopt)
    /\ stray' = IF push = "deliver" /\ waiters'[TxOf[it]] # it
                THEN stray \union {message} ELSE stray
    /\ UNCHANGED <<messages, answer, push, message, it, pushed>>

(***************************************************************************)
(* push, on the strand                                                     *)
(***************************************************************************)
waitVars == <<wait, result, thread>>

PushGoes(from, to) == push = from /\ push' = to

\* Janus sends the outcome of each call once, at any time after its ack.
Push(c) ==
    /\ PushGoes("idle", "find")
    /\ c \notin pushed /\ pushed' = pushed \union {c}
    /\ message' = c
    /\ UNCHANGED <<messages, waiters, answer, it, stray, waitVars>>

Find ==
    /\ push = "find"
    /\ it' = waiters[TxOf[message]]
    /\ push' = IF it' = Nobody THEN "store" ELSE "deliver"
    /\ UNCHANGED <<messages, waiters, answer, message, pushed, stray, waitVars>>

\* Mutation of Stored: the message has been moved from.
MovedFrom == Nobody

Stored == message

Store ==
    /\ PushGoes("store", "idle")
    /\ messages' = Append(messages, Stored)
    /\ message' = Nobody
    /\ UNCHANGED <<waiters, answer, it, pushed, stray, waitVars>>

\* it->second->result = message: to the entry's waiter, or to the one the freed
\* memory leads to, if that call has not returned.
Deliver ==
    /\ PushGoes("deliver", "signal")
    /\ wait[it] # "returned"
    /\ answer' = [answer EXCEPT ![it] = message]
    /\ UNCHANGED <<messages, waiters, message, it, pushed, stray, waitVars>>

\* cancel() ends a wait that has begun, and is lost on one that has not.
Signal ==
    /\ PushGoes("signal", "erase")
    /\ wait' = [wait EXCEPT ![it] = IF @ = "waiting" THEN "signalled" ELSE @]
    /\ UNCHANGED <<messages, waiters, answer, result, thread, message, it, pushed, stray>>

\* erase(it)
Erase ==
    /\ PushGoes("erase", "idle") /\ ~Dangling
    /\ waiters' = [waiters EXCEPT ![TxOf[it]] = Nobody]
    /\ message' = Nobody /\ it' = Nobody
    /\ UNCHANGED <<messages, answer, pushed, stray, waitVars>>

\* Each of the three, through an erased entry, may touch nothing of the program ...
ReachesNothing ==
    /\ Dangling
    /\ \/ PushGoes("deliver", "signal") /\ UNCHANGED <<message, it>>
       \/ PushGoes("signal", "erase") /\ UNCHANGED <<message, it>>
       \/ PushGoes("erase", "idle") /\ message' = Nobody /\ it' = Nobody
    /\ UNCHANGED <<messages, waiters, answer, pushed, stray, waitVars>>

\* ... or end it.
Crash ==
    /\ Dangling /\ push' = "crashed"
    /\ UNCHANGED <<messages, waiters, answer, message, it, pushed, stray, waitVars>>

WaitStep(c) == Scan(c) \/ Emplace(c) \/ Arm(c) \/ Timeout(c) \/ Resume(c)
PushStep == Find \/ Store \/ Deliver \/ Signal \/ Erase \/ ReachesNothing

Next ==
    \/ \E c \in Calls : Begin(c) \/ Push(c)
    \/ \E c \in Calls : Scan(c) \/ Emplace(c) \/ Arm(c) \/ Timeout(c) \/ Resume(c)
    \/ Find \/ Store \/ Deliver \/ Signal \/ Erase
    \/ ReachesNothing \/ Crash

Spec == Init /\ [][Next]_vars

\* Both threads run and timers expire.
FairSpec ==
    /\ Spec
    /\ \A c \in Calls : SF_vars(WaitStep(c))
    /\ WF_vars(PushStep)

(***************************************************************************)
(* Properties                                                              *)
(***************************************************************************)
TypeOK ==
    /\ messages \in Seq(Calls)
    /\ waiters \in [Transactions -> Outcome]
    /\ wait \in [Calls -> WaitPC]
    /\ answer \in [Calls -> Outcome]
    /\ result \in [Calls -> Outcome \union {Nullopt}]
    /\ thread \in Outcome
    /\ push \in PushPC
    /\ message \in Outcome /\ it \in Outcome
    /\ pushed \subseteq Calls /\ stray \subseteq Calls

\* A call returns an outcome with its own transaction or none: the transaction
\* "identifying the message we are waiting for" (janus_response_buffer.hpp 51).  Only
\* what push wrote through an erased entry may end up with another.
OwnTransaction ==
    \A c \in Calls : result[c] \in Calls \ stray => TxOf[result[c]] = TxOf[c]

\* The map holds live waiters only: an entry whose call has returned would swallow
\* a later outcome.  Push and the wait both erase, each on its own thread.
NoDeadWaiter ==
    \A t \in Transactions :
        waiters[t] # Nobody =>
            wait[waiters[t]] \in {"arm", "waiting", "signalled", "timedout"}

\* How often an outcome is somewhere: with push, which has yet to decide; buffered;
\* held by a call that waits; returned; or lost with a call that had been handed it
\* and returned nothing, for its time-out came first or its signal was lost.
Times(m) == Cardinality({k \in DOMAIN messages : messages[k] = m})
UnderWay(m) == message = m /\ push \in {"find", "store", "deliver"}
Lost(m) == {c \in Calls : answer[c] = m /\ wait[c] = "returned" /\ result[c] # m}

Places(m) ==
    Times(m)
    + (IF UnderWay(m) THEN 1 ELSE 0)
    + Cardinality({c \in Calls : answer[c] = m /\ wait[c] # "returned"})
    + Cardinality({c \in Calls : result[c] = m})
    + Cardinality(Lost(m))

\* An outcome is never in two places: no two calls get it, and none gets what is
\* still buffered.  It is in none only if push wrote it through an erased entry; it
\* may yet be lost with the call that was handed it.
OutcomeInOnePlace ==
    \A m \in pushed : Places(m) <= 1 /\ (m \notin stray => Places(m) = 1)

\* Every wait ends, by its outcome or by its time-out, unless the program crashes.
WaitEnds == \A c \in Calls : wait[c] = "scan" ~> (wait[c] = "returned" \/ ~Alive)

\* The buffer implements a mailbox: an outcome is handed to one call at most, which
\* still waits, and a call returns what it was handed or nothing.
Box == INSTANCE Mailbox WITH
    sent <- pushed,
    astray <- stray,
    handed <- [c \in Calls |-> IF answer[c] = Nobody /\ result[c] \in Calls
                               THEN result[c] ELSE answer[c]],
    phase <- [c \in Calls |-> IF wait[c] \in {"idle", "returned"} THEN wait[c]
                              ELSE "waiting"]

ImplementsMailbox == Box!Spec
=============================================================================
