--------------------------- MODULE SessionHandler ---------------------------
(***************************************************************************)
(* session_handler and session_token: the vector of login tokens, the      *)
(* mutex that guards it, the thread that erases expired tokens, the flags  *)
(* and the condition variable through which it is woken, and the wall      *)
(* clock from which the age of a token is computed.                        *)
(*                                                                         *)
(* A call that runs wholly under mtx is one action.  The clean-up thread   *)
(* is one action per step at which another thread can interleave: the two  *)
(* flags and the condition variable are used WITHOUT the mutex.            *)
(***************************************************************************)
EXTENDS Naturals, Integers, FiniteSets

CONSTANTS Callers,      \* threads that call the handler
          Tokens,       \* the tokens generate_token can return (bounds the logins)
          Users,        \* owner identifiers
          Nullopt,      \* std::nullopt
          MaxSessions,  \* max_sessions
          MaxLife,      \* session_token::max_life_ms, in ticks
          Word,         \* 2^64, the width of life_ms
          MaxTime,      \* bound on the clock
          MaxStepBack   \* how far one adjustment sets the clock back (0: never)

ASSUME SetsAssumption ==
    /\ IsFiniteSet(Tokens)
    /\ Nullopt \notin Tokens \union Users \union BOOLEAN

ASSUME NumbersAssumption ==
    /\ MaxSessions \in Nat
    /\ MaxLife \in Nat \ {0}
    /\ MaxTime \in Nat
    /\ MaxStepBack \in Nat
    /\ Word \in Nat
    /\ MaxTime < Word /\ MaxLife < Word

VARIABLES sessions,         \* the tokens held by the vector
          owner_identifier, \* session_token::owner_identifier
          life_ms,          \* session_token::life_ms
          clean,            \* std::atomic<bool> clean
          panic_clean,      \* std::atomic<bool> panic_clean
          pc,               \* where each caller is
          cleaner,          \* where the clean-up thread is
          dtor,             \* where ~session_handler is
          now,              \* std::chrono::system_clock, in ticks
          reply,            \* what each caller's last call returned
          issued,           \* history: every token issued so far
          unswept           \* history: callers refused since the last sweep

vars == <<sessions, owner_identifier, life_ms, clean, panic_clean, pc,
          cleaner, dtor, now, reply, issued, unswept>>

CallerPC == {"idle", "refused", "panicking"}
CleanerPC == {"woken", "timedout", "test", "parking", "parked", "sweep",
              "clear", "done"}
DtorPC == {"alive", "stopping", "joining", "gone"}

\* Mutation of MutexFree: the flag is lowered after the lock has been left.
MutexFreeAtClear == cleaner \notin {"test", "parking", "sweep"}

\* The clean-up thread owns mtx at these steps; callers hold it only within
\* one action.
MutexFree == cleaner \notin {"test", "parking", "sweep", "clear"}

\* Mutation of Active: a token lives for one millisecond more.
ActiveInclusive(t) == (now - life_ms[t]) % Word <= MaxLife

\* session_token::is_active: the age is an unsigned difference.
Active(t) == (now - life_ms[t]) % Word < MaxLife

\* Mutation of HasRoom: the vector grows to one token more.
HasRoomInclusive == Cardinality(sessions) <= MaxSessions

HasRoom == Cardinality(sessions) < MaxSessions

Init ==
    /\ sessions = {} /\ issued = {}
    /\ owner_identifier = [t \in Tokens |-> Nullopt]
    /\ life_ms = [t \in Tokens |-> 0]
    /\ clean = TRUE /\ panic_clean = FALSE
    /\ pc = [c \in Callers |-> "idle"]
    /\ cleaner = "woken"
    /\ dtor = "alive"
    /\ now = 0
    /\ reply = [c \in Callers |-> Nullopt]
    /\ unswept = {}

(***************************************************************************)
(* The calls of the request handlers                                       *)
(***************************************************************************)
MayCall(c) == dtor = "alive" /\ pc[c] = "idle" /\ MutexFree

\* generate_token: two hashed random numbers, taken never to repeat.
FreshTokens == Tokens \ issued

NewSession(c, u) ==
    /\ MayCall(c)
    /\ HasRoom
    /\ \E t \in FreshTokens :
          /\ sessions' = sessions \union {t}
          /\ issued' = issued \union {t}
          /\ owner_identifier' = [owner_identifier EXCEPT ![t] = u]
          /\ life_ms' = [life_ms EXCEPT ![t] = now]
          /\ reply' = [reply EXCEPT ![c] = t]
    /\ UNCHANGED <<clean, panic_clean, pc, cleaner, dtor, now, unswept>>

\* The vector is full: mtx is released before the clean-up is asked for.
RefuseSession(c) ==
    /\ MayCall(c)
    /\ ~HasRoom
    /\ pc' = [pc EXCEPT ![c] = "refused"]
    /\ unswept' = unswept \union {c}
    /\ UNCHANGED <<sessions, owner_identifier, life_ms, clean, panic_clean,
                   cleaner, dtor, now, reply, issued>>

\* clean_inactive_sessions, first statement: no mutex is held.
RaisePanic(c) ==
    /\ pc[c] = "refused"
    /\ panic_clean' = TRUE
    /\ pc' = [pc EXCEPT ![c] = "panicking"]
    /\ UNCHANGED <<sessions, owner_identifier, life_ms, clean, cleaner, dtor,
                   now, reply, issued, unswept>>

\* notify_one and notify_all reach the clean-up thread only if it is parked.
Notified == IF cleaner = "parked" THEN "woken" ELSE cleaner

\* clean_inactive_sessions, second statement; new_session returns nullopt.
NotifyPanic(c) ==
    /\ pc[c] = "panicking"
    /\ cleaner' = Notified
    /\ pc' = [pc EXCEPT ![c] = "idle"]
    /\ reply' = [reply EXCEPT ![c] = Nullopt]
    /\ UNCHANGED <<sessions, owner_identifier, life_ms, clean, panic_clean,
                   dtor, now, issued, unswept>>

\* The token is in the vector and active.
FindToken(t) == t \in sessions /\ Active(t)

\* validate_session renews the token it finds active.
ValidateSession(c, t) ==
    /\ MayCall(c)
    /\ reply' = [reply EXCEPT ![c] = FindToken(t)]
    /\ life_ms' = IF FindToken(t) THEN [life_ms EXCEPT ![t] = now] ELSE life_ms
    /\ UNCHANGED <<sessions, owner_identifier, clean, panic_clean, pc, cleaner,
                   dtor, now, issued, unswept>>

\* get_username_by_token does not renew.
GetUsernameByToken(c, t) ==
    /\ MayCall(c)
    /\ reply' = [reply EXCEPT ![c] =
          IF FindToken(t) THEN owner_identifier[t] ELSE Nullopt]
    /\ UNCHANGED <<sessions, owner_identifier, life_ms, clean, panic_clean, pc,
                   cleaner, dtor, now, issued, unswept>>

(***************************************************************************)
(* cleanup_task: cv.wait_for with a predicate, the sweep, the loop         *)
(***************************************************************************)
CleanerGoes(from, to) == cleaner = from /\ cleaner' = to

\* Mutation of Relock: a thread that timed out looks at the predicate again.
RelockTests ==
    /\ cleaner \in {"woken", "timedout"} /\ cleaner' = "test"
    /\ UNCHANGED <<sessions, owner_identifier, life_ms, clean, panic_clean, pc,
                   dtor, now, reply, issued, unswept>>

\* A notified (or spuriously woken, or starting) thread locks mtx and tests
\* the predicate; one that timed out goes on whatever the predicate says.
Relock ==
    /\ CleanerGoes("woken", "test") \/ CleanerGoes("timedout", "sweep")
    /\ UNCHANGED <<sessions, owner_identifier, life_ms, clean, panic_clean, pc,
                   dtor, now, reply, issued, unswept>>

TestPredicate ==
    /\ IF ~clean \/ panic_clean THEN CleanerGoes("test", "sweep")
                                ELSE CleanerGoes("test", "parking")
    /\ UNCHANGED <<sessions, owner_identifier, life_ms, clean, panic_clean, pc,
                   dtor, now, reply, issued, unswept>>

\* Blocking releases mtx; a notification sent before this step is not seen.
Park ==
    /\ CleanerGoes("parking", "parked")
    /\ UNCHANGED <<sessions, owner_identifier, life_ms, clean, panic_clean, pc,
                   dtor, now, reply, issued, unswept>>

\* Mutation of Timeout: wait instead of wait_for.
WaitsForEver == FALSE

\* CLEANUP_INTERVAL_MS has passed.
Timeout ==
    /\ CleanerGoes("parked", "timedout")
    /\ UNCHANGED <<sessions, owner_identifier, life_ms, clean, panic_clean, pc,
                   dtor, now, reply, issued, unswept>>

SpuriousWake ==
    /\ CleanerGoes("parked", "woken")
    /\ UNCHANGED <<sessions, owner_identifier, life_ms, clean, panic_clean, pc,
                   dtor, now, reply, issued, unswept>>

Sweep ==
    /\ clean
    /\ CleanerGoes("sweep", "clear")
    /\ sessions' = {t \in sessions : Active(t)}
    /\ unswept' = {}
    /\ UNCHANGED <<owner_identifier, life_ms, clean, panic_clean, pc, dtor, now,
                   reply, issued>>

StopCleaning ==
    /\ ~clean
    /\ CleanerGoes("sweep", "done")
    /\ UNCHANGED <<sessions, owner_identifier, life_ms, clean, panic_clean, pc,
                   dtor, now, reply, issued, unswept>>

ClearPanic ==
    /\ CleanerGoes("clear", "test")
    /\ panic_clean' = FALSE
    /\ UNCHANGED <<sessions, owner_identifier, life_ms, clean, pc, dtor, now,
                   reply, issued, unswept>>

(***************************************************************************)
(* ~session_handler: no call is in progress or follows                     *)
(***************************************************************************)
Destroy ==
    /\ dtor = "alive"
    /\ \A c \in Callers : pc[c] = "idle"
    /\ clean' = FALSE
    /\ dtor' = "stopping"
    /\ UNCHANGED <<sessions, owner_identifier, life_ms, panic_clean, pc, cleaner,
                   now, reply, issued, unswept>>

NotifyDestroy ==
    /\ dtor = "stopping"
    /\ cleaner' = Notified
    /\ dtor' = "joining"
    /\ UNCHANGED <<sessions, owner_identifier, life_ms, clean, panic_clean, pc,
                   now, reply, issued, unswept>>

Join ==
    /\ dtor = "joining"
    /\ cleaner = "done"
    /\ dtor' = "gone"
    /\ UNCHANGED <<sessions, owner_identifier, life_ms, clean, panic_clean, pc,
                   cleaner, now, reply, issued, unswept>>

(***************************************************************************)
(* system_clock: it advances, and an adjustment may set it back            *)
(***************************************************************************)
Tick ==
    /\ now < MaxTime
    /\ now' = now + 1
    /\ UNCHANGED <<sessions, owner_identifier, life_ms, clean, panic_clean, pc,
                   cleaner, dtor, reply, issued, unswept>>

StepBack ==
    /\ \E d \in 1..MaxStepBack : d <= now /\ now' = now - d
    /\ UNCHANGED <<sessions, owner_identifier, life_ms, clean, panic_clean, pc,
                   cleaner, dtor, reply, issued, unswept>>

CallerStep(c) == RaisePanic(c) \/ NotifyPanic(c)
CleanerStep == Relock \/ TestPredicate \/ Park \/ Timeout \/ Sweep
                \/ StopCleaning \/ ClearPanic
DtorStep == NotifyDestroy \/ Join

Next ==
    \/ \E c \in Callers, u \in Users : NewSession(c, u)
    \/ \E c \in Callers : RefuseSession(c) \/ RaisePanic(c) \/ NotifyPanic(c)
    \/ \E c \in Callers, t \in Tokens :
          ValidateSession(c, t) \/ GetUsernameByToken(c, t)
    \/ Relock \/ TestPredicate \/ Park \/ Timeout \/ SpuriousWake
    \/ Sweep \/ StopCleaning \/ ClearPanic
    \/ Destroy \/ NotifyDestroy \/ Join
    \/ Tick \/ StepBack

Spec == Init /\ [][Next]_vars

\* Threads that can run do run, and the wait of the clean-up thread times out
\* even when it is woken spuriously again and again: wait_for with a predicate
\* waits until one fixed deadline (strong fairness of Timeout).
\* Nothing forces a call, the destructor or the clock.
FairSpec ==
    /\ Spec
    /\ \A c \in Callers : WF_vars(CallerStep(c))
    /\ WF_vars(CleanerStep)
    /\ SF_vars(Timeout)
    /\ WF_vars(DtorStep)

(***************************************************************************)
(* Properties                                                              *)
(***************************************************************************)
\* Types; the vector holds issued tokens only and never more than max_sessions.
TypeOK ==
    /\ sessions \subseteq issued /\ issued \subseteq Tokens
    /\ Cardinality(sessions) <= MaxSessions
    /\ owner_identifier \in [Tokens -> Users \union {Nullopt}]
    /\ life_ms \in [Tokens -> 0..MaxTime]
    /\ clean \in BOOLEAN /\ panic_clean \in BOOLEAN
    /\ pc \in [Callers -> CallerPC]
    /\ cleaner \in CleanerPC
    /\ dtor \in DtorPC
    /\ now \in 0..MaxTime
    /\ reply \in [Callers -> Tokens \union Users \union BOOLEAN \union {Nullopt}]
    /\ unswept \subseteq Callers

\* A refused login is never forgotten: when new_session has returned nullopt and
\* no sweep has run since the vector was found full, panic_clean is still up, so
\* the clean-up thread does not block again before it has swept.  The flag is
\* raised outside mtx and cleared by a thread that may be about to clear an
\* earlier request (session_handler.cpp 65-68 against 109).
RefusalRemembered ==
    \A c \in unswept : pc[c] = "idle" => panic_clean

\* The handler implements the abstract store: the ticks a token has left and its
\* owner are functions of the vector and the clock, and erasing is invisible.
LeftOf(t) == IF t \in sessions /\ Active(t) THEN MaxLife - (now - life_ms[t]) ELSE 0
OwnerOf(t) == IF t \in sessions /\ Active(t) THEN owner_identifier[t] ELSE Nullopt

Store == INSTANCE SessionStore WITH
            owner <- [t \in Tokens |-> OwnerOf(t)],
            left <- [t \in Tokens |-> LeftOf(t)]

ImplementsStore == Store!Spec

\* Every refused login is followed by a sweep, unless the handler is destroyed.
RefusalSwept == \A c \in Callers : c \in unswept ~> c \notin unswept \/ ~clean

\* An expired token is eventually erased, unless the clock is set back and it is
\* active again, or the handler is destroyed: the sweep of README 351, "a dedicated
\* cleanup thread that periodically removes expired/inactive sessions".
ExpiredErased ==
    \A t \in Tokens :
        (t \in sessions /\ ~Active(t)) ~> (t \notin sessions \/ Active(t) \/ ~clean)

\* The destructor returns whatever the clean-up thread was doing when clean was
\* lowered without the mutex: it never joins a thread that sleeps for ever.
JoinReturns == dtor = "stopping" ~> dtor = "gone"
=============================================================================
