---------------------------- MODULE RequestQueue ----------------------------
(***************************************************************************)
(* queue<T> as the server uses it, lock by lock: threads push requests, the *)
(* main thread waits in wait() and drains the queue in update().  mtx      *)
(* guards the deque, cv_mutex belongs to the condition variable, and       *)
(* push_back takes cv_mutex while it holds mtx.  The test that the queue   *)
(* is empty and the wait are NOT one critical section.                     *)
(***************************************************************************)
EXTENDS Naturals, Sequences

CONSTANTS Producers,    \* threads that call push_back
          Main,         \* the thread that waits and pops
          Free,         \* "no thread": an unlocked mutex
          MaxPush       \* bound on the items of one producer

ASSUME ThreadsAssumption ==
    Main \notin Producers /\ Free \notin Producers \union {Main}

ASSUME MaxPushAssumption == MaxPush \in Nat

VARIABLES q,            \* std::deque<T> q
          mtx,          \* the owner of mtx
          cv_mutex,     \* the owner of cv_mutex
          producer,     \* where each producer is in push_back
          main,         \* where the main thread is in update
          pushed,       \* how many items each producer has pushed
          popped        \* history: the items pop_front has returned

vars == <<q, mtx, cv_mutex, producer, main, pushed, popped>>

Items == Producers \X (1..MaxPush)
ProducerPC == {"idle", "pushed", "notifying"}
MainPC == {"test", "lock_cv", "blocking", "waiting", "notified", "drain", "pop"}

Init ==
    /\ q = <<>> /\ popped = <<>>
    /\ mtx = Free /\ cv_mutex = Free
    /\ producer = [p \in Producers |-> "idle"]
    /\ main = "test"
    /\ pushed = [p \in Producers |-> 0]

(***************************************************************************)
(* push_back                                                               *)
(***************************************************************************)
\* Mutation of NextItem: an item is pushed before it has its number.
StaleItem(p) == <<p, pushed[p]>>

\* The argument of push_back: the items of a producer are numbered.
NextItem(p) == <<p, pushed[p] + 1>>

PushLocked(p) ==
    /\ producer[p] = "idle" /\ pushed[p] < MaxPush
    /\ mtx = Free /\ mtx' = p
    /\ q' = Append(q, NextItem(p))
    /\ pushed' = [pushed EXCEPT ![p] = @ + 1]
    /\ producer' = [producer EXCEPT ![p] = "pushed"]
    /\ UNCHANGED <<cv_mutex, main, popped>>

PushLocksCv(p) ==
    /\ producer[p] = "pushed"
    /\ cv_mutex = Free /\ cv_mutex' = p
    /\ producer' = [producer EXCEPT ![p] = "notifying"]
    /\ UNCHANGED <<q, mtx, main, pushed, popped>>

\* Mutation of Notified: only a push into an empty queue notifies.
NotifiedIfFirst == IF main = "waiting" /\ Len(q) = 1 THEN "notified" ELSE main

\* notify_one finds the main thread only if it waits; then both locks go.
Notified == IF main = "waiting" THEN "notified" ELSE main

PushNotifies(p) ==
    /\ producer[p] = "notifying"
    /\ main' = Notified
    /\ cv_mutex' = Free /\ mtx' = Free
    /\ producer' = [producer EXCEPT ![p] = "idle"]
    /\ UNCHANGED <<q, pushed, popped>>

(***************************************************************************)
(* update(-1, true) on the main thread                                     *)
(***************************************************************************)
MainGoes(from, to) == main = from /\ main' = to

\* while (is_empty()) in wait(): takes and leaves mtx.
WaitTests ==
    /\ mtx = Free
    /\ MainGoes("test", IF q = <<>> THEN "lock_cv" ELSE "drain")
    /\ UNCHANGED <<q, mtx, cv_mutex, producer, pushed, popped>>

WaitLocksCv ==
    /\ MainGoes("lock_cv", "blocking")
    /\ cv_mutex = Free /\ cv_mutex' = Main
    /\ UNCHANGED <<q, mtx, producer, pushed, popped>>

\* Mutation of WaitBlocks: the wait keeps its lock.
WaitBlocksLocked ==
    /\ MainGoes("blocking", "waiting")
    /\ UNCHANGED <<q, mtx, cv_mutex, producer, pushed, popped>>

\* cv.wait(ul): there is no predicate, the queue is not looked at again.
WaitBlocks ==
    /\ MainGoes("blocking", "waiting")
    /\ cv_mutex' = Free
    /\ UNCHANGED <<q, mtx, producer, pushed, popped>>

SpuriousWake ==
    /\ MainGoes("waiting", "notified")
    /\ UNCHANGED <<q, mtx, cv_mutex, producer, pushed, popped>>

\* cv.wait locks cv_mutex again, and the end of the loop body unlocks it.
WaitReturns ==
    /\ MainGoes("notified", "test")
    /\ cv_mutex = Free
    /\ UNCHANGED <<q, mtx, cv_mutex, producer, pushed, popped>>

\* Mutation of AfterDrainTest: pop first, test afterwards.
PopUntested == "pop"

AfterDrainTest == IF q = <<>> THEN "test" ELSE "pop"

\* while (... && !requests.is_empty()) in update().
DrainTests ==
    /\ mtx = Free
    /\ MainGoes("drain", AfterDrainTest)
    /\ UNCHANGED <<q, mtx, cv_mutex, producer, pushed, popped>>

\* Mutation of PopFront: the item pushed last is popped.
PopBack ==
    /\ mtx = Free
    /\ MainGoes("pop", "drain")
    /\ q' = SubSeq(q, 1, Len(q) - 1) /\ popped' = Append(popped, q[Len(q)])
    /\ UNCHANGED <<mtx, cv_mutex, producer, pushed>>

\* pop_front takes mtx again after is_empty has left it.
PopFront ==
    /\ mtx = Free
    /\ MainGoes("pop", "drain")
    /\ q' = Tail(q) /\ popped' = Append(popped, Head(q))
    /\ UNCHANGED <<mtx, cv_mutex, producer, pushed>>

Push(p) == PushLocked(p) \/ PushLocksCv(p) \/ PushNotifies(p)
Update == WaitTests \/ WaitLocksCv \/ WaitBlocks \/ WaitReturns
          \/ DrainTests \/ PopFront

Next ==
    \/ \E p \in Producers : PushLocked(p) \/ PushLocksCv(p) \/ PushNotifies(p)
    \/ WaitTests \/ WaitLocksCv \/ WaitBlocks \/ SpuriousWake \/ WaitReturns
    \/ DrainTests \/ PopFront

Spec == Init /\ [][Next]_vars

\* Threads run; a mutex that is free again and again is eventually obtained;
\* nobody is obliged to push, and no spurious wake-up may be relied on.
FairSpec ==
    /\ Spec
    /\ SF_vars(Update)
    /\ \A p \in Producers : SF_vars(PushLocksCv(p)) /\ WF_vars(PushNotifies(p))

(***************************************************************************)
(* Properties                                                              *)
(***************************************************************************)
TypeOK ==
    /\ q \in Seq(Items) /\ popped \in Seq(Items)
    /\ mtx \in Producers \union {Free}
    /\ cv_mutex \in Producers \union {Main, Free}
    /\ producer \in [Producers -> ProducerPC]
    /\ main \in MainPC
    /\ pushed \in [Producers -> 0..MaxPush]

\* front and pop_front on an empty deque are undefined: between is_empty and
\* pop_front, two separate critical sections, nobody else may take the item.
NeverPopsEmpty == main = "pop" => q # <<>>

\* Whoever is between the push and the return of push_back holds mtx, and the
\* holder of cv_mutex is where the code says: the two locks are always taken in
\* the order mtx, cv_mutex, or cv_mutex alone.
LockOwners ==
    /\ \A p \in Producers : producer[p] # "idle" <=> mtx = p
    /\ \A p \in Producers : producer[p] = "notifying" <=> cv_mutex = p
    /\ main = "blocking" <=> cv_mutex = Main

\* Nothing is lost, repeated or reordered on the way through the two locks.
Requests == INSTANCE Channel WITH log <- popped \o q, taken <- Len(popped)

ImplementsChannel == Requests!Spec

\* push_back always returns: the nested lock is never part of a cycle.
PushReturns == \A p \in Producers : producer[p] = "pushed" ~> producer[p] = "idle"

In(i, s) == \E k \in DOMAIN s : s[k] = i

\* A request that is missed between the test and the wait of wait() (93-94) is the
\* only one that stays: one queued while the main thread is anywhere else, or while
\* a push meets it waiting, is popped, with all that were missed before it.
PulledUnlessMissed ==
    \A i \in Items :
        (/\ In(i, q) /\ main \notin {"lock_cv", "blocking"}
         /\ main = "waiting" => \E p \in Producers : producer[p] # "idle")
        ~> In(i, popped)

\* "Incoming requests are pulled from a shared queue" (README 346): a queued
\* request is popped.
QueuedIsPulled ==
    \A i \in Items : In(i, q) ~> In(i, popped)
=============================================================================
