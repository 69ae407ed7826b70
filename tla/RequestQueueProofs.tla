------------------------- MODULE RequestQueueProofs -------------------------
(***************************************************************************)
(* Theorems about the queue, for every number of producers and items.      *)
(***************************************************************************)
EXTENDS RequestQueue, SequenceTheorems, TLAPS

(***************************************************************************)
(* The state is well typed                                                 *)
(***************************************************************************)
LEMMA InitTypeOK == Init => TypeOK
BY ThreadsAssumption, MaxPushAssumption, EmptySeq
   DEF Init, TypeOK, ProducerPC, MainPC

LEMMA PushLockedTypeOK ==
    ASSUME TypeOK, NEW p \in Producers, PushLocked(p)
    PROVE  TypeOK'
<1>1. pushed[p] + 1 \in 1..MaxPush /\ pushed[p] + 1 \in 0..MaxPush
    BY MaxPushAssumption DEF TypeOK, PushLocked
<1>2. NextItem(p) \in Items
    BY <1>1 DEF NextItem, Items
<1>3. q' \in Seq(Items)
    BY <1>2, AppendProperties DEF PushLocked, TypeOK
<1> QED BY <1>1, <1>3 DEF PushLocked, TypeOK, ProducerPC

LEMMA PopFrontTypeOK ==
    ASSUME TypeOK, NeverPopsEmpty, PopFront
    PROVE  TypeOK'
<1>1. q \in Seq(Items) /\ q # <<>> /\ popped \in Seq(Items)
    BY DEF PopFront, MainGoes, NeverPopsEmpty, TypeOK
<1>2. Head(q) \in Items /\ Tail(q) \in Seq(Items)
    BY <1>1, HeadTailProperties
<1>3. popped' \in Seq(Items) /\ q' \in Seq(Items)
    BY <1>1, <1>2, AppendProperties DEF PopFront
<1> QED BY <1>3 DEF PopFront, MainGoes, TypeOK, MainPC

\* An empty deque has no front, so the types rest on NeverPopsEmpty.
LEMMA NextTypeOK == TypeOK /\ NeverPopsEmpty /\ [Next]_vars => TypeOK'
<1> SUFFICES ASSUME TypeOK, NeverPopsEmpty, [Next]_vars PROVE TypeOK'
    OBVIOUS
<1>1. ASSUME NEW p \in Producers, PushLocked(p) PROVE TypeOK'
    BY <1>1, PushLockedTypeOK
<1> USE DEF TypeOK
<1>2. ASSUME NEW p \in Producers, PushLocksCv(p) \/ PushNotifies(p)
      PROVE  TypeOK'
    BY <1>2 DEF PushLocksCv, PushNotifies, Notified, ProducerPC, MainPC
<1>3. CASE WaitTests \/ WaitLocksCv \/ WaitBlocks \/ SpuriousWake \/ WaitReturns
           \/ DrainTests
    BY <1>3 DEF WaitTests, WaitLocksCv, WaitBlocks, SpuriousWake, WaitReturns,
                DrainTests, AfterDrainTest, MainGoes, MainPC
<1>4. CASE PopFront
    BY <1>4, PopFrontTypeOK
<1>5. CASE UNCHANGED vars
    BY <1>5 DEF vars
<1> QED BY <1>1, <1>2, <1>3, <1>4, <1>5 DEF Next

(***************************************************************************)
(* The main thread alone takes items                                       *)
(***************************************************************************)
LEMMA NextNeverPopsEmpty ==
    TypeOK /\ NeverPopsEmpty /\ [Next]_vars => NeverPopsEmpty'
<1> SUFFICES ASSUME TypeOK, NeverPopsEmpty, [Next]_vars PROVE NeverPopsEmpty'
    OBVIOUS
<1> USE DEF NeverPopsEmpty
<1>1. ASSUME NEW p \in Producers, PushLocked(p) PROVE NeverPopsEmpty'
    <2>1. NextItem(p) \in Items
        BY <1>1, MaxPushAssumption DEF TypeOK, PushLocked, NextItem, Items
    <2>2. Append(q, NextItem(p)) # <<>>
        BY <2>1, AppendProperties DEF TypeOK
    <2> QED BY <1>1, <2>2 DEF PushLocked
<1>2. ASSUME NEW p \in Producers, PushLocksCv(p) \/ PushNotifies(p)
      PROVE  NeverPopsEmpty'
    BY <1>2 DEF PushLocksCv, PushNotifies, Notified
<1>3. CASE WaitTests \/ WaitLocksCv \/ WaitBlocks \/ SpuriousWake \/ WaitReturns
           \/ DrainTests
    BY <1>3 DEF WaitTests, WaitLocksCv, WaitBlocks, SpuriousWake, WaitReturns,
                DrainTests, AfterDrainTest, MainGoes
<1>4. CASE PopFront
    BY <1>4 DEF PopFront, MainGoes
<1>5. CASE UNCHANGED vars
    BY <1>5 DEF vars
<1> QED BY <1>1, <1>2, <1>3, <1>4, <1>5 DEF Next

LEMMA TypeAndNonempty == Spec => [](TypeOK /\ NeverPopsEmpty)
<1>1. Init => TypeOK /\ NeverPopsEmpty
    BY InitTypeOK DEF Init, NeverPopsEmpty
<1> QED BY <1>1, NextTypeOK, NextNeverPopsEmpty, PTL DEF Spec

THEOREM TypeCorrect == Spec => []TypeOK
BY TypeAndNonempty, PTL

\* front() and pop_front() are never called on an empty deque, although is_empty
\* and pop_front are two critical sections (update, lines 88-89).
THEOREM PopsAreSafe == Spec => []NeverPopsEmpty
BY TypeAndNonempty, PTL

(***************************************************************************)
(* The two mutexes                                                         *)
(***************************************************************************)
LEMMA NextLockOwners == TypeOK /\ LockOwners /\ [Next]_vars => LockOwners'
<1> SUFFICES ASSUME TypeOK, LockOwners, [Next]_vars PROVE LockOwners'
    OBVIOUS
<1> USE ThreadsAssumption DEF LockOwners, TypeOK
<1>1. ASSUME NEW p \in Producers, PushLocked(p) PROVE LockOwners'
    BY <1>1 DEF PushLocked
<1>2. ASSUME NEW p \in Producers, PushLocksCv(p) PROVE LockOwners'
    BY <1>2 DEF PushLocksCv
<1>3. ASSUME NEW p \in Producers, PushNotifies(p) PROVE LockOwners'
    <2>1. mtx = p /\ cv_mutex = p
        BY <1>3 DEF PushNotifies, Notified
    <2>2. main # "blocking" /\ main' # "blocking"
        BY <1>3, <2>1 DEF PushNotifies, Notified
    <2> QED BY <1>3, <2>1, <2>2 DEF PushNotifies, Notified
<1>4. CASE WaitTests \/ SpuriousWake \/ WaitReturns \/ DrainTests \/ PopFront
    BY <1>4 DEF WaitTests, SpuriousWake, WaitReturns, DrainTests, AfterDrainTest,
                PopFront, MainGoes
<1>5. CASE WaitLocksCv
    BY <1>5 DEF WaitLocksCv, MainGoes
<1>6. CASE WaitBlocks
    BY <1>6 DEF WaitBlocks, MainGoes
<1>7. CASE UNCHANGED vars
    BY <1>7 DEF vars
<1> QED BY <1>1, <1>2, <1>3, <1>4, <1>5, <1>6, <1>7 DEF Next

\* The locks are where the code says they are: mtx from push to return, cv_mutex
\* nested in it or, on the main thread, alone.  No cycle of waits is possible.
THEOREM LocksAreNested == Spec => []LockOwners
<1>1. Init => LockOwners
    BY ThreadsAssumption DEF Init, LockOwners
<1> QED BY <1>1, NextLockOwners, TypeCorrect, PTL DEF Spec

(***************************************************************************)
(* The queue implements the channel                                        *)
(***************************************************************************)
LEMMA InitRefines == Init => Requests!Init
<1> SUFFICES ASSUME Init PROVE Requests!Init
    OBVIOUS
<1>1. popped \o q = <<>> /\ Len(popped) = 0
    BY EmptySeq, ConcatEmptySeq DEF Init
<1> QED BY <1>1 DEF Requests!Init

LEMMA PushRefines ==
    ASSUME TypeOK, NEW p \in Producers, PushLocked(p)
    PROVE  Requests!Put(NextItem(p)) /\ NextItem(p) \in Items
<1>1. NextItem(p) \in Items
    BY MaxPushAssumption DEF TypeOK, PushLocked, NextItem, Items
<1>2. q \in Seq(Items) /\ popped \in Seq(Items)
    BY DEF TypeOK
<1>3. popped' = popped /\ q' = Append(q, NextItem(p))
    BY DEF PushLocked
<1>4. popped \o Append(q, NextItem(p)) = Append(popped \o q, NextItem(p))
    <2>1. <<NextItem(p)>> \in Seq(Items)
        BY <1>1
    <2>2. popped \o q \in Seq(Items)
        BY <1>2, ConcatProperties
    <2>3. Append(q, NextItem(p)) = q \o <<NextItem(p)>>
          /\ Append(popped \o q, NextItem(p)) = (popped \o q) \o <<NextItem(p)>>
        BY <1>1, <1>2, <2>2, AppendIsConcat
    <2> QED BY <1>2, <2>1, <2>3, ConcatAssociative
<1> QED BY <1>1, <1>3, <1>4 DEF Requests!Put

LEMMA PopRefines ==
    ASSUME TypeOK, NeverPopsEmpty, PopFront
    PROVE  Requests!Take
<1>1. q \in Seq(Items) /\ popped \in Seq(Items) /\ q # <<>>
    BY DEF TypeOK, PopFront, MainGoes, NeverPopsEmpty
<1>2. Head(q) \in Items /\ Tail(q) \in Seq(Items) /\ Len(Tail(q)) = Len(q) - 1
      /\ Len(q) \in Nat \ {0} /\ Len(popped) \in Nat
    BY <1>1, HeadTailProperties, EmptySeq, LenProperties
<1>3. popped' = Append(popped, Head(q)) /\ q' = Tail(q)
    BY DEF PopFront
<1>4. Len(popped') = Len(popped) + 1
    BY <1>1, <1>2, <1>3, AppendProperties
<1>5. Len(popped) < Len(popped \o q)
    BY <1>1, <1>2, ConcatProperties
<1>6. popped' \o q' = popped \o q
    <2>1. <<Head(q)>> \in Seq(Items)
        BY <1>2
    <2>2. popped' = popped \o <<Head(q)>>
        BY <1>1, <1>2, <1>3, AppendIsConcat
    <2>3. <<Head(q)>> \o Tail(q) = q
        BY <1>1, <1>2
    <2> QED BY <1>1, <1>2, <1>3, <2>1, <2>2, <2>3, ConcatAssociative
<1> QED BY <1>4, <1>5, <1>6 DEF Requests!Take

LEMMA NextRefines ==
    TypeOK /\ NeverPopsEmpty /\ [Next]_vars
        => [Requests!Next]_<<popped \o q, Len(popped)>>
<1> SUFFICES ASSUME TypeOK, NeverPopsEmpty, [Next]_vars
             PROVE  [Requests!Next]_<<popped \o q, Len(popped)>>
    OBVIOUS
<1>1. ASSUME NEW p \in Producers, PushLocked(p) PROVE Requests!Next
    BY <1>1, PushRefines DEF Requests!Next
<1>2. CASE PopFront
    BY <1>2, PopRefines DEF Requests!Next
<1>3. ASSUME NEW p \in Producers, PushLocksCv(p) \/ PushNotifies(p)
      PROVE  UNCHANGED <<popped, q>>
    BY <1>3 DEF PushLocksCv, PushNotifies
<1>4. CASE WaitTests \/ WaitLocksCv \/ WaitBlocks \/ SpuriousWake \/ WaitReturns
           \/ DrainTests \/ UNCHANGED vars
    <2>1. UNCHANGED <<popped, q>>
        BY <1>4 DEF WaitTests, WaitLocksCv, WaitBlocks, SpuriousWake,
                    WaitReturns, DrainTests, vars
    <2> QED BY <2>1
<1> QED BY <1>1, <1>2, <1>3, <1>4 DEF Next

\* Every item pushed comes out once, in the order of the pushes: what pop_front
\* has returned followed by the deque is everything ever pushed.
THEOREM QueueImplementsChannel == Spec => ImplementsChannel
BY InitRefines, NextRefines, TypeAndNonempty, PTL
   DEF Spec, ImplementsChannel, Requests!Spec
=============================================================================
