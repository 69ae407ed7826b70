------------------------ MODULE ResponseBufferProofs ------------------------
(***************************************************************************)
(* Theorems about the response buffer, for every number of calls and every *)
(* assignment of transactions to them.                                     *)
(***************************************************************************)
EXTENDS ResponseBuffer, SequenceTheorems, FiniteSetTheorems, TLAPS

(***************************************************************************)
(* Sequences of messages                                                   *)
(***************************************************************************)
LEMMA Removed ==
    ASSUME NEW S, NEW s \in Seq(S), NEW k \in DOMAIN s
    PROVE  /\ RemoveAt(s, k) \in Seq(S) /\ s[k] \in S
           /\ DOMAIN RemoveAt(s, k) = 1..(Len(s) - 1)
           /\ \A j \in DOMAIN RemoveAt(s, k) :
                 /\ j \in Int
                 /\ (IF j < k THEN j ELSE j + 1) \in DOMAIN s
                 /\ RemoveAt(s, k)[j] = s[IF j < k THEN j ELSE j + 1]
<1> DEFINE front == SubSeq(s, 1, k - 1)
           back == SubSeq(s, k + 1, Len(s))
<1>1. /\ Len(s) \in Nat /\ DOMAIN s = 1..Len(s) /\ k \in 1..Len(s)
      /\ \A i \in 1..Len(s) : s[i] \in S
    BY LenProperties, ElementOfSeq
<1>2. /\ front \in Seq(S) /\ Len(front) = k - 1
      /\ \A i \in 1..(k - 1) : front[i] = s[i]
    <2>1. 1 \in Int /\ k - 1 \in Int /\ \A i \in 1..(k - 1) : s[i] \in S
        BY <1>1
    <2>2. /\ front \in Seq(S)
          /\ Len(front) = IF 1 <= k - 1 THEN (k - 1) - 1 + 1 ELSE 0
          /\ \A i \in 1..((k - 1) - 1 + 1) : front[i] = s[1 + i - 1]
        BY <2>1, SubSeqProperties
    <2> QED BY <1>1, <2>2
<1>3. /\ back \in Seq(S) /\ Len(back) = Len(s) - k
      /\ \A i \in 1..(Len(s) - k) : back[i] = s[k + i]
    <2>1. k + 1 \in Int /\ Len(s) \in Int /\ \A i \in (k + 1)..Len(s) : s[i] \in S
        BY <1>1
    <2>2. /\ back \in Seq(S)
          /\ Len(back) = IF k + 1 <= Len(s) THEN Len(s) - (k + 1) + 1 ELSE 0
          /\ \A i \in 1..(Len(s) - (k + 1) + 1) : back[i] = s[(k + 1) + i - 1]
        BY <2>1, SubSeqProperties
    <2>3. Len(back) = Len(s) - k /\ Len(s) - (k + 1) + 1 = Len(s) - k
        BY <1>1, <2>2
    <2>4. ASSUME NEW i \in 1..(Len(s) - k)
          PROVE  back[i] = s[k + i]
        <3>1. (k + 1) + i - 1 = k + i
            BY <1>1
        <3> QED BY <2>2, <2>3, <3>1
    <2> QED BY <2>2, <2>3, <2>4
<1> HIDE DEF front, back
<1>4. /\ front \o back \in Seq(S) /\ Len(front \o back) = Len(s) - 1
      /\ \A i \in 1..(Len(s) - 1) :
            (front \o back)[i] = IF i <= k - 1 THEN front[i] ELSE back[i - (k - 1)]
    <2>1. /\ front \o back \in Seq(S) /\ Len(front \o back) = Len(front) + Len(back)
          /\ \A i \in 1..(Len(front) + Len(back)) :
                (front \o back)[i] = IF i <= Len(front) THEN front[i] ELSE back[i - Len(front)]
        BY <1>2, <1>3, ConcatProperties
    <2>2. Len(front) + Len(back) = Len(s) - 1 /\ Len(front) = k - 1
        BY <1>1, <1>2, <1>3
    <2> QED BY <2>1, <2>2
<1>5. RemoveAt(s, k) = front \o back
    BY DEF RemoveAt, front, back
<1> DEFINE new == RemoveAt(s, k)
<1> HIDE DEF new
<1>6. new \in Seq(S) /\ DOMAIN new = 1..(Len(s) - 1)
    BY <1>4, <1>5, LenProperties DEF new
<1>7. ASSUME NEW j \in 1..(Len(s) - 1)
      PROVE  /\ (IF j < k THEN j ELSE j + 1) \in DOMAIN s
             /\ new[j] = s[IF j < k THEN j ELSE j + 1]
    <2>1. CASE j < k
        <3>1. j <= k - 1 /\ j \in 1..(k - 1) /\ j \in DOMAIN s
            BY <1>1, <2>1
        <3> QED BY <1>2, <1>4, <1>5, <2>1, <3>1 DEF new
    <2>2. CASE ~(j < k)
        <3>1. ~(j <= k - 1) /\ j - (k - 1) \in 1..(Len(s) - k) /\ j + 1 \in DOMAIN s
            BY <1>1, <2>2
        <3>2. new[j] = back[j - (k - 1)]
            BY <1>4, <1>5, <3>1 DEF new
        <3>3. k + (j - (k - 1)) = j + 1
            BY <1>1
        <3>4. back[j - (k - 1)] = s[j + 1]
            BY <1>3, <3>1, <3>3
        <3> QED BY <2>2, <3>1, <3>2, <3>4
    <2> QED BY <2>1, <2>2
<1>8. \A j \in DOMAIN new : /\ j \in Int
                            /\ (IF j < k THEN j ELSE j + 1) \in DOMAIN s
                            /\ new[j] = s[IF j < k THEN j ELSE j + 1]
    BY <1>1, <1>6, <1>7
<1> QED BY <1>1, <1>6, <1>8 DEF new

LEMMA Added ==
    ASSUME NEW S, NEW s \in Seq(S), NEW e \in S
    PROVE  /\ Append(s, e) \in Seq(S)
           /\ \A k \in DOMAIN Append(s, e) :
                 \/ k \in DOMAIN s /\ Append(s, e)[k] = s[k]
                 \/ k = Len(s) + 1 /\ Append(s, e)[k] = e
<1>1. /\ Append(s, e) \in Seq(S)
      /\ Len(Append(s, e)) = Len(s) + 1
      /\ \A k \in 1..Len(s) : Append(s, e)[k] = s[k]
      /\ Append(s, e)[Len(s) + 1] = e
    BY AppendProperties
<1>2. Len(s) \in Nat /\ DOMAIN s = 1..Len(s) /\ DOMAIN Append(s, e) = 1..(Len(s) + 1)
    BY <1>1, LenProperties
<1> QED BY <1>1, <1>2

(***************************************************************************)
(* Types and transactions                                                  *)
(***************************************************************************)
\* TypeOK in two parts: what the waits keep, and what push does.
WaitType ==
    /\ waiters \in [Transactions -> Outcome]
    /\ wait \in [Calls -> WaitPC]
    /\ answer \in [Calls -> Outcome]
    /\ result \in [Calls -> Outcome \union {Nullopt}]
    /\ thread \in Outcome

PushType ==
    /\ messages \in Seq(Calls)
    /\ push \in PushPC
    /\ message \in Outcome /\ it \in Outcome
    /\ pushed \subseteq Calls /\ stray \subseteq Calls

LEMMA Types == TypeOK <=> WaitType /\ PushType
BY DEF TypeOK, WaitType, PushType

\* What push holds: an outcome, and in its second half a waiter, whose entry stands and
\* is the outcome's unless the outcome went astray.
PushInv ==
    /\ push # "idle" => message \in pushed
    /\ push \in {"deliver", "signal", "erase"} => it \in Calls
    /\ push = "deliver" /\ message \notin stray =>
          waiters[TxOf[it]] = it /\ TxOf[it] = TxOf[message]
    /\ stray \subseteq pushed

\* A waiter is registered under its own transaction, and answered with it but for what
\* went astray.
TransactionInv ==
    /\ \A t \in Transactions : waiters[t] # Nobody => TxOf[waiters[t]] = t
    /\ \A c \in Calls : answer[c] \notin stray \union {Nobody} => TxOf[answer[c]] = TxOf[c]

WaiterInv ==
    WaitType /\ PushType /\ PushInv /\ TransactionInv /\ OwnTransaction /\ NoDeadWaiter

LEMMA InitWaiterInv == Init => WaiterInv
<1> SUFFICES ASSUME Init PROVE WaiterInv
    OBVIOUS
<1>1. WaitType /\ TransactionInv /\ OwnTransaction /\ NoDeadWaiter
    BY BufferAssumption
       DEF Init, WaitType, TransactionInv, OwnTransaction, NoDeadWaiter, Outcome, WaitPC
<1>2. PushType
    BY EmptySeq DEF Init, PushType, PushPC, Outcome
<1>3. PushInv
    BY DEF Init, PushInv
<1> QED BY <1>1, <1>2, <1>3 DEF WaiterInv

\* The steps of a wait leave push where it is.
LEMMA BeginWaiterInv ==
    ASSUME WaiterInv, NEW c \in Calls, Begin(c) \/ Arm(c) \/ Timeout(c)
    PROVE  WaiterInv'
<1> USE DEF WaiterInv
<1>1. /\ wait[c] \in {"idle", "arm", "waiting"}
      /\ wait' = [wait EXCEPT ![c] = CASE wait[c] = "idle" -> "scan"
                                       [] wait[c] = "arm" -> "waiting"
                                       [] OTHER -> "timedout"]
    BY DEF Begin, Arm, Timeout, WaitGoes
<1>2. WaitType'
    BY <1>1 DEF Begin, Arm, Timeout, WaitType, Outcome, WaitPC
<1>3. PushType' /\ PushInv' /\ TransactionInv' /\ OwnTransaction'
    BY DEF Begin, Arm, Timeout, PushType, PushInv, TransactionInv, OwnTransaction, pushVars
<1>4. NoDeadWaiter'
    BY <1>1 DEF Begin, Arm, Timeout, NoDeadWaiter, WaitType, Outcome
<1> QED BY <1>2, <1>3, <1>4

LEMMA ScanWaiterInv ==
    ASSUME WaiterInv, NEW c \in Calls, Scan(c)
    PROVE  WaiterInv'
<1> USE DEF WaiterInv
<1>1. wait[c] = "scan"
    BY DEF Scan
<1>2. PushInv' /\ TransactionInv'
    BY DEF Scan, PushInv, TransactionInv, pushVars
<1>3. NoDeadWaiter'
    <2>1. \A t \in Transactions : waiters[t] # Nobody => waiters[t] \in Calls /\ waiters[t] # c
        BY <1>1 DEF WaitType, Outcome, NoDeadWaiter
    <2>2. \A d \in Calls : d # c => wait'[d] = wait[d]
        BY DEF Scan, WaitGoes, Return, WaitType
    <2> QED BY <2>1, <2>2 DEF Scan, NoDeadWaiter
<1>4. CASE Matching(c) = {}
    <2>1. WaitType' /\ PushType' /\ OwnTransaction'
        BY <1>4 DEF Scan, WaitGoes, WaitType, PushType, OwnTransaction, WaitPC, pushVars
    <2> QED BY <1>2, <1>3, <2>1
<1>5. CASE Matching(c) # {}
    <2>1. PICK k \in Matching(c) : messages' = Without(k) /\ Return(c, messages[k])
        BY <1>5 DEF Scan
    <2>2. k \in DOMAIN messages /\ TxOf[messages[k]] = TxOf[c]
        BY DEF Matching
    <2>3. messages' \in Seq(Calls) /\ messages[k] \in Calls
        BY <2>1, <2>2, Removed DEF Without, PushType
    <2>4. WaitType'
        BY <2>1, <2>3 DEF Scan, Return, WaitType, Outcome, WaitPC
    <2>5. PushType'
        BY <2>3 DEF Scan, PushType, pushVars
    <2>6. OwnTransaction'
        BY <2>1, <2>2 DEF Scan, Return, OwnTransaction, WaitType, pushVars
    <2> QED BY <1>2, <1>3, <2>4, <2>5, <2>6
<1> QED BY <1>4, <1>5

LEMMA EmplaceWaiterInv ==
    ASSUME WaiterInv, NEW c \in Calls, Emplace(c)
    PROVE  WaiterInv'
<1> USE DEF WaiterInv
<1>1. TxOf[c] \in Transactions
    BY BufferAssumption
\* An iterator that stands on an entry is not given to a new waiter.
<1>2. PushType' /\ PushInv'
    <2>1. it' \in {it, c} /\ (it' # it => Dangling)
          /\ UNCHANGED <<messages, push, message, pushed, stray>>
        BY DEF Emplace
    <2>2. \/ waiters' = waiters
          \/ waiters[TxOf[c]] = Nobody /\ waiters' = [waiters EXCEPT ![TxOf[c]] = c]
        BY DEF Emplace
    <2>3. PushType'
        BY <2>1 DEF PushType, Outcome
    <2>4. push = "deliver" /\ message \notin stray => it' = it /\ waiters'[TxOf[it]] = it
        BY <1>1, <2>1, <2>2, BufferAssumption DEF PushInv, Dangling, WaitType
    <2> QED BY <2>1, <2>3, <2>4 DEF PushInv
<1>3. CASE waiters[TxOf[c]] = Nobody
    BY <1>1, <1>2, <1>3 DEF Emplace, WaitGoes, WaitType, TransactionInv, OwnTransaction,
                            NoDeadWaiter, Outcome, WaitPC
<1>4. CASE waiters[TxOf[c]] # Nobody
    <2>1. /\ wait[c] = "emplace" /\ wait' = [wait EXCEPT ![c] = "returned"]
          /\ result' = [result EXCEPT ![c] = Nullopt] /\ thread' = Nobody
          /\ waiters' = waiters /\ answer' = answer /\ stray' = stray
        BY <1>4 DEF Emplace, Return
    <2>2. WaitType' /\ TransactionInv'
        BY <2>1 DEF WaitType, TransactionInv, Outcome, WaitPC
    <2>3. OwnTransaction'
        BY <2>1, BufferAssumption DEF WaitType, OwnTransaction
    <2>4. NoDeadWaiter'
        BY <2>1 DEF WaitType, NoDeadWaiter, Outcome
    <2> QED BY <1>2, <2>2, <2>3, <2>4
<1> QED BY <1>3, <1>4

\* Whosever entry the wait erases, its own is gone when it has returned.
LEMMA ResumeWaiterInv ==
    ASSUME WaiterInv, NEW c \in Calls, Resume(c)
    PROVE  WaiterInv'
<1> USE DEF WaiterInv
<1>1. TxOf[c] \in Transactions
    BY BufferAssumption
<1>2. /\ waiters' = [waiters EXCEPT ![TxOf[c]] = Nobody]
      /\ wait' = [wait EXCEPT ![c] = "returned"]
      /\ thread' = Nobody /\ answer' = answer
      /\ \/ result' = [result EXCEPT ![c] = Nullopt]
         \/ answer[c] # Nobody /\ result' = [result EXCEPT ![c] = answer[c]]
    BY DEF Resume, WithoutWaiter, Return
<1>3. /\ stray' = IF push = "deliver" /\ waiters'[TxOf[it]] # it
                  THEN stray \union {message} ELSE stray
      /\ UNCHANGED <<messages, push, message, it, pushed>>
    BY DEF Resume
<1>8. stray \subseteq stray' /\ stray' \subseteq pushed
    BY <1>3 DEF PushInv
<1>9. PushType' /\ PushInv'
    BY <1>3, <1>8 DEF PushType, PushInv
<1>4. WaitType'
    BY <1>1, <1>2 DEF WaitType, Outcome, WaitPC
<1>5. TransactionInv'
    BY <1>1, <1>2, <1>8 DEF WaitType, TransactionInv
<1>6. OwnTransaction'
    BY <1>2, <1>8, BufferAssumption DEF WaitType, TransactionInv, OwnTransaction, Outcome
<1>7. NoDeadWaiter'
    <2>1. ASSUME NEW t \in Transactions, waiters'[t] # Nobody
          PROVE  waiters'[t] = waiters[t] /\ waiters[t] \in Calls /\ waiters[t] # c
        BY <1>1, <1>2, <2>1 DEF WaitType, TransactionInv, Outcome
    <2> QED BY <1>2, <2>1 DEF WaitType, NoDeadWaiter
<1> QED BY <1>4, <1>5, <1>6, <1>7, <1>9

LEMMA PushWaiterInv ==
    ASSUME WaiterInv, (\E c \in Calls : Push(c)) \/ Find \/ Store
    PROVE  WaiterInv'
<1> USE DEF WaiterInv
<1>1. WaitType' /\ TransactionInv' /\ OwnTransaction' /\ NoDeadWaiter'
    BY DEF Push, Find, Store, WaitType, TransactionInv, OwnTransaction, NoDeadWaiter, waitVars
<1>2. ASSUME NEW c \in Calls, Push(c)
      PROVE  PushType' /\ PushInv'
    BY <1>2 DEF Push, PushGoes, PushType, PushInv, PushPC, Outcome
<1>3. CASE Find
    <2>1. message \in Calls /\ TxOf[message] \in Transactions /\ stray' = stray
        BY <1>3, BufferAssumption DEF Find, PushInv, PushType
    <2>2. PushType'
        BY <1>3, <2>1 DEF Find, PushType, PushPC, WaitType
    <2>3. PushInv'
        BY <1>3, <2>1 DEF Find, PushInv, WaitType, TransactionInv, Outcome
    <2> QED BY <1>1, <2>2, <2>3
<1>4. CASE Store
    <2>1. message \in Calls
        BY <1>4 DEF Store, PushGoes, PushInv, PushType
    <2>2. messages' \in Seq(Calls)
        BY <1>4, <2>1, Added DEF Store, Stored, PushType
    <2> QED BY <1>1, <1>4, <2>2 DEF Store, PushGoes, PushType, PushInv, PushPC, Outcome
<1> QED BY <1>1, <1>2, <1>3, <1>4

LEMMA DeliverWaiterInv ==
    ASSUME WaiterInv, Deliver \/ Signal \/ Erase \/ ReachesNothing \/ Crash
    PROVE  WaiterInv'
<1> USE DEF WaiterInv
<1>1. /\ push \in {"deliver", "signal", "erase"}
      /\ message \in Calls /\ it \in Calls /\ TxOf[it] \in Transactions
    BY BufferAssumption DEF Deliver, Signal, Erase, ReachesNothing, Crash, Dangling, PushGoes,
                            PushInv, PushType
<1>2. PushType' /\ PushInv'
    BY <1>1 DEF Deliver, Signal, Erase, ReachesNothing, Crash, PushGoes, PushType, PushInv,
                PushPC, Outcome
<1>3. CASE Deliver
    <2>1. message \notin stray => TxOf[it] = TxOf[message]
        BY <1>3 DEF Deliver, PushGoes, PushInv
    <2> QED BY <1>1, <1>2, <1>3, <2>1 DEF Deliver, WaitType, TransactionInv, OwnTransaction,
                                          NoDeadWaiter, Outcome, waitVars
<1>4. CASE Signal
    BY <1>1, <1>2, <1>4 DEF Signal, WaitType, TransactionInv, OwnTransaction, NoDeadWaiter,
                            Outcome, WaitPC
<1>5. CASE Erase
    BY <1>1, <1>2, <1>5 DEF Erase, WaitType, TransactionInv, OwnTransaction, NoDeadWaiter,
                            Outcome, waitVars
<1>6. CASE ReachesNothing \/ Crash
    BY <1>2, <1>6 DEF ReachesNothing, Crash, WaitType, TransactionInv, OwnTransaction,
                      NoDeadWaiter, waitVars
<1> QED BY <1>3, <1>4, <1>5, <1>6

LEMMA StepWaiterInv == WaiterInv /\ [Next]_vars => WaiterInv'
<1> SUFFICES ASSUME WaiterInv, [Next]_vars PROVE WaiterInv'
    OBVIOUS
<1>1. ASSUME NEW c \in Calls,
             Begin(c) \/ Scan(c) \/ Emplace(c) \/ Arm(c) \/ Timeout(c) \/ Resume(c)
      PROVE  WaiterInv'
    BY <1>1, BeginWaiterInv, ScanWaiterInv, EmplaceWaiterInv, ResumeWaiterInv
<1>2. CASE (\E c \in Calls : Push(c)) \/ Find \/ Store
    BY <1>2, PushWaiterInv
<1>4. CASE Deliver \/ Signal \/ Erase \/ ReachesNothing \/ Crash
    BY <1>4, DeliverWaiterInv
<1>3. CASE UNCHANGED vars
    BY <1>3 DEF WaiterInv, WaitType, PushType, PushInv, TransactionInv, OwnTransaction,
                NoDeadWaiter, vars
<1> QED BY <1>1, <1>2, <1>3, <1>4 DEF Next

\* The buffer is well typed: push has an outcome and, once it found one, a waiter.
THEOREM TypeCorrect == Spec => []TypeOK
<1>1. WaiterInv => TypeOK
    BY Types DEF WaiterInv
<1> QED BY <1>1, InitWaiterInv, StepWaiterInv, PTL DEF Spec

\* No call is handed the outcome of another transaction, but for what push writes
\* through an entry that a wait has erased.
THEOREM TransactionsMatch == Spec => []OwnTransaction
<1>1. WaiterInv => OwnTransaction
    BY DEF WaiterInv
<1> QED BY <1>1, InitWaiterInv, StepWaiterInv, PTL DEF Spec

\* Although push and the waits erase entries on two threads, none is left behind for a
\* call that has returned.
THEOREM WaitersLive == Spec => []NoDeadWaiter
<1>1. WaiterInv => NoDeadWaiter
    BY DEF WaiterInv
<1> QED BY <1>1, InitWaiterInv, StepWaiterInv, PTL DEF Spec

(***************************************************************************)
(* The mailbox                                                             *)
(***************************************************************************)
\* What a call has been handed, before or after it returned.
Handed(c) == IF answer[c] = Nobody /\ result[c] \in Calls THEN result[c] ELSE answer[c]

\* Nobody is handed anything before it waits in the map or after it returned; who is in
\* the map has been handed nothing until push has found it, nor has whom push will
\* deliver to.
HandInv ==
    /\ \A c \in Calls : wait[c] \in {"idle", "scan", "emplace"} => answer[c] = Nobody
    /\ \A c \in Calls : wait[c] # "returned" => result[c] = Nobody
    /\ \A t \in Transactions :
          waiters[t] # Nobody =>
              answer[waiters[t]] = Nobody \/ (push \in {"signal", "erase"} /\ it = waiters[t])
    /\ push = "deliver" => /\ answer[it] = Nobody /\ result[it] \notin Calls
                           /\ wait[it] \notin {"idle", "scan", "emplace"}

\* An outcome that is still to be handed: sent, and neither handed nor buffered twice.
Unhanded(m) == m \in pushed /\ \A c \in Calls : Handed(c) # m

OnceInv ==
    /\ \A c \in Calls : Handed(c) # Nobody => Handed(c) \in pushed
    /\ \A k \in DOMAIN messages : Unhanded(messages[k])
    /\ \A k, j \in DOMAIN messages : messages[k] = messages[j] => k = j
    /\ push \in {"find", "store", "deliver"} =>
          Unhanded(message) /\ \A k \in DOMAIN messages : messages[k] # message

BoxInv == WaiterInv /\ HandInv /\ OnceInv

LEMMA InitBoxInv == Init => BoxInv
<1> SUFFICES ASSUME Init PROVE BoxInv
    OBVIOUS
<1>1. HandInv /\ OnceInv
    BY BufferAssumption DEF Init, HandInv, OnceInv, Handed
<1> QED BY <1>1, InitWaiterInv DEF BoxInv

LEMMA HandedType ==
    ASSUME WaiterInv, NEW c \in Calls
    PROVE  Handed(c) \in Outcome
BY DEF WaiterInv, WaitType, Handed, Outcome

\* Steps that hand nothing over and send nothing.
LEMMA QuietOnce ==
    ASSUME OnceInv, UNCHANGED <<messages, pushed>>,
           \A c \in Calls : Handed(c)' = Handed(c),
           push' \in {"find", "store", "deliver"} =>
               push \in {"find", "store", "deliver"} /\ message' = message
    PROVE  OnceInv'
BY DEF OnceInv, Unhanded

LEMMA BeginBoxInv ==
    ASSUME BoxInv, NEW c \in Calls, Begin(c) \/ Arm(c) \/ Timeout(c)
    PROVE  HandInv' /\ OnceInv' /\ UNCHANGED <<answer, result>>
<1> USE DEF BoxInv
<1>1. /\ wait[c] \in {"idle", "arm", "waiting"}
      /\ \/ wait[c] = "idle" /\ wait' = [wait EXCEPT ![c] = "scan"]
         \/ wait[c] # "idle" /\ wait' = [wait EXCEPT ![c] = "waiting"]
         \/ wait[c] # "idle" /\ wait' = [wait EXCEPT ![c] = "timedout"]
      /\ UNCHANGED <<messages, waiters, answer, result, pushVars>>
    BY DEF Begin, Arm, Timeout, WaitGoes
<1>2. HandInv'
    <2>1. wait \in [Calls -> WaitPC]
        BY DEF WaiterInv, WaitType
    <2>2. push = "deliver" => it \in Calls
        BY DEF WaiterInv, PushInv
    <2> QED BY <1>1, <2>1, <2>2 DEF HandInv, pushVars
<1>3. OnceInv'
    BY <1>1, QuietOnce DEF Handed, pushVars
<1> QED BY <1>1, <1>2, <1>3

LEMMA ScanBoxInv ==
    ASSUME BoxInv, NEW c \in Calls, Scan(c), Matching(c) # {}
    PROVE  /\ HandInv' /\ OnceInv'
           /\ \E m \in Calls :
                /\ Unhanded(m) /\ TxOf[m] = TxOf[c] /\ Handed(c) = Nobody
                /\ wait' = [wait EXCEPT ![c] = "returned"]
                /\ result' = [result EXCEPT ![c] = m]
                /\ \A d \in Calls : Handed(d)' = IF d = c THEN m ELSE Handed(d)
<1> USE DEF BoxInv
<1>1. PICK k \in Matching(c) :
          /\ messages' = Without(k)
          /\ wait' = [wait EXCEPT ![c] = "returned"]
          /\ result' = [result EXCEPT ![c] = messages[k]]
    BY DEF Scan, Return
<1> DEFINE m == messages[k]
<1>2. k \in DOMAIN messages /\ TxOf[m] = TxOf[c]
    BY DEF Matching
<1>3. /\ m \in Calls
      /\ \A j \in DOMAIN messages' :
            /\ j \in Int
            /\ (IF j < k THEN j ELSE j + 1) \in DOMAIN messages
            /\ messages'[j] = messages[IF j < k THEN j ELSE j + 1]
    BY <1>1, <1>2, Removed DEF Without, WaiterInv, PushType
<1>4. k \in Int
    BY <1>2, LenProperties DEF WaiterInv, PushType
<1>5. Unhanded(m)
    BY <1>2 DEF OnceInv
<1>6. wait[c] = "scan" /\ answer[c] = Nobody /\ result[c] = Nobody
    BY DEF Scan, HandInv
<1>7. Handed(c) = Nobody
    BY <1>6, BufferAssumption DEF Handed
<1>8. UNCHANGED <<waiters, answer, pushVars>>
    BY DEF Scan
<1>9. \A d \in Calls : Handed(d)' = IF d = c THEN m ELSE Handed(d)
    BY <1>1, <1>3, <1>6, <1>8 DEF Handed, WaiterInv, WaitType
<1>10. HandInv'
    <2>1. wait \in [Calls -> WaitPC] /\ result \in [Calls -> Outcome \union {Nullopt}]
        BY DEF WaiterInv, WaitType
    <2>2. push = "deliver" => it \in Calls /\ it # c
        BY <1>6 DEF WaiterInv, PushInv, HandInv
    <2> QED BY <1>1, <1>6, <1>8, <2>1, <2>2 DEF HandInv, pushVars
<1>11. \A j \in DOMAIN messages' :
          messages'[j] # m /\ \E n \in DOMAIN messages : messages'[j] = messages[n]
    BY <1>2, <1>3, <1>4 DEF OnceInv
<1>12. \A n \in Calls : Unhanded(n) /\ n # m => Unhanded(n)'
    BY <1>8, <1>9 DEF Unhanded, pushVars
<1>13. \A n \in DOMAIN messages : messages[n] \in Calls
    BY ElementOfSeq, LenProperties DEF WaiterInv, PushType
<1>14. OnceInv'
    <2>1. \A d \in Calls : (Handed(d) # Nobody => Handed(d) \in pushed)'
        BY <1>5, <1>8, <1>9 DEF OnceInv, Unhanded, pushVars
    <2>2. \A j \in DOMAIN messages' : Unhanded(messages[j])'
        BY <1>11, <1>12, <1>13 DEF OnceInv
    <2>3. ASSUME NEW j \in DOMAIN messages', NEW n \in DOMAIN messages',
                 messages'[j] = messages'[n]
          PROVE  j = n
        BY <1>3, <1>4, <2>3 DEF OnceInv
    <2>4. push' \in {"find", "store", "deliver"} =>
              Unhanded(message)' /\ \A j \in DOMAIN messages' : messages'[j] # message'
        <3>1. SUFFICES ASSUME push \in {"find", "store", "deliver"}
                       PROVE  Unhanded(message)' /\ \A j \in DOMAIN messages' : messages'[j] # message
            BY <1>8 DEF pushVars
        <3>2. Unhanded(message) /\ message # m /\ message \in Calls
            BY <1>2, <3>1 DEF OnceInv, WaiterInv, PushInv, PushType
        <3> QED BY <1>8, <1>11, <1>12, <3>1, <3>2 DEF OnceInv, pushVars
    <2> QED BY <2>1, <2>2, <2>3, <2>4 DEF OnceInv
<1> QED BY <1>1, <1>2, <1>3, <1>5, <1>7, <1>9, <1>10, <1>14

\* A dangling iterator's waiter is in the map no more.
LEMMA DanglingWaiter ==
    ASSUME WaiterInv, Dangling
    PROVE  it \in Calls /\ \A t \in Transactions : waiters[t] # it
BY BufferAssumption DEF WaiterInv, PushInv, TransactionInv, Dangling

LEMMA EmplaceBoxInv ==
    ASSUME BoxInv, NEW c \in Calls, Emplace(c) \/ (Scan(c) /\ Matching(c) = {})
    PROVE  HandInv' /\ OnceInv'
<1> USE DEF BoxInv
<1>1. wait \in [Calls -> WaitPC] /\ result \in [Calls -> Outcome \union {Nullopt}]
      /\ waiters \in [Transactions -> Outcome] /\ TxOf[c] \in Transactions
    BY BufferAssumption DEF WaiterInv, WaitType
<1>2. /\ wait[c] \in {"scan", "emplace"} /\ answer[c] = Nobody /\ result[c] = Nobody
      /\ push = "deliver" => it \in Calls /\ it # c
    BY DEF Emplace, Scan, HandInv, WaiterInv, PushInv
<1>3. UNCHANGED <<messages, answer, push, message, pushed>>
    BY DEF Emplace, Scan, pushVars
<1>4. CASE Scan(c) /\ Matching(c) = {}
    <2>1. /\ wait' = [wait EXCEPT ![c] = "emplace"] /\ UNCHANGED <<result, waiters, it>>
        BY <1>4 DEF Scan, WaitGoes, pushVars
    <2>2. HandInv'
        BY <1>1, <1>2, <1>3, <2>1 DEF HandInv
    <2> QED BY <1>3, <2>1, <2>2, QuietOnce DEF Handed
<1>5. CASE Emplace(c) /\ waiters[TxOf[c]] = Nobody
    <2>1. /\ wait' = [wait EXCEPT ![c] = "arm"] /\ result' = result
          /\ waiters' = [waiters EXCEPT ![TxOf[c]] = c]
          /\ it' = it \/ (it' = c /\ Dangling)
        BY <1>5 DEF Emplace, WaitGoes
    <2>2. HandInv'
        <3>1. CASE it' = it
            BY <1>1, <1>2, <1>3, <2>1, <3>1 DEF HandInv
        <3>2. CASE it' = c /\ Dangling
            <4>1. \A t \in Transactions : waiters[t] # it
                BY <3>2, DanglingWaiter
            <4> QED BY <1>1, <1>2, <1>3, <2>1, <3>2, <4>1, BufferAssumption DEF HandInv
        <3> QED BY <2>1, <3>1, <3>2
    <2> QED BY <1>3, <2>1, <2>2, QuietOnce DEF Handed
<1>6. CASE Emplace(c) /\ waiters[TxOf[c]] # Nobody
    <2>1. /\ wait' = [wait EXCEPT ![c] = "returned"]
          /\ result' = [result EXCEPT ![c] = Nullopt] /\ UNCHANGED <<waiters, it>>
        BY <1>6 DEF Emplace, Return
    <2>2. HandInv'
        BY <1>1, <1>2, <1>3, <2>1 DEF HandInv
    <2>3. \A d \in Calls : Handed(d)' = Handed(d)
        BY <1>1, <1>2, <1>3, <2>1, BufferAssumption DEF Handed
    <2> QED BY <1>3, <2>2, <2>3, QuietOnce
<1> QED BY <1>4, <1>5, <1>6

LEMMA ResumeBoxInv ==
    ASSUME BoxInv, NEW c \in Calls, Resume(c)
    PROVE  /\ HandInv' /\ OnceInv'
           /\ \A d \in Calls : Handed(d)' = Handed(d)
           /\ wait' = [wait EXCEPT ![c] = "returned"]
           /\ \/ result' = [result EXCEPT ![c] = Nullopt]
              \/ Handed(c) # Nobody /\ result' = [result EXCEPT ![c] = Handed(c)]
           /\ \/ stray' = stray
              \/ /\ message \in Calls /\ Unhanded(message) /\ TxOf[message] = TxOf[c]
                 /\ stray' = stray \union {message}
<1> USE DEF BoxInv
<1>1. wait \in [Calls -> WaitPC] /\ result \in [Calls -> Outcome \union {Nullopt}]
      /\ waiters \in [Transactions -> Outcome] /\ TxOf[c] \in Transactions
      /\ answer \in [Calls -> Outcome]
    BY BufferAssumption DEF WaiterInv, WaitType
<1>2. /\ waiters' = [waiters EXCEPT ![TxOf[c]] = Nobody]
      /\ wait' = [wait EXCEPT ![c] = "returned"]
      /\ \/ result' = [result EXCEPT ![c] = Nullopt]
         \/ /\ wait[c] = "signalled" /\ answer[c] # Nobody
            /\ result' = [result EXCEPT ![c] = answer[c]]
      /\ wait[c] \in {"signalled", "timedout"}
      /\ stray' = IF push = "deliver" /\ waiters'[TxOf[it]] # it
                  THEN stray \union {message} ELSE stray
      /\ UNCHANGED <<messages, answer, push, message, it, pushed>>
    BY DEF Resume, WithoutWaiter, Return
<1>3. result[c] = Nobody
    BY <1>2 DEF HandInv
<1>4. \A d \in Calls : Handed(d)' = Handed(d)
    BY <1>1, <1>2, <1>3, BufferAssumption DEF Handed, Outcome
<1>5. push = "deliver" => it \in Calls /\ (it = c => answer[c] = Nobody)
    BY DEF HandInv, WaiterInv, PushInv
<1>6. HandInv'
    BY <1>1, <1>2, <1>3, <1>5, BufferAssumption DEF HandInv
<1>7. OnceInv'
    BY <1>2, <1>4, QuietOnce
<1>8. answer[c] # Nobody => Handed(c) = answer[c]
    BY DEF Handed
\* The entry that was erased under push's iterator was of the call's transaction.
<1>9. stray' # stray => /\ message \in Calls /\ Unhanded(message)
                        /\ TxOf[message] = TxOf[c]
    <2> SUFFICES ASSUME stray' # stray
                 PROVE  message \in Calls /\ Unhanded(message) /\ TxOf[message] = TxOf[c]
        OBVIOUS
    <2>1. push = "deliver" /\ waiters'[TxOf[it]] # it /\ message \notin stray
        BY <1>2
    <2>2. /\ message \in Calls /\ it \in Calls /\ TxOf[it] = TxOf[message]
          /\ waiters[TxOf[it]] = it
        BY <2>1 DEF WaiterInv, PushInv, PushType
    <2>3. TxOf[it] = TxOf[c]
        BY <1>1, <1>2, <2>1, <2>2, BufferAssumption
    <2> QED BY <2>1, <2>2, <2>3 DEF OnceInv
<1> QED BY <1>2, <1>4, <1>6, <1>7, <1>8, <1>9

LEMMA PushBoxInv ==
    ASSUME BoxInv, NEW c \in Calls, Push(c)
    PROVE  HandInv' /\ OnceInv'
<1> USE DEF BoxInv
<1>1. /\ c \notin pushed /\ pushed' = pushed \union {c}
      /\ push = "idle" /\ push' = "find" /\ message' = c
      /\ UNCHANGED <<messages, waiters, answer, it, wait, result>>
    BY DEF Push, PushGoes, waitVars
<1>2. HandInv'
    BY <1>1 DEF HandInv
<1>3. \A d \in Calls : Handed(d)' = Handed(d) /\ Handed(d) # c
    BY <1>1, BufferAssumption DEF Handed, OnceInv
<1>4. \A k \in DOMAIN messages : messages[k] # c
    BY <1>1 DEF OnceInv, Unhanded
<1>5. OnceInv'
    BY <1>1, <1>3, <1>4 DEF OnceInv, Unhanded
<1> QED BY <1>2, <1>5

LEMMA FindBoxInv ==
    ASSUME BoxInv, Find
    PROVE  HandInv' /\ OnceInv'
<1> USE DEF BoxInv
<1>1. /\ push = "find" /\ it' = waiters[TxOf[message]]
      /\ push' = IF it' = Nobody THEN "store" ELSE "deliver"
      /\ UNCHANGED <<messages, waiters, answer, message, pushed, wait, result>>
    BY DEF Find, waitVars
<1>2. message \in Calls /\ TxOf[message] \in Transactions
    BY <1>1, BufferAssumption DEF WaiterInv, PushInv, PushType
<1>3. it' # Nobody => /\ it' \in Calls /\ answer[it'] = Nobody
                      /\ wait[it'] \in {"arm", "waiting", "signalled", "timedout"}
    BY <1>1, <1>2 DEF HandInv, WaiterInv, WaitType, Outcome, NoDeadWaiter
<1>4. HandInv'
    BY <1>1, <1>3, BufferAssumption DEF HandInv
<1>5. OnceInv'
    BY <1>1, QuietOnce DEF Handed
<1> QED BY <1>4, <1>5

LEMMA StoreBoxInv ==
    ASSUME BoxInv, Store
    PROVE  HandInv' /\ OnceInv'
<1> USE DEF BoxInv
<1>1. /\ push = "store" /\ push' = "idle" /\ messages' = Append(messages, message)
      /\ UNCHANGED <<waiters, answer, it, pushed, wait, result>>
    BY DEF Store, Stored, PushGoes, waitVars
<1>2. message \in Calls /\ messages \in Seq(Calls)
    BY <1>1 DEF WaiterInv, PushInv, PushType
<1>3. \A k \in DOMAIN messages' :
          \/ k \in DOMAIN messages /\ messages'[k] = messages[k]
          \/ k = Len(messages) + 1 /\ messages'[k] = message
    BY <1>1, <1>2, Added
<1>4. HandInv'
    BY <1>1 DEF HandInv
<1>5. \A m \in Calls : Unhanded(m) => Unhanded(m)'
    BY <1>1 DEF Unhanded, Handed
<1>6. Unhanded(message) /\ \A k \in DOMAIN messages : messages[k] # message
    BY <1>1 DEF OnceInv
<1>7. \A k \in DOMAIN messages : messages[k] \in Calls
    BY <1>2, ElementOfSeq, LenProperties
<1>8. OnceInv'
    <2>1. \A d \in Calls : (Handed(d) # Nobody => Handed(d) \in pushed)'
        BY <1>1 DEF OnceInv, Handed
    <2>2. \A k \in DOMAIN messages' : Unhanded(messages[k])'
        BY <1>2, <1>3, <1>5, <1>6, <1>7 DEF OnceInv
    <2>3. \A k, j \in DOMAIN messages' : messages'[k] = messages'[j] => k = j
        BY <1>3, <1>6 DEF OnceInv
    <2> QED BY <1>1, <2>1, <2>2, <2>3 DEF OnceInv
<1> QED BY <1>4, <1>8

LEMMA DeliverBoxInv ==
    ASSUME BoxInv, Deliver
    PROVE  /\ HandInv' /\ OnceInv'
           /\ message \in Calls /\ it \in Calls
           /\ TxOf[message] = TxOf[it] \/ message \in stray
           /\ Unhanded(message) /\ Handed(it) = Nobody /\ wait[it] \notin {"idle", "returned"}
           /\ \A d \in Calls : Handed(d)' = IF d = it THEN message ELSE Handed(d)
<1> USE DEF BoxInv
<1>1. /\ push = "deliver" /\ push' = "signal" /\ wait[it] # "returned"
      /\ answer' = [answer EXCEPT ![it] = message]
      /\ UNCHANGED <<messages, waiters, message, it, pushed, wait, result>>
    BY DEF Deliver, PushGoes, waitVars
<1>2. message \in Calls /\ it \in Calls /\ (TxOf[message] = TxOf[it] \/ message \in stray)
    BY <1>1 DEF WaiterInv, PushInv, PushType
<1>3. /\ answer[it] = Nobody /\ result[it] \notin Calls
      /\ wait[it] \notin {"idle", "scan", "emplace"}
    BY <1>1 DEF HandInv
<1>4. answer \in [Calls -> Outcome] /\ message # Nobody
    BY <1>2, BufferAssumption DEF WaiterInv, WaitType
<1>5. HandInv'
    <2>1. \A t \in Transactions : waiters[t] # Nobody => waiters[t] \in Calls
        BY DEF WaiterInv, WaitType, Outcome
    <2> QED BY <1>1, <1>2, <1>3, <1>4, <2>1 DEF HandInv
<1>6. \A d \in Calls : Handed(d)' = IF d = it THEN message ELSE Handed(d)
    BY <1>1, <1>2, <1>3, <1>4 DEF Handed
<1>7. Unhanded(message) /\ \A k \in DOMAIN messages : messages[k] # message
    BY <1>1 DEF OnceInv
<1>8. OnceInv'
    BY <1>1, <1>6, <1>7 DEF OnceInv, Unhanded
<1>9. Handed(it) = Nobody
    BY <1>3 DEF Handed
<1> QED BY <1>1, <1>2, <1>3, <1>5, <1>6, <1>7, <1>8, <1>9

LEMMA EraseBoxInv ==
    ASSUME BoxInv, Signal \/ Erase \/ ReachesNothing \/ Crash
    PROVE  HandInv' /\ OnceInv' /\ UNCHANGED <<answer, result>>
<1> USE DEF BoxInv
<1>1. /\ push \in {"deliver", "signal", "erase"} /\ it \in Calls /\ TxOf[it] \in Transactions
    BY BufferAssumption DEF Signal, Erase, ReachesNothing, Crash, Dangling, PushGoes,
                            WaiterInv, PushInv
<1>2. UNCHANGED <<messages, answer, result, pushed>>
    BY DEF Signal, Erase, ReachesNothing, Crash, waitVars
<1>3. wait \in [Calls -> WaitPC] /\ waiters \in [Transactions -> Outcome]
    BY DEF WaiterInv, WaitType
<1>4. CASE Signal
    <2>1. HandInv'
        BY <1>1, <1>2, <1>3, <1>4 DEF Signal, PushGoes, HandInv
    <2> QED BY <1>2, <1>4, <2>1, QuietOnce DEF Signal, PushGoes, Handed
<1>5. CASE Erase
    <2>1. ASSUME NEW t \in Transactions, waiters'[t] # Nobody
          PROVE  waiters'[t] = waiters[t] /\ waiters[t] # it
        BY <1>1, <1>3, <1>5, <2>1 DEF Erase, WaiterInv, TransactionInv
    <2>2. HandInv'
        BY <1>1, <1>2, <1>3, <1>5, <2>1 DEF Erase, PushGoes, HandInv, waitVars
    <2> QED BY <1>2, <1>5, <2>2, QuietOnce DEF Erase, PushGoes, Handed
<1>6. CASE ReachesNothing \/ Crash
    <2>1. \A t \in Transactions : waiters[t] # it
        BY <1>6, DanglingWaiter DEF ReachesNothing, Crash
    <2>2. push' # "deliver" /\ push' \notin {"find", "store"} /\ UNCHANGED <<waiters, wait>>
        BY <1>6 DEF ReachesNothing, Crash, PushGoes, waitVars
    <2>3. HandInv'
        BY <1>2, <2>1, <2>2 DEF HandInv
    <2> QED BY <1>2, <2>2, <2>3, QuietOnce DEF Handed
<1> QED BY <1>4, <1>5, <1>6

LEMMA StepBoxInv == BoxInv /\ [Next]_vars => BoxInv'
<1> SUFFICES ASSUME BoxInv, [Next]_vars PROVE HandInv' /\ OnceInv'
    BY StepWaiterInv DEF BoxInv
<1>1. ASSUME NEW c \in Calls, Begin(c) \/ Arm(c) \/ Timeout(c)
      PROVE  HandInv' /\ OnceInv'
    BY <1>1, BeginBoxInv
<1>2. ASSUME NEW c \in Calls, Scan(c) \/ Emplace(c) \/ Resume(c) \/ Push(c)
      PROVE  HandInv' /\ OnceInv'
    BY <1>2, ScanBoxInv, EmplaceBoxInv, ResumeBoxInv, PushBoxInv
<1>3. CASE Find \/ Store \/ Deliver \/ Signal \/ Erase \/ ReachesNothing \/ Crash
    <2>1. (Find => HandInv' /\ OnceInv') /\ (Store => HandInv' /\ OnceInv')
        BY FindBoxInv, StoreBoxInv
    <2>2. Deliver => HandInv' /\ OnceInv'
        BY DeliverBoxInv
    <2>3. Signal \/ Erase \/ ReachesNothing \/ Crash => HandInv' /\ OnceInv'
        BY EraseBoxInv
    <2> QED BY <1>3, <2>1, <2>2, <2>3
<1>4. CASE UNCHANGED vars
    <2>1. \A c \in Calls : Handed(c)' = Handed(c)
        BY <1>4 DEF vars, Handed
    <2>2. OnceInv'
        BY <1>4, <2>1, QuietOnce DEF vars, BoxInv
    <2>3. HandInv'
        BY <1>4 DEF vars, BoxInv, HandInv
    <2> QED BY <2>2, <2>3
<1> QED BY <1>1, <1>2, <1>3, <1>4 DEF Next

(***************************************************************************)
(* One place for each outcome                                              *)
(***************************************************************************)
Buffered(m) == \E k \in DOMAIN messages : messages[k] = m

\* What was sent is somewhere, unless it went astray; it was handed once; and what a
\* call that push answered returned is that answer.
PlaceInv ==
    /\ \A m \in pushed :
          Buffered(m) \/ UnderWay(m) \/ m \in stray \/ \E c \in Calls : Handed(c) = m
    /\ \A c, d \in Calls : Handed(c) = Handed(d) /\ Handed(c) # Nobody => c = d
    /\ \A c \in Calls : result[c] \in Calls /\ answer[c] # Nobody => result[c] = answer[c]

LEMMA InitPlaceInv == Init => PlaceInv
BY BufferAssumption DEF Init, PlaceInv, Handed

\* Steps that hand nothing over and leave every outcome where it is.
LEMMA QuietPlace ==
    ASSUME PlaceInv, UNCHANGED <<answer, result, pushed>>, stray \subseteq stray',
           \A m \in pushed :
               Buffered(m) \/ UnderWay(m) => (Buffered(m) \/ UnderWay(m) \/ m \in stray)'
    PROVE  PlaceInv'
<1>1. \A c \in Calls : Handed(c)' = Handed(c)
    BY DEF Handed
<1> QED BY <1>1 DEF PlaceInv

LEMMA WaitPlaceInv ==
    ASSUME BoxInv, PlaceInv, NEW c \in Calls, Begin(c) \/ Arm(c) \/ Timeout(c)
    PROVE  PlaceInv'
<1>1. UNCHANGED <<messages, answer, result, pushVars>>
    BY DEF Begin, Arm, Timeout
<1>2. \A m : Buffered(m) \/ UnderWay(m) => (Buffered(m) \/ UnderWay(m))'
    BY <1>1 DEF Buffered, UnderWay, pushVars
<1> QED BY <1>1, <1>2, QuietPlace DEF pushVars

\* The rest of the buffer is what it was without the message taken.
LEMMA Remains ==
    ASSUME NEW S, NEW s \in Seq(S), NEW k \in DOMAIN s, NEW j \in DOMAIN s, j # k
    PROVE  \E i \in DOMAIN RemoveAt(s, k) : RemoveAt(s, k)[i] = s[j]
<1>1. Len(s) \in Nat /\ DOMAIN s = 1..Len(s) /\ DOMAIN RemoveAt(s, k) = 1..(Len(s) - 1)
    BY LenProperties, Removed
<1>2. \A i \in DOMAIN RemoveAt(s, k) :
          RemoveAt(s, k)[i] = s[IF i < k THEN i ELSE i + 1]
    BY Removed
<1>3. CASE j < k
    <2>1. j \in DOMAIN RemoveAt(s, k)
        BY <1>1, <1>3
    <2> QED BY <1>2, <1>3, <2>1
<1>4. CASE ~(j < k)
    <2>1. j - 1 \in DOMAIN RemoveAt(s, k) /\ ~(j - 1 < k) /\ (j - 1) + 1 = j
        BY <1>1, <1>4
    <2> QED BY <1>2, <2>1
<1> QED BY <1>3, <1>4

LEMMA ScanPlaceInv ==
    ASSUME BoxInv, PlaceInv, NEW c \in Calls, Scan(c), Matching(c) # {}
    PROVE  PlaceInv'
<1>1. PICK k \in Matching(c) :
          messages' = RemoveAt(messages, k) /\ result' = [result EXCEPT ![c] = messages[k]]
    BY DEF Scan, Return, Without
<1>2. PICK m \in Calls :
          /\ Unhanded(m) /\ Handed(c) = Nobody /\ result' = [result EXCEPT ![c] = m]
          /\ \A d \in Calls : Handed(d)' = IF d = c THEN m ELSE Handed(d)
    BY ScanBoxInv
<1>3. /\ answer' = answer /\ UNCHANGED pushVars /\ answer[c] = Nobody
      /\ result \in [Calls -> Outcome \union {Nullopt}]
    BY DEF Scan, BoxInv, HandInv, WaiterInv, WaitType
<1>4. m = messages[k]
    BY <1>1, <1>2, <1>3
<1>5. ASSUME NEW n \in pushed, n # m, Buffered(n)
      PROVE  Buffered(n)'
    <2>1. PICK j \in DOMAIN messages : messages[j] = n
        BY <1>5 DEF Buffered
    <2>2. messages \in Seq(Calls) /\ k \in DOMAIN messages /\ j # k
        BY <1>4, <1>5, <2>1 DEF BoxInv, WaiterInv, PushType, Matching
    <2>3. \E i \in DOMAIN messages' : messages'[i] = n
        BY <1>1, <2>1, <2>2, Remains
    <2> QED BY <2>3 DEF Buffered
<1>6. \A n \in pushed' :
          Buffered(n)' \/ UnderWay(n)' \/ n \in stray' \/ \E d \in Calls : Handed(d)' = n
    <2>1. ASSUME NEW n \in pushed, n # m, n \notin stray
          PROVE  Buffered(n)' \/ UnderWay(n)' \/ \E d \in Calls : Handed(d)' = n
        <3>1. CASE Buffered(n)
            BY <1>5, <2>1, <3>1
        <3>2. CASE UnderWay(n)
            BY <1>3, <3>2 DEF UnderWay, pushVars
        <3>3. CASE \E d \in Calls : Handed(d) = n
            <4>1. n # Nobody
                BY BufferAssumption DEF BoxInv, WaiterInv, PushType
            <4> QED BY <1>2, <3>3, <4>1
        <3> QED BY <2>1, <3>1, <3>2, <3>3 DEF PlaceInv
    <2>2. Handed(c)' = m
        BY <1>2
    <2> QED BY <1>3, <2>1, <2>2 DEF pushVars
<1>7. \A d, e \in Calls : Handed(d)' = Handed(e)' /\ Handed(d)' # Nobody => d = e
    BY <1>2 DEF PlaceInv, Unhanded
<1>8. \A d \in Calls : result'[d] \in Calls /\ answer'[d] # Nobody => result'[d] = answer'[d]
    BY <1>2, <1>3 DEF PlaceInv
<1> QED BY <1>6, <1>7, <1>8 DEF PlaceInv

LEMMA EmplacePlaceInv ==
    ASSUME BoxInv, PlaceInv, NEW c \in Calls, Emplace(c) \/ (Scan(c) /\ Matching(c) = {})
    PROVE  PlaceInv'
<1>1. /\ UNCHANGED <<messages, answer, push, message, pushed, stray>> /\ result[c] = Nobody
      /\ result \in [Calls -> Outcome \union {Nullopt}]
      /\ result' = result \/ result' = [result EXCEPT ![c] = Nullopt]
    BY DEF Emplace, Scan, Return, BoxInv, HandInv, WaiterInv, WaitType, pushVars
<1>2. \A d \in Calls : Handed(d)' = Handed(d)
    BY <1>1, BufferAssumption DEF Handed
<1>3. \A m : Buffered(m) \/ UnderWay(m) => (Buffered(m) \/ UnderWay(m))'
    BY <1>1 DEF Buffered, UnderWay
<1>4. \A d \in Calls : result'[d] \in Calls => result'[d] = result[d]
    BY <1>1, BufferAssumption
<1> QED BY <1>1, <1>2, <1>3, <1>4 DEF PlaceInv

LEMMA ResumePlaceInv ==
    ASSUME BoxInv, PlaceInv, NEW c \in Calls, Resume(c)
    PROVE  PlaceInv'
<1>1. /\ \A d \in Calls : Handed(d)' = Handed(d)
      /\ \/ result' = [result EXCEPT ![c] = Nullopt]
         \/ result' = [result EXCEPT ![c] = answer[c]]
      /\ UNCHANGED <<messages, answer, push, message, pushed>> /\ stray \subseteq stray'
      /\ result \in [Calls -> Outcome \union {Nullopt}]
    BY ResumeBoxInv DEF Resume, Return, BoxInv, WaiterInv, WaitType
<1>2. \A m : Buffered(m) \/ UnderWay(m) => (Buffered(m) \/ UnderWay(m))'
    BY <1>1 DEF Buffered, UnderWay
<1>3. \A d \in Calls : result'[d] \in Calls /\ answer'[d] # Nobody => result'[d] = answer'[d]
    BY <1>1, BufferAssumption DEF PlaceInv
<1> QED BY <1>1, <1>2, <1>3 DEF PlaceInv

\* Where an outcome that push writes through an erased entry ends up, nobody knows.
LEMMA PushPlaceInv ==
    ASSUME BoxInv, PlaceInv,
           (\E c \in Calls : Push(c)) \/ Find \/ Signal \/ Erase \/ ReachesNothing \/ Crash
    PROVE  PlaceInv'
<1>1. UNCHANGED <<messages, answer, result, stray>>
    BY DEF Push, Find, Signal, Erase, ReachesNothing, Crash, waitVars
<1>2. ASSUME NEW c \in Calls, Push(c)
      PROVE  PlaceInv'
    <2>1. UnderWay(c)' /\ pushed' = pushed \union {c} /\ push = "idle"
        BY <1>2 DEF Push, PushGoes, UnderWay
    <2>2. (\A d \in Calls : Handed(d)' = Handed(d)) /\ \A m : Buffered(m)' <=> Buffered(m)
        BY <1>1 DEF Handed, Buffered
    <2> QED BY <1>1, <2>1, <2>2 DEF PlaceInv, UnderWay
<1>3. \A m : Buffered(m) => Buffered(m)'
    BY <1>1 DEF Buffered
<1>4. CASE Find \/ Signal \/ Erase
    <2>1. UNCHANGED pushed /\ \A m : UnderWay(m) => UnderWay(m)'
        BY <1>4 DEF Find, Signal, Erase, PushGoes, UnderWay
    <2> QED BY <1>1, <1>3, <2>1, QuietPlace
<1>5. CASE ReachesNothing \/ Crash
    <2>1. UNCHANGED pushed /\ \A m : UnderWay(m) => m \in stray
        BY <1>5 DEF ReachesNothing, Crash, Dangling, UnderWay, BoxInv, WaiterInv, PushInv
    <2> QED BY <1>1, <1>3, <2>1, QuietPlace
<1> QED BY <1>2, <1>4, <1>5

LEMMA StorePlaceInv ==
    ASSUME BoxInv, PlaceInv, Store
    PROVE  PlaceInv'
<1>1. /\ messages' = Append(messages, message)
      /\ UNCHANGED <<answer, result, pushed, stray>>
      /\ message \in Calls /\ messages \in Seq(Calls)
    BY DEF Store, Stored, PushGoes, waitVars, BoxInv, WaiterInv, PushInv, PushType
<1>2. /\ Len(messages) \in Nat /\ DOMAIN messages = 1..Len(messages)
      /\ DOMAIN messages' = 1..(Len(messages) + 1)
      /\ \A k \in 1..Len(messages) : messages'[k] = messages[k]
      /\ messages'[Len(messages) + 1] = message
    BY <1>1, AppendProperties, LenProperties
<1>3. \A m : Buffered(m) \/ UnderWay(m) => Buffered(m)'
    BY <1>2 DEF Buffered, UnderWay
<1> QED BY <1>1, <1>3, QuietPlace

LEMMA DeliverPlaceInv ==
    ASSUME BoxInv, PlaceInv, Deliver
    PROVE  PlaceInv'
<1>1. /\ message \in Calls /\ it \in Calls /\ Unhanded(message) /\ Handed(it) = Nobody
      /\ \A d \in Calls : Handed(d)' = IF d = it THEN message ELSE Handed(d)
    BY DeliverBoxInv
<1>2. /\ UNCHANGED <<messages, message, result, pushed, stray>> /\ result[it] \notin Calls
      /\ answer' = [answer EXCEPT ![it] = message] /\ answer \in [Calls -> Outcome]
    BY DEF Deliver, PushGoes, waitVars, BoxInv, HandInv, WaiterInv, WaitType
<1>3. \A m \in pushed :
          Buffered(m)' \/ UnderWay(m)' \/ m \in stray' \/ \E d \in Calls : Handed(d)' = m
    <2>1. ASSUME NEW m \in pushed, m # message, m \notin stray
          PROVE  Buffered(m)' \/ \E d \in Calls : Handed(d)' = m
        <3>1. Buffered(m) \/ \E d \in Calls : Handed(d) = m
            BY <2>1 DEF PlaceInv, UnderWay
        <3>2. m # Nobody
            BY BufferAssumption DEF BoxInv, WaiterInv, PushType
        <3> QED BY <1>1, <1>2, <3>1, <3>2 DEF Buffered
    <2> QED BY <1>1, <1>2, <2>1
<1>4. \A d, e \in Calls : Handed(d)' = Handed(e)' /\ Handed(d)' # Nobody => d = e
    BY <1>1 DEF PlaceInv, Unhanded
<1>5. \A d \in Calls : result'[d] \in Calls /\ answer'[d] # Nobody => result'[d] = answer'[d]
    BY <1>1, <1>2 DEF PlaceInv
<1> QED BY <1>2, <1>3, <1>4, <1>5 DEF PlaceInv

LEMMA StepPlaceInv == BoxInv /\ PlaceInv /\ [Next]_vars => PlaceInv'
<1> SUFFICES ASSUME BoxInv, PlaceInv, [Next]_vars PROVE PlaceInv'
    OBVIOUS
<1>1. ASSUME NEW c \in Calls,
             Begin(c) \/ Scan(c) \/ Emplace(c) \/ Arm(c) \/ Timeout(c) \/ Resume(c)
      PROVE  PlaceInv'
    BY <1>1, WaitPlaceInv, ScanPlaceInv, EmplacePlaceInv, ResumePlaceInv
<1>2. CASE (\E c \in Calls : Push(c)) \/ Find \/ Signal \/ Erase \/ ReachesNothing \/ Crash
    BY <1>2, PushPlaceInv
<1>3. CASE Store \/ Deliver
    BY <1>3, StorePlaceInv, DeliverPlaceInv
<1>4. CASE UNCHANGED vars
    <2>1. UNCHANGED <<messages, answer, result, pushVars>>
        BY <1>4 DEF vars, pushVars
    <2>2. \A m : Buffered(m) \/ UnderWay(m) => (Buffered(m) \/ UnderWay(m))'
        BY <2>1 DEF Buffered, UnderWay, pushVars
    <2> QED BY <2>1, <2>2, QuietPlace DEF pushVars
<1> QED BY <1>1, <1>2, <1>3, <1>4 DEF Next

LEMMA TimesBuffered ==
    ASSUME BoxInv, NEW m
    PROVE  Times(m) = IF Buffered(m) THEN 1 ELSE 0
<1>1. CASE Buffered(m)
    <2>1. PICK k \in DOMAIN messages : messages[k] = m
        BY <1>1 DEF Buffered
    <2>2. {j \in DOMAIN messages : messages[j] = m} = {k}
        BY <2>1 DEF BoxInv, OnceInv
    <2> QED BY <1>1, <2>2, FS_Singleton DEF Times
<1>2. CASE ~Buffered(m)
    <2>1. {j \in DOMAIN messages : messages[j] = m} = {}
        BY <1>2 DEF Buffered
    <2> QED BY <1>2, <2>1, FS_EmptySet DEF Times
<1> QED BY <1>1, <1>2

\* The calls that have an outcome: it was handed to them.
Holding(m) == {c \in Calls : answer[c] = m /\ wait[c] # "returned"}
Returned(m) == {c \in Calls : result[c] = m}

LEMMA HandedSets ==
    ASSUME BoxInv, PlaceInv, NEW m \in pushed
    PROVE  /\ \A c \in Holding(m) \union Returned(m) \union Lost(m) : Handed(c) = m
           /\ \A c \in Calls : Handed(c) = m =>
                 \/ c \in Holding(m) /\ c \notin Returned(m) \union Lost(m)
                 \/ c \in Returned(m) /\ c \notin Holding(m) \union Lost(m)
                 \/ c \in Lost(m) /\ c \notin Holding(m) \union Returned(m)
<1>1. m \in Calls /\ m # Nobody
    BY BufferAssumption DEF BoxInv, WaiterInv, PushType
<1>2. \A c \in Calls : wait[c] # "returned" => result[c] = Nobody
    BY DEF BoxInv, HandInv
<1>3. \A c \in Calls : result[c] = m /\ answer[c] # Nobody => answer[c] = m
    BY <1>1 DEF PlaceInv
<1> QED BY <1>1, <1>2, <1>3 DEF Handed, Holding, Returned, Lost

LEMMA InOnePlace ==
    ASSUME BoxInv, PlaceInv, NEW m \in pushed
    PROVE  Places(m) <= 1 /\ (m \notin stray => Places(m) = 1)
<1>1. m # Nobody
    BY BufferAssumption DEF BoxInv, WaiterInv, PushType
<1>2. Times(m) = IF Buffered(m) THEN 1 ELSE 0
    BY TimesBuffered
<1>3. Places(m) = Times(m) + (IF UnderWay(m) THEN 1 ELSE 0) + Cardinality(Holding(m))
                  + Cardinality(Returned(m)) + Cardinality(Lost(m))
    BY DEF Places, Holding, Returned
<1>4. CASE \E c \in Calls : Handed(c) = m
    <2>1. PICK c \in Calls : Handed(c) = m
        BY <1>4
    <2>2. ~Buffered(m) /\ ~UnderWay(m)
        BY <2>1 DEF Buffered, UnderWay, BoxInv, OnceInv, Unhanded
    <2>3. \A d \in Calls : Handed(d) = m => d = c
        BY <1>1, <2>1 DEF PlaceInv
    <2>4. \A d \in Holding(m) \union Returned(m) \union Lost(m) : d = c
        BY <2>3, HandedSets DEF Holding, Returned, Lost
    <2>5. \/ Holding(m) = {c} /\ Returned(m) = {} /\ Lost(m) = {}
          \/ Holding(m) = {} /\ Returned(m) = {c} /\ Lost(m) = {}
          \/ Holding(m) = {} /\ Returned(m) = {} /\ Lost(m) = {c}
        <3>1. \/ c \in Holding(m) /\ c \notin Returned(m) \union Lost(m)
              \/ c \in Returned(m) /\ c \notin Holding(m) \union Lost(m)
              \/ c \in Lost(m) /\ c \notin Holding(m) \union Returned(m)
            BY <2>1, HandedSets
        <3> QED BY <2>4, <3>1
    <2>6. Cardinality({c}) = 1 /\ Cardinality({}) = 0
        BY FS_Singleton, FS_EmptySet
    <2>7. Cardinality(Holding(m)) + Cardinality(Returned(m)) + Cardinality(Lost(m)) = 1
        BY <2>5, <2>6
    <2>8. /\ Cardinality(Holding(m)) \in Int /\ Cardinality(Returned(m)) \in Int
          /\ Cardinality(Lost(m)) \in Int
        BY <2>5, <2>6
    <2>9. Places(m) = 1
        BY <1>2, <1>3, <2>2, <2>7, <2>8
    <2> QED BY <2>9
<1>5. CASE ~\E c \in Calls : Handed(c) = m
    <2>1. Holding(m) = {} /\ Returned(m) = {} /\ Lost(m) = {}
        BY <1>5, HandedSets DEF Holding, Returned, Lost
    <2>2. Places(m) = Times(m) + (IF UnderWay(m) THEN 1 ELSE 0)
        BY <1>2, <1>3, <2>1, FS_EmptySet
    <2>3. Buffered(m) => ~UnderWay(m)
        BY DEF Buffered, UnderWay, BoxInv, OnceInv
    <2>4. Buffered(m) \/ UnderWay(m) \/ m \in stray
        BY <1>5 DEF PlaceInv
    <2> QED BY <1>2, <2>2, <2>3, <2>4
<1> QED BY <1>4, <1>5

\* However the two threads interleave, no outcome is handed to two calls or handed over
\* and kept; and one that is neither under way, buffered nor with a call was written
\* through an entry that a wait had erased.  What was handed to a call that returned
\* nothing is lost with the call: this theorem does not exclude it.
THEOREM OutcomesAreInOnePlace == Spec => []OutcomeInOnePlace
<1>1. BoxInv /\ PlaceInv => OutcomeInOnePlace
    BY InOnePlace DEF OutcomeInOnePlace
<1>2. BoxInv /\ PlaceInv /\ [Next]_vars => (BoxInv /\ PlaceInv)'
    BY StepBoxInv, StepPlaceInv
<1> QED BY <1>1, <1>2, InitBoxInv, InitPlaceInv, PTL DEF Spec

(***************************************************************************)
(* The variables of the mailbox, as ResponseBuffer maps them               *)
(***************************************************************************)
HandedTo == [c \in Calls |-> IF answer[c] = Nobody /\ result[c] \in Calls
                             THEN result[c] ELSE answer[c]]
Phase == [c \in Calls |-> IF wait[c] \in {"idle", "returned"} THEN wait[c] ELSE "waiting"]

LEMMA InitRefines == Init => Box!Init
BY BufferAssumption DEF Init, Box!Init

\* What a step does to the mailbox, from what it does to each call.
LEMMA Mapped ==
    /\ \A c \in Calls : HandedTo[c] = Handed(c)
    /\ (\A c \in Calls : Handed(c)' = Handed(c)) => HandedTo' = HandedTo
    /\ \A m, c \in Calls :
          (\A d \in Calls : Handed(d)' = IF d = c THEN m ELSE Handed(d))
          => HandedTo' = [HandedTo EXCEPT ![c] = m]
BY DEF HandedTo, Handed

LEMMA PhaseMapped ==
    ASSUME WaitType, NEW c \in Calls
    PROVE  /\ wait' = [wait EXCEPT ![c] = "returned"]
                  => Phase' = [Phase EXCEPT ![c] = "returned"]
           /\ \A pc \in WaitPC \ {"idle", "returned"} :
                 wait' = [wait EXCEPT ![c] = pc] => Phase' = [Phase EXCEPT ![c] = "waiting"]
BY DEF WaitType, Phase, WaitPC

\* An unhanded outcome of its transaction, or gone astray, is there for a call that waits.
LEMMA ForCall ==
    ASSUME NEW m \in Calls, NEW c \in Calls, Unhanded(m),
           TxOf[m] = TxOf[c] \/ m \in stray, Handed(c) = Nobody, Phase[c] = "waiting"
    PROVE  Box!For(m, c)
<1>1. \A d \in Calls : HandedTo[d] # m
    BY Mapped DEF Unhanded
<1>2. HandedTo[c] = Nobody
    BY Mapped
<1> QED BY <1>1, <1>2 DEF Box!For, Box!Free, Unhanded, HandedTo, Phase

BoxVars == <<pushed, stray, HandedTo, Phase, result>>

LEMMA WaitRefines ==
    ASSUME BoxInv, NEW c \in Calls, Begin(c) \/ Arm(c) \/ Timeout(c)
    PROVE  Box!Wait(c) \/ UNCHANGED BoxVars
<1>1. WaitType /\ UNCHANGED <<answer, result, pushed, stray>> /\ HandedTo' = HandedTo
    BY BeginBoxInv DEF BoxInv, WaiterInv, Begin, Arm, Timeout, pushVars, HandedTo
<1>2. CASE Begin(c)
    <2>1. wait[c] = "idle" /\ wait' = [wait EXCEPT ![c] = "scan"]
        BY <1>2 DEF Begin, WaitGoes
    <2>2. Phase[c] = "idle" /\ Phase' = [Phase EXCEPT ![c] = "waiting"]
        BY <1>1, <2>1, PhaseMapped DEF Phase, WaitPC
    <2> QED BY <1>1, <2>2 DEF Box!Wait, HandedTo, Phase
<1>3. CASE Arm(c) \/ Timeout(c)
    <2>1. Phase[c] = "waiting" /\ Phase' = [Phase EXCEPT ![c] = "waiting"]
        BY <1>1, <1>3, PhaseMapped DEF Phase, WaitPC, Arm, Timeout, WaitGoes
    <2>2. Phase' = Phase
        BY <2>1 DEF Phase
    <2> QED BY <1>1, <2>2 DEF BoxVars
<1> QED BY <1>2, <1>3

LEMMA ScanRefines ==
    ASSUME BoxInv, NEW c \in Calls, Scan(c)
    PROVE  Box!Return(c) \/ UNCHANGED BoxVars
<1>1. WaitType /\ wait[c] = "scan" /\ UNCHANGED <<pushed, stray, answer>>
    BY DEF BoxInv, WaiterInv, Scan, pushVars
<1>2. CASE Matching(c) = {}
    <2>1. wait' = [wait EXCEPT ![c] = "emplace"] /\ result' = result
        BY <1>2 DEF Scan, WaitGoes
    <2>2. Phase' = Phase
        BY <1>1, <2>1 DEF Phase, WaitType
    <2> QED BY <1>1, <2>1, <2>2 DEF BoxVars, HandedTo
<1>3. CASE Matching(c) # {}
    <2>1. PICK m \in Calls :
              /\ Unhanded(m) /\ TxOf[m] = TxOf[c] /\ Handed(c) = Nobody
              /\ wait' = [wait EXCEPT ![c] = "returned"]
              /\ result' = [result EXCEPT ![c] = m]
              /\ \A d \in Calls : Handed(d)' = IF d = c THEN m ELSE Handed(d)
        BY <1>3, ScanBoxInv
    <2>2. Box!For(m, c)
        BY <1>1, <2>1, ForCall DEF Phase
    <2>3. HandedTo' = [HandedTo EXCEPT ![c] = m]
        BY <2>1, Mapped
    <2>4. Phase[c] = "waiting" /\ Phase' = [Phase EXCEPT ![c] = "returned"]
        BY <1>1, <2>1, PhaseMapped DEF Phase
    <2> QED BY <1>1, <2>1, <2>2, <2>3, <2>4 DEF Box!Return, HandedTo, Phase
<1> QED BY <1>2, <1>3

LEMMA EmplaceRefines ==
    ASSUME BoxInv, NEW c \in Calls, Emplace(c)
    PROVE  Box!Return(c) \/ UNCHANGED BoxVars
<1>1. WaitType /\ wait[c] = "emplace" /\ UNCHANGED <<pushed, stray, answer>>
    BY DEF BoxInv, WaiterInv, Emplace, pushVars
<1>2. CASE waiters[TxOf[c]] = Nobody
    <2>1. wait' = [wait EXCEPT ![c] = "arm"] /\ result' = result
        BY <1>2 DEF Emplace, WaitGoes
    <2>2. Phase' = Phase
        BY <1>1, <2>1 DEF Phase, WaitType
    <2> QED BY <1>1, <2>1, <2>2 DEF BoxVars, HandedTo
<1>3. CASE waiters[TxOf[c]] # Nobody
    <2>1. /\ wait' = [wait EXCEPT ![c] = "returned"]
          /\ result' = [result EXCEPT ![c] = Nullopt]
        BY <1>3 DEF Emplace, Return
    <2>2. result[c] = Nobody
        BY <1>1 DEF BoxInv, HandInv
    <2>3. HandedTo' = HandedTo
        BY <1>1, <2>1, <2>2, BufferAssumption DEF HandedTo, WaitType
    <2>4. Phase[c] = "waiting" /\ Phase' = [Phase EXCEPT ![c] = "returned"]
        BY <1>1, <2>1, PhaseMapped DEF Phase
    <2> QED BY <1>1, <2>1, <2>3, <2>4 DEF Box!Return, HandedTo, Phase
<1> QED BY <1>2, <1>3

LEMMA ResumeRefines ==
    ASSUME BoxInv, NEW c \in Calls, Resume(c)
    PROVE  Box!Return(c)
<1>1. WaitType /\ wait[c] \in {"signalled", "timedout"} /\ pushed' = pushed
    BY DEF BoxInv, WaiterInv, Resume, pushVars
<1>2. /\ HandedTo' = HandedTo /\ HandedTo[c] = Handed(c)
      /\ wait' = [wait EXCEPT ![c] = "returned"]
      /\ \/ result' = [result EXCEPT ![c] = Nullopt]
         \/ Handed(c) # Nobody /\ result' = [result EXCEPT ![c] = Handed(c)]
    BY ResumeBoxInv, Mapped
<1>3. Phase[c] = "waiting" /\ Phase' = [Phase EXCEPT ![c] = "returned"]
    BY <1>1, <1>2, PhaseMapped DEF Phase
<1>4. \/ stray' = stray
      \/ \E m \in Calls : /\ Box!Free(m) /\ TxOf[m] = TxOf[c]
                          /\ stray' = stray \union {m}
    <2>1. Unhanded(message) => Box!Free(message)
        BY Mapped DEF Unhanded, Box!Free, HandedTo
    <2> QED BY <2>1, ResumeBoxInv
<1> QED BY <1>1, <1>2, <1>3, <1>4 DEF Box!Return, HandedTo, Phase

LEMMA PushRefines ==
    ASSUME BoxInv,
           \/ (\E c \in Calls : Push(c)) \/ Find \/ Store \/ Deliver \/ Signal \/ Erase
           \/ ReachesNothing \/ Crash
    PROVE  Box!Next \/ UNCHANGED BoxVars
<1>1. WaitType
    BY DEF BoxInv, WaiterInv
<1>2. ASSUME NEW c \in Calls, Push(c)
      PROVE  Box!Send(c)
    BY <1>2 DEF Push, Box!Send, waitVars
<1>3. CASE Deliver
    <2>1. /\ message \in Calls /\ it \in Calls
          /\ TxOf[message] = TxOf[it] \/ message \in stray
          /\ Unhanded(message) /\ Handed(it) = Nobody /\ wait[it] \notin {"idle", "returned"}
          /\ HandedTo' = [HandedTo EXCEPT ![it] = message]
        BY <1>3, DeliverBoxInv, Mapped
    <2>2. Box!For(message, it)
        BY <2>1, ForCall DEF Phase
    <2>3. Box!Hand(message, it)
        BY <1>3, <2>1, <2>2 DEF Box!Hand, Deliver, waitVars, HandedTo
    <2>4. message \in Calls /\ it \in Calls
        BY <2>1
    <2>5. \E m \in Calls : \E c \in Calls : Box!Hand(m, c)
        BY <2>3, <2>4 DEF Box!Hand
    <2> QED BY <2>5 DEF Box!Next
<1>4. CASE Find \/ Store \/ Erase \/ ReachesNothing \/ Crash
    BY <1>4 DEF Find, Store, Erase, ReachesNothing, Crash, waitVars, BoxVars, HandedTo, Phase
<1>5. CASE Signal
    <2>1. UNCHANGED <<pushed, stray, answer, result>>
          /\ wait' = [wait EXCEPT ![it] = IF @ = "waiting" THEN "signalled" ELSE @]
        BY <1>5 DEF Signal
    <2>2. Phase' = Phase
        BY <1>1, <2>1 DEF Phase, WaitType
    <2> QED BY <2>1, <2>2 DEF BoxVars, HandedTo
<1>6. (\E c \in Calls : Push(c)) => Box!Next
    BY <1>2 DEF Box!Next
<1> QED BY <1>3, <1>4, <1>5, <1>6

LEMMA NextRefines ==
    BoxInv /\ [Next]_vars => [Box!Next]_BoxVars
<1> SUFFICES ASSUME BoxInv, [Next]_vars PROVE Box!Next \/ UNCHANGED BoxVars
    OBVIOUS
<1>1. ASSUME NEW c \in Calls,
             Begin(c) \/ Scan(c) \/ Emplace(c) \/ Arm(c) \/ Timeout(c) \/ Resume(c)
      PROVE  Box!Next \/ UNCHANGED BoxVars
    <2>1. Box!Wait(c) \/ Box!Return(c) \/ UNCHANGED BoxVars
        BY <1>1, WaitRefines, ScanRefines, EmplaceRefines, ResumeRefines
    <2> QED BY <2>1 DEF Box!Next
<1>2. CASE \/ (\E c \in Calls : Push(c)) \/ Find \/ Store \/ Deliver \/ Signal \/ Erase
           \/ ReachesNothing \/ Crash
    BY <1>2, PushRefines
<1>3. CASE UNCHANGED vars
    BY <1>3 DEF vars, BoxVars, HandedTo, Phase
<1> QED BY <1>1, <1>2, <1>3 DEF Next

\* Although push and the waits interleave on two threads and push may write through an
\* entry that a wait has erased, an outcome is handed to one waiting call at most, and to
\* one of another transaction only if it went astray; a call returns what it was handed or
\* nothing.
THEOREM BufferImplementsMailbox == Spec => ImplementsMailbox
BY InitRefines, InitBoxInv, StepBoxInv, NextRefines, PTL
   DEF Spec, ImplementsMailbox, Box!Spec, BoxVars, HandedTo, Phase
=============================================================================
