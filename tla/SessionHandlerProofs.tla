------------------------ MODULE SessionHandlerProofs ------------------------
(***************************************************************************)
(* Theorems about the session handler, for every number of callers, tokens *)
(* and users, every capacity, token life and clock bound.                  *)
(***************************************************************************)
EXTENDS SessionHandler, FiniteSetTheorems, TLAPS

(***************************************************************************)
(* The state is well typed                                                 *)
(***************************************************************************)
\* One action adds at most one token to a vector that has room for it; all
\* the others leave it alone or shrink it.
LEMMA SessionsFinite ==
    ASSUME TypeOK
    PROVE  IsFiniteSet(sessions) /\ IsFiniteSet(issued)
           /\ Cardinality(sessions) \in Nat /\ Cardinality(issued) \in Nat
BY SetsAssumption, FS_Subset, FS_CardinalityType DEF TypeOK

LEMMA InitTypeOK == Init => TypeOK
<1> SUFFICES ASSUME Init PROVE TypeOK
    OBVIOUS
<1>1. Cardinality(sessions) <= MaxSessions
    BY NumbersAssumption, FS_EmptySet DEF Init
<1>2. 0 \in 0..MaxTime
    BY NumbersAssumption
<1> QED BY <1>1, <1>2 DEF Init, TypeOK, CallerPC, CleanerPC, DtorPC

LEMMA NewSessionTypeOK ==
    ASSUME TypeOK, NEW c \in Callers, NEW u \in Users, NewSession(c, u)
    PROVE  TypeOK'
<1>1. PICK t \in Tokens \ issued :
          /\ sessions' = sessions \union {t}
          /\ issued' = issued \union {t}
          /\ owner_identifier' = [owner_identifier EXCEPT ![t] = u]
          /\ life_ms' = [life_ms EXCEPT ![t] = now]
          /\ reply' = [reply EXCEPT ![c] = t]
    BY DEF NewSession, FreshTokens
<1>2. Cardinality(sessions') <= MaxSessions
    <2>1. Cardinality(sessions') = Cardinality(sessions) + 1
        BY <1>1, SessionsFinite, FS_AddElement DEF TypeOK
    <2>2. Cardinality(sessions) < MaxSessions /\ Cardinality(sessions) \in Nat
        BY SessionsFinite DEF NewSession, FreshTokens, HasRoom
    <2> QED BY <2>1, <2>2, NumbersAssumption
<1>3. /\ sessions' \subseteq issued' /\ issued' \subseteq Tokens
      /\ owner_identifier' \in [Tokens -> Users \union {Nullopt}]
      /\ life_ms' \in [Tokens -> 0..MaxTime]
      /\ reply' \in [Callers -> Tokens \union Users \union BOOLEAN \union {Nullopt}]
    BY <1>1 DEF TypeOK
<1>4. UNCHANGED <<clean, panic_clean, pc, cleaner, dtor, now, unswept>>
    BY DEF NewSession, FreshTokens
<1> QED BY <1>2, <1>3, <1>4 DEF TypeOK

LEMMA SweepTypeOK ==
    ASSUME TypeOK, Sweep
    PROVE  TypeOK'
<1>1. sessions' \subseteq sessions
    BY DEF Sweep
<1>2. Cardinality(sessions') <= MaxSessions
    <2>1. Cardinality(sessions') <= Cardinality(sessions)
          /\ Cardinality(sessions') \in Nat
        BY <1>1, SessionsFinite, FS_Subset, FS_CardinalityType
    <2> QED BY <2>1, SessionsFinite, NumbersAssumption DEF TypeOK
<1> QED BY <1>1, <1>2 DEF TypeOK, Sweep, CleanerGoes, CleanerPC

LEMMA NextTypeOK == TypeOK /\ [Next]_vars => TypeOK'
<1> SUFFICES ASSUME TypeOK, [Next]_vars PROVE TypeOK'
    OBVIOUS
<1> USE DEF TypeOK
<1>1. CASE \E c \in Callers, u \in Users : NewSession(c, u)
    BY <1>1, NewSessionTypeOK
<1>2. ASSUME NEW c \in Callers, RefuseSession(c) PROVE TypeOK'
    BY <1>2 DEF RefuseSession, CallerPC
<1>3. ASSUME NEW c \in Callers, RaisePanic(c) PROVE TypeOK'
    BY <1>3 DEF RaisePanic, CallerPC
<1>4. ASSUME NEW c \in Callers, NotifyPanic(c) PROVE TypeOK'
    BY <1>4 DEF NotifyPanic, CallerPC, Notified, CleanerPC
<1>5. ASSUME NEW c \in Callers, NEW t \in Tokens, ValidateSession(c, t)
      PROVE  TypeOK'
    BY <1>5 DEF ValidateSession, FindToken
<1>6. ASSUME NEW c \in Callers, NEW t \in Tokens, GetUsernameByToken(c, t)
      PROVE  TypeOK'
    BY <1>6 DEF GetUsernameByToken, FindToken
<1>7. CASE Relock \/ TestPredicate \/ Park \/ Timeout \/ SpuriousWake
           \/ StopCleaning \/ ClearPanic
    BY <1>7 DEF Relock, TestPredicate, Park, Timeout, SpuriousWake, StopCleaning,
                ClearPanic, CleanerGoes, CleanerPC
<1>8. CASE Sweep
    BY <1>8, SweepTypeOK
<1>9. CASE Destroy \/ NotifyDestroy \/ Join
    BY <1>9 DEF Destroy, NotifyDestroy, Join, DtorPC, Notified, CleanerPC
<1>10. CASE Tick \/ StepBack
    BY <1>10, NumbersAssumption DEF Tick, StepBack
<1>11. CASE UNCHANGED vars
    BY <1>11 DEF vars
<1> QED BY <1>1, <1>2, <1>3, <1>4, <1>5, <1>6, <1>7, <1>8, <1>9, <1>10, <1>11
        DEF Next

\* The vector never outgrows max_sessions, holds issued tokens only, and every
\* variable keeps its type, whatever the callers, the clean-up thread, the
\* destructor and the clock do.
THEOREM TypeCorrect == Spec => []TypeOK
BY InitTypeOK, NextTypeOK, PTL DEF Spec

(***************************************************************************)
(* A refused login is remembered until the vector has been swept           *)
(***************************************************************************)
\* The strengthening: the flag is up from the moment it is raised, also before
\* the notification, and nobody waits for a sweep when the flag is cleared,
\* because a login can be refused only while the clean-up thread is outside mtx.
RefusalInv ==
    /\ \A c \in unswept : pc[c] # "refused" => panic_clean
    /\ cleaner = "clear" => unswept = {}

LEMMA InitRefusalInv == Init => RefusalInv
BY DEF Init, RefusalInv

LEMMA NextRefusalInv == TypeOK /\ RefusalInv /\ [Next]_vars => RefusalInv'
<1> SUFFICES ASSUME TypeOK, RefusalInv, [Next]_vars PROVE RefusalInv'
    OBVIOUS
<1> USE DEF RefusalInv, TypeOK
<1>1. ASSUME NEW c \in Callers, NEW u \in Users, NewSession(c, u)
      PROVE  RefusalInv'
    BY <1>1 DEF NewSession, FreshTokens
<1>2. ASSUME NEW c \in Callers, RefuseSession(c) PROVE RefusalInv'
    BY <1>2 DEF RefuseSession, MayCall, MutexFree
<1>3. ASSUME NEW c \in Callers, RaisePanic(c) PROVE RefusalInv'
    BY <1>3 DEF RaisePanic
<1>4. ASSUME NEW c \in Callers, NotifyPanic(c) PROVE RefusalInv'
    BY <1>4 DEF NotifyPanic, Notified
<1>5. ASSUME NEW c \in Callers, NEW t \in Tokens,
             ValidateSession(c, t) \/ GetUsernameByToken(c, t)
      PROVE  RefusalInv'
    BY <1>5 DEF ValidateSession, FindToken, GetUsernameByToken
<1>6. CASE Relock \/ TestPredicate \/ Park \/ Timeout \/ SpuriousWake
           \/ StopCleaning
    BY <1>6 DEF Relock, TestPredicate, Park, Timeout, SpuriousWake, StopCleaning,
                CleanerGoes
<1>7. CASE Sweep
    BY <1>7 DEF Sweep
<1>8. CASE ClearPanic
    BY <1>8 DEF ClearPanic, CleanerGoes
<1>9. CASE Destroy \/ NotifyDestroy \/ Join
    BY <1>9 DEF Destroy, NotifyDestroy, Join, Notified
<1>10. CASE Tick \/ StepBack
    BY <1>10 DEF Tick, StepBack
<1>11. CASE UNCHANGED vars
    BY <1>11 DEF vars
<1> QED BY <1>1, <1>2, <1>3, <1>4, <1>5, <1>6, <1>7, <1>8, <1>9, <1>10, <1>11
        DEF Next

\* When a login has been refused and the vector not swept since, panic_clean is
\* up: whatever the interleaving of clean_inactive_sessions with cleanup_task,
\* clearing one request never drops a later one.
THEOREM RefusalNeverForgotten == Spec => []RefusalRemembered
<1>1. RefusalInv => RefusalRemembered
    BY DEF RefusalInv, RefusalRemembered
<1> QED BY <1>1, InitRefusalInv, NextRefusalInv, TypeCorrect, PTL DEF Spec

(***************************************************************************)
(* With a clock that never goes back the handler implements the store      *)
(***************************************************************************)
\* No token was renewed in the future, and a refused caller found all the
\* capacity issued.
StoreInv ==
    /\ \A t \in Tokens : life_ms[t] <= now
    /\ \A c \in Callers : pc[c] # "idle" => Cardinality(issued) >= MaxSessions

LEMMA InitStoreInv == Init => StoreInv
BY DEF Init, StoreInv

LEMMA NextStoreInv ==
    ASSUME MaxStepBack = 0
    PROVE  TypeOK /\ StoreInv /\ [Next]_vars => StoreInv'
<1> SUFFICES ASSUME TypeOK, StoreInv, [Next]_vars PROVE StoreInv'
    OBVIOUS
<1> USE DEF StoreInv, TypeOK
<1>1. ASSUME NEW c \in Callers, NEW u \in Users, NewSession(c, u)
      PROVE  StoreInv'
    <2>1. PICK t \in Tokens \ issued :
              /\ issued' = issued \union {t}
              /\ life_ms' = [life_ms EXCEPT ![t] = now]
        BY <1>1 DEF NewSession, FreshTokens
    <2>2. Cardinality(issued') = Cardinality(issued) + 1
        BY <2>1, SessionsFinite, FS_AddElement
    <2>3. now' = now /\ pc' = pc
        BY <1>1 DEF NewSession, FreshTokens
    <2>4. \A x \in Tokens : life_ms'[x] <= now'
        BY <2>1, <2>3
    <2>5. \A d \in Callers : pc'[d] # "idle" => Cardinality(issued') >= MaxSessions
        BY <2>2, <2>3, SessionsFinite, NumbersAssumption
    <2> QED BY <2>4, <2>5
<1>2. ASSUME NEW c \in Callers, RefuseSession(c) PROVE StoreInv'
    <2>1. Cardinality(sessions) <= Cardinality(issued)
        BY SessionsFinite, FS_Subset
    <2>2. Cardinality(issued) >= MaxSessions
        BY <1>2, <2>1, SessionsFinite, NumbersAssumption DEF RefuseSession, HasRoom
    <2> QED BY <1>2, <2>2 DEF RefuseSession
<1>3. ASSUME NEW c \in Callers, RaisePanic(c) \/ NotifyPanic(c) PROVE StoreInv'
    BY <1>3 DEF RaisePanic, NotifyPanic
<1>4. ASSUME NEW c \in Callers, NEW t \in Tokens,
             ValidateSession(c, t) \/ GetUsernameByToken(c, t)
      PROVE  StoreInv'
    BY <1>4 DEF ValidateSession, FindToken, GetUsernameByToken
<1>5. CASE Relock \/ TestPredicate \/ Park \/ Timeout \/ SpuriousWake \/ Sweep
           \/ StopCleaning \/ ClearPanic
    BY <1>5 DEF Relock, TestPredicate, Park, Timeout, SpuriousWake, Sweep,
                StopCleaning, ClearPanic
<1>6. CASE Destroy \/ NotifyDestroy \/ Join
    BY <1>6 DEF Destroy, NotifyDestroy, Join
<1>7. CASE Tick
    BY <1>7, NumbersAssumption DEF Tick
<1>8. ~StepBack
    BY DEF StepBack
<1>9. CASE UNCHANGED vars
    BY <1>9 DEF vars
<1> QED BY <1>1, <1>2, <1>3, <1>4, <1>5, <1>6, <1>7, <1>8, <1>9 DEF Next

\* The unsigned age is the true age when the renewal is not in the future.
LEMMA AgeIsDifference ==
    ASSUME NEW n \in 0..MaxTime, NEW l \in 0..MaxTime, l <= n
    PROVE  (n - l) % Word = n - l
<1>1. n - l \in Nat /\ n - l < Word
    BY NumbersAssumption
<1> QED BY <1>1, NumbersAssumption

LEMMA ActiveIsYoung ==
    ASSUME TypeOK, StoreInv, NEW t \in Tokens
    PROVE  Active(t) <=> now - life_ms[t] < MaxLife
BY AgeIsDifference DEF Active, TypeOK, StoreInv

\* The ticks left are positive exactly for the stored, active tokens.
LEMMA LeftType ==
    ASSUME TypeOK, StoreInv, NEW t \in Tokens
    PROVE  /\ LeftOf(t) \in Nat
           /\ LeftOf(t) > 0 <=> t \in sessions /\ Active(t)
<1>1. now \in Nat /\ life_ms[t] \in Nat /\ life_ms[t] <= now
    BY NumbersAssumption DEF TypeOK, StoreInv
<1> QED BY <1>1, ActiveIsYoung, NumbersAssumption DEF LeftOf

LEMMA InitRefines == Init => Store!Init
<1> SUFFICES ASSUME Init PROVE Store!Init
    OBVIOUS
<1>1. \A t \in Tokens : LeftOf(t) = 0 /\ OwnerOf(t) = Nullopt
    BY DEF Init, LeftOf, OwnerOf
<1> QED BY <1>1 DEF Init, Store!Init

\* What the abstract store sees of a step that touches neither the tokens nor
\* the clock.
LEMMA SameView ==
    ASSUME UNCHANGED <<sessions, life_ms, owner_identifier, now>>
    PROVE  \A t \in Tokens : LeftOf(t)' = LeftOf(t) /\ OwnerOf(t)' = OwnerOf(t)
BY DEF LeftOf, OwnerOf, Active

\* The instance has the definition of Cardinality of its own: the same one.
LEMMA SameCardinality == \A S : Store!Cardinality(S) = Cardinality(S)
BY DEF Store!Cardinality, Cardinality

LEMMA IssueRefines ==
    ASSUME TypeOK, StoreInv, NEW c \in Callers, NEW u \in Users, NewSession(c, u)
    PROVE  Store!Issue(c, u)
<1>1. PICK t \in Tokens \ issued :
          /\ sessions' = sessions \union {t}
          /\ issued' = issued \union {t}
          /\ owner_identifier' = [owner_identifier EXCEPT ![t] = u]
          /\ life_ms' = [life_ms EXCEPT ![t] = now]
          /\ reply' = [reply EXCEPT ![c] = t]
    BY DEF NewSession, FreshTokens
<1>2. now' = now /\ now \in 0..MaxTime
    BY DEF NewSession, FreshTokens, TypeOK
<1>3. Cardinality(Store!Live) < MaxSessions
    <2>1. Store!Live \subseteq sessions
        BY LeftType DEF Store!Live
    <2>2. Cardinality(Store!Live) <= Cardinality(sessions)
          /\ Cardinality(Store!Live) \in Nat
        BY <2>1, SessionsFinite, FS_Subset, FS_CardinalityType
    <2> QED BY <2>2, SessionsFinite, NumbersAssumption DEF NewSession, FreshTokens, HasRoom
<1>4. LeftOf(t)' = MaxLife /\ OwnerOf(t)' = u
    <2>1. (now - now) % Word = 0
        BY <1>2, AgeIsDifference, NumbersAssumption
    <2>2. life_ms'[t] = now /\ owner_identifier'[t] = u /\ t \in sessions'
        BY <1>1 DEF TypeOK
    <2>3. Active(t)'
        BY <1>2, <2>1, <2>2, NumbersAssumption DEF Active
    <2>4. MaxLife - (now - now) = MaxLife
        BY <1>2, NumbersAssumption
    <2> QED BY <1>2, <2>2, <2>3, <2>4 DEF LeftOf, OwnerOf
<1>5. \A x \in Tokens \ {t} : LeftOf(x)' = LeftOf(x) /\ OwnerOf(x)' = OwnerOf(x)
    BY <1>1, <1>2 DEF LeftOf, OwnerOf, Active, TypeOK
<1>6. [x \in Tokens |-> LeftOf(x)]' = [[x \in Tokens |-> LeftOf(x)] EXCEPT ![t] = MaxLife]
    BY <1>1, <1>4, <1>5
<1>7. [x \in Tokens |-> OwnerOf(x)]' = [[x \in Tokens |-> OwnerOf(x)] EXCEPT ![t] = u]
    BY <1>1, <1>4, <1>5
<1> QED BY <1>1, <1>3, <1>6, <1>7, SameCardinality DEF Store!Issue

LEMMA ValidateRefines ==
    ASSUME TypeOK, StoreInv, NEW c \in Callers, NEW t \in Tokens,
           ValidateSession(c, t)
    PROVE  Store!Validate(c, t)
<1>1. now' = now /\ now \in 0..MaxTime /\ sessions' = sessions
      /\ owner_identifier' = owner_identifier /\ issued' = issued
    BY DEF ValidateSession, FindToken, TypeOK
<1>2. reply' = [reply EXCEPT ![c] = LeftOf(t) > 0]
    <2>1. (LeftOf(t) > 0) = (t \in sessions /\ Active(t))
        BY LeftType
    <2> QED BY <2>1 DEF ValidateSession, FindToken
<1>3. \A x \in Tokens \ {t} : LeftOf(x)' = LeftOf(x) /\ OwnerOf(x)' = OwnerOf(x)
    BY <1>1 DEF ValidateSession, FindToken, LeftOf, OwnerOf, Active, TypeOK
<1>4. LeftOf(t)' = (IF LeftOf(t) > 0 THEN MaxLife ELSE 0) /\ OwnerOf(t)' = OwnerOf(t)
    <2>1. CASE t \in sessions /\ Active(t)
        <3>1. life_ms'[t] = now
            BY <2>1 DEF ValidateSession, FindToken, TypeOK
        <3>2. (now - now) % Word = 0 /\ MaxLife - (now - now) = MaxLife
            BY <1>1, AgeIsDifference, NumbersAssumption
        <3>3. Active(t)'
            BY <1>1, <3>1, <3>2, NumbersAssumption DEF Active
        <3> QED BY <1>1, <2>1, <3>1, <3>2, <3>3, LeftType DEF LeftOf, OwnerOf
    <2>2. CASE ~(t \in sessions /\ Active(t))
        <3>1. life_ms' = life_ms
            BY <2>2 DEF ValidateSession, FindToken
        <3>2. LeftOf(t) = 0
            BY <2>2 DEF LeftOf
        <3> QED BY <1>1, <3>1, <3>2, SameView
    <2> QED BY <2>1, <2>2
<1>5. [x \in Tokens |-> OwnerOf(x)]' = [x \in Tokens |-> OwnerOf(x)]
    BY <1>3, <1>4
<1>6. [x \in Tokens |-> LeftOf(x)]' =
      [[x \in Tokens |-> LeftOf(x)] EXCEPT ![t] = IF @ > 0 THEN MaxLife ELSE 0]
    BY <1>3, <1>4
<1> QED BY <1>1, <1>2, <1>5, <1>6 DEF Store!Validate

LEMMA RefuseRefines ==
    ASSUME TypeOK, StoreInv, NEW c \in Callers, NotifyPanic(c)
    PROVE  Store!Refuse(c)
<1>1. Cardinality(issued) >= MaxSessions
    BY DEF NotifyPanic, StoreInv
<1>2. \A t \in Tokens : LeftOf(t)' = LeftOf(t) /\ OwnerOf(t)' = OwnerOf(t)
    BY SameView DEF NotifyPanic
<1> QED BY <1>1, <1>2, SameCardinality DEF NotifyPanic, Store!Refuse

LEMMA LookupRefines ==
    ASSUME NEW c \in Callers, NEW t \in Tokens, GetUsernameByToken(c, t)
    PROVE  Store!Lookup(c, t)
<1>1. \A x \in Tokens : LeftOf(x)' = LeftOf(x) /\ OwnerOf(x)' = OwnerOf(x)
    BY SameView DEF GetUsernameByToken, FindToken
<1> QED BY <1>1 DEF GetUsernameByToken, FindToken, OwnerOf, Store!Lookup

\* A tick takes one from every token that has ticks left, and a token whose
\* last tick passes is no longer active.
LEMMA ElapseRefines ==
    ASSUME TypeOK, TypeOK', StoreInv, StoreInv', Tick
    PROVE  Store!Elapse
<1>1. now' = now + 1 /\ sessions' = sessions /\ life_ms' = life_ms
      /\ owner_identifier' = owner_identifier /\ issued' = issued /\ reply' = reply
    BY DEF Tick
<1>2. ASSUME NEW t \in Tokens
      PROVE  /\ LeftOf(t)' = IF LeftOf(t) > 0 THEN LeftOf(t) - 1 ELSE 0
             /\ OwnerOf(t)' = IF LeftOf(t) > 1 THEN OwnerOf(t) ELSE Nullopt
    <2>1. now \in Nat /\ life_ms[t] \in Nat /\ life_ms[t] <= now
        BY NumbersAssumption DEF TypeOK, StoreInv
    <2>2. Active(t) <=> now - life_ms[t] < MaxLife
        BY ActiveIsYoung
    <2>3. Active(t)' <=> now' - life_ms'[t] < MaxLife
        <3>1. now' \in 0..MaxTime /\ life_ms'[t] \in 0..MaxTime /\ life_ms'[t] <= now'
            BY DEF TypeOK, StoreInv
        <3>2. (now' - life_ms'[t]) % Word = now' - life_ms'[t]
            BY <3>1, AgeIsDifference
        <3> QED BY <3>2 DEF Active
    <2> QED BY <1>1, <2>1, <2>2, <2>3, NumbersAssumption DEF LeftOf, OwnerOf
<1> QED BY <1>1, <1>2 DEF Store!Elapse

\* Erasing an expired token is invisible.
LEMMA SweepRefines ==
    ASSUME Sweep
    PROVE  \A t \in Tokens : LeftOf(t)' = LeftOf(t) /\ OwnerOf(t)' = OwnerOf(t)
<1>1. now' = now /\ life_ms' = life_ms /\ owner_identifier' = owner_identifier
      /\ sessions' = {t \in sessions : Active(t)}
    BY DEF Sweep
<1>2. \A t \in Tokens : (t \in sessions' /\ Active(t)') <=> (t \in sessions /\ Active(t))
    BY <1>1 DEF Active
<1> QED BY <1>1, <1>2 DEF LeftOf, OwnerOf

LEMMA NextRefines ==
    ASSUME MaxStepBack = 0
    PROVE  TypeOK /\ TypeOK' /\ StoreInv /\ StoreInv' /\ [Next]_vars
           => [Store!Next]_(Store!vars)
<1> SUFFICES ASSUME TypeOK, TypeOK', StoreInv, StoreInv', [Next]_vars
             PROVE  Store!Next \/ UNCHANGED Store!vars
    OBVIOUS
<1>1. ASSUME NEW c \in Callers, NEW u \in Users, NewSession(c, u)
      PROVE  Store!Next
    BY <1>1, IssueRefines DEF Store!Next
<1>2. ASSUME NEW c \in Callers, NotifyPanic(c) PROVE Store!Next
    BY <1>2, RefuseRefines DEF Store!Next
<1>3. ASSUME NEW c \in Callers, NEW t \in Tokens, ValidateSession(c, t)
      PROVE  Store!Next
    BY <1>3, ValidateRefines DEF Store!Next
<1>4. ASSUME NEW c \in Callers, NEW t \in Tokens, GetUsernameByToken(c, t)
      PROVE  Store!Next
    BY <1>4, LookupRefines DEF Store!Next
<1>5. CASE Tick
    BY <1>5, ElapseRefines DEF Store!Next
<1>6. CASE Sweep
    BY <1>6, SweepRefines DEF Sweep, Store!vars
<1>7. ASSUME NEW c \in Callers, RefuseSession(c) \/ RaisePanic(c)
      PROVE  UNCHANGED Store!vars
    BY <1>7, SameView DEF RefuseSession, RaisePanic, Store!vars
<1>8. CASE Relock \/ TestPredicate \/ Park \/ Timeout \/ SpuriousWake
           \/ StopCleaning \/ ClearPanic
    BY <1>8, SameView DEF Relock, TestPredicate, Park, Timeout, SpuriousWake,
                StopCleaning, ClearPanic, Store!vars
<1>9. CASE Destroy \/ NotifyDestroy \/ Join
    BY <1>9, SameView DEF Destroy, NotifyDestroy, Join, Store!vars
<1>10. ~StepBack
    BY DEF StepBack
<1>11. CASE UNCHANGED vars
    BY <1>11, SameView DEF vars, Store!vars
<1> QED BY <1>1, <1>2, <1>3, <1>4, <1>5, <1>6, <1>7, <1>8, <1>9, <1>10, <1>11
        DEF Next

\* When the wall clock is never set back, what callers see of the vector, the
\* mutex and the clean-up thread is the abstract store: a token is valid for
\* exactly MaxLife ticks after its issue or last validation, its owner is the
\* user that logged in, and no sweep is ever visible.
THEOREM HandlerImplementsStore == MaxStepBack = 0 => (Spec => ImplementsStore)
<1> SUFFICES ASSUME MaxStepBack = 0 PROVE Spec => Store!Spec
    BY DEF ImplementsStore
<1>1. TypeOK /\ StoreInv /\ [Next]_vars => StoreInv'
    BY NextStoreInv
<1>2. TypeOK /\ TypeOK' /\ StoreInv /\ StoreInv' /\ [Next]_vars
      => [Store!Next]_(Store!vars)
    BY NextRefines
<1> QED BY <1>1, <1>2, InitStoreInv, InitRefines, TypeCorrect, PTL
        DEF Spec, Store!Spec
=============================================================================
