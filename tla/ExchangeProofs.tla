--------------------------- MODULE ExchangeProofs ---------------------------
(***************************************************************************)
(* Where each request of the server is, and that the server implements the *)
(* exchange of requests and answers, for every number of connections and   *)
(* of requests on each.                                                    *)
(***************************************************************************)
EXTENDS HttpServerProofs, FiniteSetTheorems

(***************************************************************************)
(* Sequences in which nothing occurs twice                                 *)
(***************************************************************************)
Distinct(s) == \A i, j \in DOMAIN s : s[i] = s[j] => i = j

LEMMA TailKeeps ==
    ASSUME NEW S, NEW s \in Seq(S), s # <<>>, Distinct(s)
    PROVE  /\ Distinct(Tail(s)) /\ In(Head(s), s)
           /\ \A x : In(x, Tail(s)) <=> In(x, s) /\ x # Head(s)
<1>1. /\ 1 \in DOMAIN s /\ Head(s) = s[1]
      /\ \A k \in DOMAIN Tail(s) : k + 1 \in DOMAIN s /\ Tail(s)[k] = s[k + 1]
      /\ \A k \in DOMAIN s : s[k] = Head(s) \/ \E j \in DOMAIN Tail(s) : Tail(s)[j] = s[k]
    BY Taken
<1>2. Tail(s) \in Seq(S) /\ DOMAIN Tail(s) \subseteq Nat \ {0}
    BY Taken, LenProperties
<1>3. Distinct(Tail(s))
    <2>1. ASSUME NEW i \in DOMAIN Tail(s), NEW j \in DOMAIN Tail(s), Tail(s)[i] = Tail(s)[j]
          PROVE  i = j
        <3>1. i + 1 = j + 1
            BY <1>1, <2>1 DEF Distinct
        <3> QED BY <1>2, <3>1
    <2> QED BY <2>1 DEF Distinct
<1>4. \A k \in DOMAIN Tail(s) : Tail(s)[k] # Head(s)
    <2>1. ASSUME NEW k \in DOMAIN Tail(s), Tail(s)[k] = Head(s)
          PROVE  FALSE
        <3>1. k + 1 = 1
            BY <1>1, <2>1 DEF Distinct
        <3> QED BY <1>2, <3>1
    <2> QED BY <2>1
<1>5. ASSUME NEW x
      PROVE  In(x, Tail(s)) <=> In(x, s) /\ x # Head(s)
    <2>1. ASSUME NEW j \in DOMAIN Tail(s), Tail(s)[j] = x
          PROVE  In(x, s) /\ x # Head(s)
        BY <1>1, <1>4, <2>1 DEF In
    <2>2. ASSUME NEW j \in DOMAIN s, s[j] = x, x # Head(s)
          PROVE  In(x, Tail(s))
        BY <1>1, <2>2 DEF In
    <2> QED BY <2>1, <2>2 DEF In
<1> QED BY <1>1, <1>3, <1>5 DEF In

LEMMA AppendKeeps ==
    ASSUME NEW S, NEW s \in Seq(S), NEW e \in S
    PROVE  /\ \A x : In(x, Append(s, e)) <=> In(x, s) \/ x = e
           /\ Distinct(s) /\ ~In(e, s) => Distinct(Append(s, e))
<1>1. /\ \A k \in 1..Len(s) : Append(s, e)[k] = s[k]
      /\ Append(s, e)[Len(s) + 1] = e
      /\ Append(s, e) \in Seq(S) /\ Len(Append(s, e)) = Len(s) + 1
    BY AppendProperties
<1>2. Len(s) \in Nat /\ DOMAIN s = 1..Len(s) /\ DOMAIN Append(s, e) = 1..(Len(s) + 1)
    BY <1>1, LenProperties
<1>3. \A x : In(x, Append(s, e)) <=> In(x, s) \/ x = e
    BY Added DEF In
<1>4. ASSUME Distinct(s), ~In(e, s),
             NEW i \in 1..(Len(s) + 1), NEW j \in 1..(Len(s) + 1),
             Append(s, e)[i] = Append(s, e)[j]
      PROVE  i = j
    <2>1. CASE i \in 1..Len(s) /\ j \in 1..Len(s)
        BY <1>1, <1>2, <1>4, <2>1 DEF Distinct
    <2>2. CASE i = Len(s) + 1 /\ j \in 1..Len(s)
        BY <1>1, <1>2, <1>4, <2>2 DEF In
    <2>3. CASE i \in 1..Len(s) /\ j = Len(s) + 1
        BY <1>1, <1>2, <1>4, <2>3 DEF In
    <2> QED BY <1>2, <2>1, <2>2, <2>3
<1> QED BY <1>2, <1>3, <1>4 DEF Distinct

LEMMA TimesDistinct ==
    ASSUME NEW s, NEW r, Distinct(s)
    PROVE  Times(r, s) = IF In(r, s) THEN 1 ELSE 0
<1>1. CASE In(r, s)
    <2>1. PICK k \in DOMAIN s : s[k] = r
        BY <1>1 DEF In
    <2>2. {j \in DOMAIN s : s[j] = r} = {k}
        BY <2>1 DEF Distinct
    <2> QED BY <1>1, <2>2, FS_Singleton DEF Times
<1>2. CASE ~In(r, s)
    <2>1. {j \in DOMAIN s : s[j] = r} = {}
        BY <1>2 DEF In
    <2> QED BY <1>2, <2>1, FS_EmptySet DEF Times
<1> QED BY <1>1, <1>2

(***************************************************************************)
(* The place of a request                                                  *)
(***************************************************************************)
Place == {"unread", "queued", "running", "posted", "waiting", "delivered", "given up"}

\* r is at p and nowhere else.
IsAt(r, p) ==
    /\ In(r, requests) <=> p = "queued"
    /\ r \in tasks <=> p = "running"
    /\ In(r, posted) <=> p = "posted"
    /\ In(r, responses[Conn(r)]) <=> p = "waiting"
    /\ r \in delivered <=> p = "delivered"
    /\ r \in unanswered <=> p = "given up"
    /\ r[2] <= sent[Conn(r)] <=> p # "unread"

\* The requests of a client are queued in the order in which they were sent.
InOrder == \A i, j \in DOMAIN requests :
               i < j /\ Conn(requests[i]) = Conn(requests[j])
                   => requests[i][2] < requests[j][2]

PlaceInv ==
    /\ \A r \in Ids : \E p \in Place : IsAt(r, p)
    /\ InOrder
    /\ Distinct(posted)
    /\ \A c \in Conns : Distinct(responses[c])
    /\ \A c \in Conns : \A k \in DOMAIN responses[c] : Conn(responses[c][k]) = c

\* r goes from one place to another, and every other request stays where it is.
Moves(r, from, to) ==
    /\ r \in Ids /\ IsAt(r, from) /\ IsAt(r, to)'
    /\ \A q \in Ids : q # r => \A p \in Place : IsAt(q, p) => IsAt(q, p)'

LEMMA PlaceOf ==
    ASSUME PlaceInv, NEW r \in Ids
    PROVE  \E p \in Place : IsAt(r, p)
BY DEF PlaceInv

LEMMA OnePlace ==
    ASSUME NEW r, NEW p, NEW q, IsAt(r, p), IsAt(r, q), p \in Place, q \in Place
    PROVE  p = q
BY DEF IsAt, Place

LEMMA IdParts ==
    \A r \in Ids : r[2] \in Nat \ {0} /\ Conn(r) \in Conns /\ r = <<Conn(r), r[2]>>
<1>1. ASSUME NEW c \in Conns, NEW r \in {c} \X (1..MaxRequests[c])
      PROVE  r[2] \in Nat \ {0} /\ r[1] = c /\ r = <<r[1], r[2]>>
    <2>1. MaxRequests[c] \in Nat
        BY MaxRequestsAssumption
    <2> QED BY <2>1
<1> QED BY <1>1 DEF Ids, Conn

\* Where the others are is known once it is known where the one that moved is.
LEMMA AllPlaced ==
    ASSUME PlaceInv, NEW r, NEW from \in Place, NEW to \in Place, Moves(r, from, to)
    PROVE  \A q \in Ids : \E p \in Place : IsAt(q, p)'
BY PlaceOf DEF Moves

\* What the places depend on.
Whereabouts == <<requests, tasks, posted, responses, delivered, unanswered, sent>>

LEMMA AllStay ==
    ASSUME PlaceInv, UNCHANGED Whereabouts
    PROVE  PlaceInv' /\ \A r \in Ids, p \in Place : IsAt(r, p) => IsAt(r, p)'
<1>1. \A r \in Ids, p \in Place : IsAt(r, p) <=> IsAt(r, p)'
    BY DEF Whereabouts, IsAt, In
<1>2. \A r \in Ids : \E p \in Place : IsAt(r, p)'
    BY <1>1, PlaceOf
<1>3. UNCHANGED <<requests, posted, responses>>
    BY DEF Whereabouts
<1>4. InOrder' /\ Distinct(posted)' /\ \A c \in Conns : Distinct(responses[c])'
    BY <1>3 DEF PlaceInv, InOrder, Distinct
<1>5. \A c \in Conns : \A k \in DOMAIN responses'[c] : Conn(responses'[c][k]) = c
    BY <1>3 DEF PlaceInv
<1> QED BY <1>1, <1>2, <1>4, <1>5 DEF PlaceInv

LEMMA ReadMoves ==
    ASSUME ServerInv, PlaceInv, NEW c \in Conns, ReadRequest(c)
    PROVE  PlaceInv' /\ \E r \in Ids : r = <<c, sent[c] + 1>> /\ Moves(r, "unread", "queued")
<1>1. /\ sent \in [Conns -> Nat] /\ sent[c] < MaxRequests[c] /\ MaxRequests[c] \in Nat
      /\ requests \in Seq(Ids)
    BY MaxRequestsAssumption DEF ReadRequest, ServerInv, EndsType, MainType, StepInv
<1>0. PICK r \in Ids : r = <<c, sent[c] + 1>>
    <2>1. sent[c] + 1 \in 1..MaxRequests[c]
        BY <1>1
    <2> QED BY <2>1, RequestIds
<1>2. Conn(r) = c /\ r[2] = sent[c] + 1
    BY <1>0 DEF Conn
<1>3. /\ requests' = Append(requests, r) /\ sent' = [sent EXCEPT ![c] = sent[c] + 1]
      /\ UNCHANGED <<tasks, posted, responses, delivered, unanswered>>
    BY <1>0 DEF ReadRequest, wayOut, settled
<1>4. \A q \in Ids : q # r => (Conn(q) = c => q[2] # sent[c] + 1)
    BY <1>0, IdParts
<1>5. \A x : In(x, requests') <=> In(x, requests) \/ x = r
    BY <1>1, <1>2, <1>3, AppendKeeps
<1>6. IsAt(r, "unread")
    <2>1. ~(r[2] <= sent[Conn(r)])
        BY <1>1, <1>2
    <2>2. PICK p \in Place : IsAt(r, p)
        BY <1>2, PlaceOf
    <2>3. p = "unread"
        BY <2>1, <2>2 DEF IsAt
    <2> QED BY <2>2, <2>3
<1>7. IsAt(r, "queued")'
    <2>1. r[2] <= sent'[Conn(r)]
        BY <1>1, <1>2, <1>3
    <2> QED BY <1>3, <1>5, <1>6, <2>1 DEF IsAt, In
<1>8. ASSUME NEW q \in Ids, q # r, NEW p \in Place, IsAt(q, p)
      PROVE  IsAt(q, p)'
    <2>1. q[2] <= sent'[Conn(q)] <=> q[2] <= sent[Conn(q)]
        <3>1. q[2] \in Nat /\ Conn(q) \in Conns
            BY IdParts
        <3>2. CASE Conn(q) = c
            BY <1>1, <1>3, <1>4, <1>8, <3>1, <3>2
        <3>3. CASE Conn(q) # c
            BY <1>1, <1>3, <3>1, <3>3
        <3> QED BY <3>2, <3>3
    <2> QED BY <1>3, <1>5, <1>8, <2>1 DEF IsAt, In
<1>9. Moves(r, "unread", "queued")
    BY <1>2, <1>6, <1>7, <1>8 DEF Moves
<1>10. InOrder'
    <2>1. /\ Len(requests) \in Nat /\ DOMAIN requests = 1..Len(requests)
          /\ DOMAIN requests' = 1..(Len(requests) + 1)
          /\ \A k \in 1..Len(requests) : requests'[k] = requests[k] /\ requests[k] \in Ids
          /\ requests'[Len(requests) + 1] = r
        BY <1>1, <1>2, <1>3, AppendProperties, LenProperties, ElementOfSeq
    <2>2. ASSUME NEW i \in 1..Len(requests), Conn(requests[i]) = c
          PROVE  requests[i][2] < r[2]
        <3>1. PICK p \in Place : IsAt(requests[i], p)
            BY <2>1, PlaceOf
        <3>2. p = "queued"
            BY <2>1, <3>1 DEF IsAt, In
        <3>3. requests[i][2] <= sent[c]
            BY <2>2, <3>1, <3>2 DEF IsAt
        <3>4. requests[i][2] \in Nat
            BY <2>1, IdParts
        <3> QED BY <1>1, <1>2, <3>3, <3>4
    <2>3. ASSUME NEW i \in DOMAIN requests', NEW j \in DOMAIN requests', i < j,
                 Conn(requests'[i]) = Conn(requests'[j])
          PROVE  requests'[i][2] < requests'[j][2]
        <3>1. i \in 1..Len(requests)
            BY <2>1, <2>3
        <3>2. CASE j \in 1..Len(requests)
            BY <2>1, <2>3, <3>1, <3>2 DEF PlaceInv, InOrder
        <3>3. CASE j = Len(requests) + 1
            BY <1>2, <2>1, <2>2, <2>3, <3>1, <3>3
        <3> QED BY <2>1, <3>2, <3>3
    <2> QED BY <2>3 DEF InOrder
<1>11. \A q \in Ids : \E p \in Place : IsAt(q, p)'
    BY <1>9, AllPlaced DEF Place
<1>12. PlaceInv'
    <2>1. /\ Distinct(posted)' /\ \A d \in Conns : Distinct(responses[d])'
          /\ \A d \in Conns : \A k \in DOMAIN responses'[d] : Conn(responses'[d][k]) = d
        BY <1>3 DEF PlaceInv, Distinct
    <2> QED BY <1>10, <1>11, <2>1 DEF PlaceInv
<1> QED BY <1>0, <1>9, <1>12

LEMMA QueueDistinct ==
    ASSUME ServerInv, PlaceInv
    PROVE  Distinct(requests)
<1>1. /\ DOMAIN requests \subseteq Nat
      /\ \A k \in DOMAIN requests : requests[k] \in Ids
    BY LenProperties, ElementOfSeq DEF ServerInv, MainType
<1>2. ASSUME NEW i \in DOMAIN requests, NEW j \in DOMAIN requests, i < j
      PROVE  requests[i] # requests[j]
    <2>1. requests[i][2] \in Nat
        BY <1>1, IdParts
    <2> QED BY <1>2, <2>1 DEF PlaceInv, InOrder
<1> QED BY <1>1, <1>2 DEF Distinct

\* The front of the queue leaves it.
LEMMA FrontLeaves ==
    ASSUME ServerInv, PlaceInv, requests # <<>>, requests' = Tail(requests),
           NEW r, r = Head(requests)
    PROVE  /\ r \in Ids /\ IsAt(r, "queued") /\ InOrder'
           /\ \A x : In(x, requests') <=> In(x, requests) /\ x # r
           /\ \A q \in Ids : Conn(q) = Conn(r) /\ q[2] < r[2] => ~In(q, requests)
<1>1. /\ requests \in Seq(Ids) /\ r \in Ids /\ 1 \in DOMAIN requests /\ r = requests[1]
      /\ DOMAIN requests = 1..Len(requests) /\ Len(requests) \in Nat
      /\ DOMAIN requests' \subseteq Nat /\ \A k \in DOMAIN requests : requests[k] \in Ids
    BY Taken, LenProperties, ElementOfSeq DEF ServerInv, MainType
<1>2. \A k \in DOMAIN requests' : k + 1 \in DOMAIN requests /\ requests'[k] = requests[k + 1]
    BY <1>1, Taken
<1>3. IsAt(r, "queued")
    BY <1>1, PlaceOf DEF IsAt, In
<1>4. InOrder'
    BY <1>1, <1>2 DEF PlaceInv, InOrder
<1>5. ASSUME NEW k \in DOMAIN requests, Conn(requests[k]) = Conn(r), k # 1
      PROVE  r[2] < requests[k][2]
    BY <1>1, <1>5 DEF PlaceInv, InOrder
<1>6. Distinct(requests)
    BY QueueDistinct
<1>7. \A x : In(x, requests') <=> In(x, requests) /\ x # r
    BY <1>1, <1>6, TailKeeps
<1>8. ASSUME NEW q \in Ids, Conn(q) = Conn(r), q[2] < r[2], In(q, requests)
      PROVE  FALSE
    <2>1. q[2] \in Nat /\ r[2] \in Nat
        BY <1>1, IdParts
    <2>2. PICK k \in DOMAIN requests : requests[k] = q
        BY <1>8 DEF In
    <2> QED BY <1>1, <1>5, <1>8, <2>1, <2>2
<1> QED BY <1>1, <1>3, <1>4, <1>7, <1>8

LEMMA DispatchMoves ==
    ASSUME ServerInv, PlaceInv, Dispatch
    PROVE  PlaceInv' /\ \E r \in Ids : r = Head(requests) /\ Moves(r, "queued", "running")
<1>1. /\ requests # <<>> /\ requests' = Tail(requests)
      /\ tasks' = tasks \union {Head(requests)}
      /\ UNCHANGED <<posted, responses, delivered, unanswered, sent>>
    BY DEF Dispatch, RestOfQueue, wayOut, settled
<1>2. PICK r : r = Head(requests)
    OBVIOUS
<1>3. /\ r \in Ids /\ IsAt(r, "queued") /\ InOrder'
      /\ \A x : In(x, requests') <=> In(x, requests) /\ x # r
    BY <1>1, <1>2, FrontLeaves
<1>4. IsAt(r, "running")'
    BY <1>1, <1>2, <1>3 DEF IsAt, In
<1>5. ASSUME NEW q \in Ids, q # r, NEW p \in Place, IsAt(q, p)
      PROVE  IsAt(q, p)'
    BY <1>1, <1>2, <1>3, <1>5 DEF IsAt, In
<1>6. Moves(r, "queued", "running")
    BY <1>3, <1>4, <1>5 DEF Moves
<1>7. PlaceInv'
    <2>1. \A q \in Ids : \E p \in Place : IsAt(q, p)'
        BY <1>6, AllPlaced DEF Place
    <2>2. /\ Distinct(posted)' /\ \A c \in Conns : Distinct(responses[c])'
          /\ \A c \in Conns : \A k \in DOMAIN responses'[c] : Conn(responses'[c][k]) = c
        BY <1>1 DEF PlaceInv, Distinct
    <2> QED BY <1>3, <2>1, <2>2 DEF PlaceInv
<1> QED BY <1>2, <1>3, <1>6, <1>7

LEMMA EraseMoves ==
    ASSUME ServerInv, PlaceInv, EraseClients
    PROVE  PlaceInv' /\ \E r \in Ids : r = Head(requests) /\ Moves(r, "queued", "given up")
<1>1. /\ requests # <<>> /\ requests' = Tail(requests)
      /\ unanswered' = unanswered \union {Head(requests)}
      /\ UNCHANGED <<tasks, posted, responses, delivered, sent>>
    BY DEF EraseClients, MainGoes, RestOfQueue, wayOut, ServerInv, StepInv
<1>2. PICK r : r = Head(requests)
    OBVIOUS
<1>3. /\ r \in Ids /\ IsAt(r, "queued") /\ InOrder'
      /\ \A x : In(x, requests') <=> In(x, requests) /\ x # r
    BY <1>1, <1>2, FrontLeaves
<1>4. IsAt(r, "given up")'
    BY <1>1, <1>2, <1>3 DEF IsAt, In
<1>5. ASSUME NEW q \in Ids, q # r, NEW p \in Place, IsAt(q, p)
      PROVE  IsAt(q, p)'
    BY <1>1, <1>2, <1>3, <1>5 DEF IsAt, In
<1>6. Moves(r, "queued", "given up")
    BY <1>3, <1>4, <1>5 DEF Moves
<1>7. PlaceInv'
    <2>1. \A q \in Ids : \E p \in Place : IsAt(q, p)'
        BY <1>6, AllPlaced DEF Place
    <2>2. /\ Distinct(posted)' /\ \A c \in Conns : Distinct(responses[c])'
          /\ \A c \in Conns : \A k \in DOMAIN responses'[c] : Conn(responses'[c][k]) = c
        BY <1>1 DEF PlaceInv, Distinct
    <2> QED BY <1>3, <2>1, <2>2 DEF PlaceInv
<1> QED BY <1>2, <1>3, <1>6, <1>7

\* The queue of requests stays: so does the order in it.
LEMMA OrderStays ==
    ASSUME PlaceInv, UNCHANGED requests
    PROVE  InOrder'
BY DEF PlaceInv, InOrder

LEMMA RunningIsAt ==
    ASSUME PlaceInv, NEW r \in Ids, r \in tasks
    PROVE  IsAt(r, "running")
BY PlaceOf DEF IsAt

LEMMA AnswerMoves ==
    ASSUME ServerInv, PlaceInv, NEW r \in Ids, CoroutineAnswers(r)
    PROVE  PlaceInv' /\ Moves(r, "running", "posted")
<1>1. /\ r \in tasks /\ tasks' = tasks \ {r} /\ posted' = Append(posted, r)
      /\ UNCHANGED <<requests, responses, delivered, unanswered, sent>>
      /\ posted \in Seq(Ids)
    BY DEF CoroutineAnswers, settled, ServerInv, WayType
<1>2. IsAt(r, "running")
    BY <1>1, RunningIsAt
<1>3. /\ \A x : In(x, posted') <=> In(x, posted) \/ x = r
      /\ ~In(r, posted) => Distinct(posted')
    BY <1>1, AppendKeeps DEF PlaceInv
<1>4. IsAt(r, "posted")'
    BY <1>1, <1>2, <1>3 DEF IsAt, In
<1>5. ASSUME NEW q \in Ids, q # r, NEW p \in Place, IsAt(q, p)
      PROVE  IsAt(q, p)'
    BY <1>1, <1>3, <1>5 DEF IsAt, In
<1>6. Moves(r, "running", "posted")
    BY <1>2, <1>4, <1>5 DEF Moves
<1>7. PlaceInv'
    <2>1. \A q \in Ids : \E p \in Place : IsAt(q, p)'
        BY <1>6, AllPlaced DEF Place
    <2>2. Distinct(posted)'
        BY <1>2, <1>3 DEF IsAt, Distinct
    <2>3. /\ \A c \in Conns : Distinct(responses[c])'
          /\ \A c \in Conns : \A k \in DOMAIN responses'[c] : Conn(responses'[c][k]) = c
        BY <1>1 DEF PlaceInv, Distinct
    <2> QED BY <1>1, <2>1, <2>2, <2>3, OrderStays DEF PlaceInv
<1> QED BY <1>6, <1>7

LEMMA ThrowMoves ==
    ASSUME PlaceInv, NEW r \in Ids, CoroutineThrows(r)
    PROVE  PlaceInv' /\ Moves(r, "running", "given up")
<1>1. /\ r \in tasks /\ tasks' = tasks \ {r} /\ unanswered' = unanswered \union {r}
      /\ UNCHANGED <<requests, posted, responses, delivered, sent>>
    BY DEF CoroutineThrows, wayOut
<1>2. IsAt(r, "running")
    BY <1>1, RunningIsAt
<1>3. IsAt(r, "given up")'
    BY <1>1, <1>2 DEF IsAt, In
<1>4. ASSUME NEW q \in Ids, q # r, NEW p \in Place, IsAt(q, p)
      PROVE  IsAt(q, p)'
    BY <1>1, <1>4 DEF IsAt, In
<1>5. Moves(r, "running", "given up")
    BY <1>2, <1>3, <1>4 DEF Moves
<1>6. PlaceInv'
    <2>1. \A q \in Ids : \E p \in Place : IsAt(q, p)'
        BY <1>5, AllPlaced DEF Place
    <2>2. /\ Distinct(posted)' /\ \A c \in Conns : Distinct(responses[c])'
          /\ \A c \in Conns : \A k \in DOMAIN responses'[c] : Conn(responses'[c][k]) = c
        BY <1>1 DEF PlaceInv, Distinct
    <2> QED BY <1>1, <2>1, <2>2, OrderStays DEF PlaceInv
<1> QED BY <1>5, <1>6

LEMMA QueueMoves ==
    ASSUME ServerInv, PlaceInv, QueueResponse
    PROVE  PlaceInv' /\ \E r \in Ids : Moves(r, "posted", "waiting")
<1>1. PICK r : r = Head(posted)
    OBVIOUS
<1>2. PICK c : c = Conn(r)
    OBVIOUS
<1>3. /\ posted \in Seq(Ids) /\ posted # <<>> /\ posted' = Tail(posted)
      /\ responses' = [responses EXCEPT ![c] = Append(responses[c], r)]
      /\ UNCHANGED <<requests, tasks, delivered, unanswered, sent>>
    BY <1>1, <1>2 DEF QueueResponse, settled, ServerInv, WayType
<1>4. /\ r \in Ids /\ Distinct(posted') /\ In(r, posted)
      /\ \A x : In(x, posted') <=> In(x, posted) /\ x # r
    BY <1>1, <1>3, Taken, TailKeeps DEF PlaceInv
<1>5. c \in Conns /\ responses \in [Conns -> Seq(Ids)]
    BY <1>2, <1>4, RequestIds DEF ServerInv, WayType
<1>6. IsAt(r, "posted")
    BY <1>4, PlaceOf DEF IsAt
<1>7. /\ \A x : In(x, responses'[c]) <=> In(x, responses[c]) \/ x = r
      /\ ~In(r, responses[c]) => Distinct(responses'[c])
    BY <1>3, <1>4, <1>5, AppendKeeps DEF PlaceInv
<1>8. \A d \in Conns : d # c => responses'[d] = responses[d]
    BY <1>3, <1>5
<1>9. IsAt(r, "waiting")'
    <2>1. /\ r \notin tasks' /\ r \notin delivered' /\ r \notin unanswered'
          /\ ~In(r, requests') /\ r[2] <= sent'[Conn(r)]
        BY <1>3, <1>6 DEF IsAt, In
    <2>2. ~In(r, posted') /\ In(r, responses'[Conn(r)])
        BY <1>2, <1>4, <1>7
    <2> QED BY <2>1, <2>2 DEF IsAt, In
<1>10. ASSUME NEW q \in Ids, q # r, NEW p \in Place, IsAt(q, p)
       PROVE  IsAt(q, p)'
    <2>1. In(q, responses'[Conn(q)]) <=> In(q, responses[Conn(q)])
        BY <1>7, <1>8, <1>10, RequestIds
    <2> QED BY <1>3, <1>4, <1>10, <2>1 DEF IsAt, In
<1>11. Moves(r, "posted", "waiting")
    BY <1>4, <1>6, <1>9, <1>10 DEF Moves
<1>12. PlaceInv'
    <2>1. \A q \in Ids : \E p \in Place : IsAt(q, p)'
        BY <1>11, AllPlaced DEF Place
    <2>2. \A d \in Conns : Distinct(responses'[d])
        BY <1>2, <1>6, <1>7, <1>8 DEF IsAt, PlaceInv
    <2>3. ASSUME NEW d \in Conns, NEW k \in DOMAIN responses'[d]
          PROVE  Conn(responses'[d][k]) = d
        <3>1. CASE d # c
            BY <1>8, <2>3, <3>1 DEF PlaceInv
        <3>2. CASE d = c
            BY <1>2, <1>7, <2>3, <3>2 DEF PlaceInv, In
        <3> QED BY <3>1, <3>2
    <2>4. Distinct(posted)' /\ \A d \in Conns : Distinct(responses[d])'
        BY <1>4, <2>2 DEF Distinct
    <2> QED BY <1>3, <2>1, <2>3, <2>4, OrderStays DEF PlaceInv
<1> QED BY <1>4, <1>11, <1>12

LEMMA WriteMoves ==
    ASSUME ServerInv, PlaceInv, NEW c \in Conns, WriteResponse(c)
    PROVE  PlaceInv' /\ \E r \in Ids : Moves(r, "waiting", "delivered")
<1>1. PICK r : r = Head(responses[c])
    OBVIOUS
<1>2. /\ responses \in [Conns -> Seq(Ids)] /\ responses[c] # <<>>
      /\ responses' = [responses EXCEPT ![c] = Tail(responses[c])]
      /\ delivered' = delivered \union {r}
      /\ UNCHANGED <<requests, tasks, posted, unanswered, sent>>
    BY <1>1 DEF WriteResponse, ServerInv, WayType, StepInv
<1>3. /\ r \in Ids /\ Distinct(responses'[c]) /\ In(r, responses[c])
      /\ \A x : In(x, responses'[c]) <=> In(x, responses[c]) /\ x # r
    BY <1>1, <1>2, Taken, TailKeeps DEF PlaceInv
<1>4. Conn(r) = c
    BY <1>3 DEF PlaceInv, In
<1>5. \A d \in Conns : d # c => responses'[d] = responses[d]
    BY <1>2
<1>6. IsAt(r, "waiting")
    BY <1>3, <1>4, PlaceOf DEF IsAt
<1>7. IsAt(r, "delivered")'
    BY <1>2, <1>3, <1>4, <1>6 DEF IsAt, In
<1>8. ASSUME NEW q \in Ids, q # r, NEW p \in Place, IsAt(q, p)
      PROVE  IsAt(q, p)'
    <2>1. In(q, responses'[Conn(q)]) <=> In(q, responses[Conn(q)])
        BY <1>3, <1>5, <1>8, RequestIds
    <2> QED BY <1>2, <1>8, <2>1 DEF IsAt, In
<1>9. Moves(r, "waiting", "delivered")
    BY <1>3, <1>6, <1>7, <1>8 DEF Moves
<1>10. PlaceInv'
    <2>1. \A q \in Ids : \E p \in Place : IsAt(q, p)'
        BY <1>9, AllPlaced DEF Place
    <2>2. Distinct(posted)' /\ \A d \in Conns : Distinct(responses[d])'
        BY <1>2, <1>3, <1>5 DEF PlaceInv, Distinct
    <2>3. ASSUME NEW d \in Conns, NEW k \in DOMAIN responses'[d]
          PROVE  Conn(responses'[d][k]) = d
        <3>1. CASE d # c
            BY <1>5, <2>3, <3>1 DEF PlaceInv
        <3>2. CASE d = c
            BY <1>3, <2>3, <3>2 DEF PlaceInv, In
        <3> QED BY <3>1, <3>2
    <2> QED BY <1>2, <2>1, <2>2, <2>3, OrderStays DEF PlaceInv
<1> QED BY <1>3, <1>9, <1>10

\* Whoever else acts, every request stays where it is.
LEMMA OthersStay ==
    ASSUME \/ \E c \in Conns : \/ ClientConnects(c) \/ ClientCloses(c) \/ ClientResets(c)
                              \/ Accept(c) \/ AcceptThrows(c) \/ HandlerOfDestroyed(c)
                              \/ ReadArrives(c) \/ ReadFails(c)
                              \/ WriteArrives(c) \/ WriteFails(c)
           \/ Start \/ StartFails \/ MainTests \/ MainBlocks \/ SearchClients
           \/ UNCHANGED vars
    PROVE  UNCHANGED Whereabouts
BY DEF ClientConnects, ClientCloses, ClientResets, ClientMoves, Accept, AcceptThrows,
       HandlerOfDestroyed, ReadArrives, ReadFails, WriteArrives, WriteFails, Start,
       StartFails, MainTests, MainBlocks, SearchClients, ProcessEnds, mainOnly,
       wayOut, settled, vars, Whereabouts

LEMMA InitPlaceInv == Init => PlaceInv
<1> SUFFICES ASSUME Init PROVE PlaceInv
    OBVIOUS
<1>1. DOMAIN requests = {} /\ DOMAIN posted = {} /\ \A c \in Conns : DOMAIN responses[c] = {}
    <2>1. \A s : s = <<>> => DOMAIN s = {}
        OBVIOUS
    <2> QED BY <2>1 DEF Init
<1>2. ASSUME NEW r \in Ids
      PROVE  IsAt(r, "unread")
    <2>1. r[2] \in Nat \ {0} /\ Conn(r) \in Conns
        BY IdParts
    <2> QED BY <1>1, <2>1 DEF Init, IsAt, In
<1> QED BY <1>1, <1>2 DEF PlaceInv, Place, InOrder, Distinct

LEMMA StepPlaceInv == ServerInv /\ PlaceInv /\ [Next]_vars => PlaceInv'
<1> SUFFICES ASSUME ServerInv, PlaceInv, [Next]_vars PROVE PlaceInv'
    OBVIOUS
<1>1. ASSUME NEW c \in Conns, ReadRequest(c) \/ WriteResponse(c)
      PROVE  PlaceInv'
    BY <1>1, ReadMoves, WriteMoves
<1>2. ASSUME NEW r \in Ids, CoroutineAnswers(r) \/ CoroutineThrows(r)
      PROVE  PlaceInv'
    BY <1>2, AnswerMoves, ThrowMoves
<1>3. CASE QueueResponse \/ Dispatch \/ EraseClients
    BY <1>3, QueueMoves, DispatchMoves, EraseMoves
<1>4. CASE UNCHANGED Whereabouts
    BY <1>4, AllStay
<1> QED BY <1>1, <1>2, <1>3, <1>4, OthersStay DEF Next

LEMMA PlaceCorrect == Spec => [](ServerInv /\ PlaceInv)
<1>1. ServerInv /\ PlaceInv /\ [Next]_vars => (ServerInv /\ PlaceInv)'
    BY StepServerInv, StepPlaceInv
<1> QED BY <1>1, InitServerInv, InitPlaceInv, PTL DEF Spec

\* A request in one place is counted once.
LEMMA Counted ==
    ASSUME ServerInv, PlaceInv, NEW r \in Ids
    PROVE  Places(r) = IF r[2] <= sent[Conn(r)] THEN 1 ELSE 0
<1>1. PICK p \in Place : IsAt(r, p)
    BY PlaceOf
<1>2. /\ Times(r, requests) = IF p = "queued" THEN 1 ELSE 0
      /\ Times(r, posted) = IF p = "posted" THEN 1 ELSE 0
      /\ Times(r, responses[Conn(r)]) = IF p = "waiting" THEN 1 ELSE 0
    <2>1. /\ Distinct(requests) /\ Distinct(posted)
          /\ Distinct(responses[Conn(r)])
        BY QueueDistinct, RequestIds DEF PlaceInv
    <2> QED BY <1>1, <2>1, TimesDistinct DEF IsAt
<1>3. PICK K : K = {k \in 1..3 : r \in <<tasks, delivered, unanswered>>[k]}
    OBVIOUS
<1>4. Places(r) = Times(r, requests) + Times(r, posted) + Times(r, responses[Conn(r)])
                  + Cardinality(K)
    BY <1>3, Zenon DEF Places
<1>5. Cardinality(K) = IF p \in {"running", "delivered", "given up"} THEN 1 ELSE 0
    <2>1. \A k : k \in K <=>
            \/ k = 1 /\ r \in tasks
            \/ k = 2 /\ r \in delivered
            \/ k = 3 /\ r \in unanswered
        <3>1. \A k : k \in 1..3 <=> k = 1 \/ k = 2 \/ k = 3
            OBVIOUS
        <3>2. /\ <<tasks, delivered, unanswered>>[1] = tasks
              /\ <<tasks, delivered, unanswered>>[2] = delivered
              /\ <<tasks, delivered, unanswered>>[3] = unanswered
            OBVIOUS
        <3> QED BY <1>3, <3>1, <3>2, Zenon
    <2>2. \A k : k \in K <=>
            \/ k = 1 /\ p = "running"
            \/ k = 2 /\ p = "delivered"
            \/ k = 3 /\ p = "given up"
        BY <1>1, <2>1 DEF IsAt
    <2>3. CASE p \in {"running", "delivered", "given up"}
        <3>1. p = "running" => K = {1}
            BY <2>2
        <3>2. p = "delivered" => K = {2}
            BY <2>2
        <3>3. p = "given up" => K = {3}
            BY <2>2
        <3> QED BY <2>3, <3>1, <3>2, <3>3, FS_Singleton
    <2>4. CASE p \notin {"running", "delivered", "given up"}
        <3>1. K = {}
            BY <2>2, <2>4
        <3> QED BY <2>4, <3>1, FS_EmptySet
    <2> QED BY <2>3, <2>4
<1>6. p # "unread" <=> r[2] <= sent[Conn(r)]
    BY <1>1 DEF IsAt
<1>7. p \in {"unread", "queued", "running", "posted", "waiting", "delivered", "given up"}
    BY DEF Place
<1>8. Places(r) = IF p = "unread" THEN 0 ELSE 1
    <2>1. CASE p = "queued"
        BY <1>2, <1>4, <1>5, <2>1
    <2>2. CASE p = "posted"
        BY <1>2, <1>4, <1>5, <2>2
    <2>3. CASE p = "waiting"
        BY <1>2, <1>4, <1>5, <2>3
    <2>4. CASE p \in {"running", "delivered", "given up"}
        <3>1. /\ Times(r, requests) = 0 /\ Times(r, posted) = 0
              /\ Times(r, responses[Conn(r)]) = 0 /\ Cardinality(K) = 1 /\ p # "unread"
            BY <1>2, <1>5, <2>4
        <3> QED BY <1>4, <3>1
    <2>5. CASE p = "unread"
        BY <1>2, <1>4, <1>5, <2>5
    <2> QED BY <1>7, <2>1, <2>2, <2>3, <2>4, <2>5
<1> QED BY <1>6, <1>8

\* Each request that was read is in one place: none is lost and none is answered
\* twice, however the two threads, the coroutines and the clients interleave.
THEOREM RequestsAreInOnePlace == Spec => []EachRequestInOnePlace
<1>1. ServerInv /\ PlaceInv => EachRequestInOnePlace
    BY Counted DEF EachRequestInOnePlace
<1> QED BY <1>1, PlaceCorrect, PTL

(***************************************************************************)
(* The refinement                                                          *)
(***************************************************************************)
PhaseAt(p) == IF p \in {"posted", "waiting"} THEN "answered" ELSE p

LEMMA PhaseOfPlace ==
    ASSUME NEW r \in Ids, NEW p \in Place, IsAt(r, p)
    PROVE  PhaseOf(r) = PhaseAt(p)
BY DEF IsAt, PhaseOf, PhaseAt, Place

LEMMA PhaseOfPlaceNext ==
    ASSUME NEW r \in Ids, NEW p \in Place, IsAt(r, p)'
    PROVE  PhaseOf(r)' = PhaseAt(p)
BY DEF IsAt, PhaseOf, PhaseAt, Place

\* Mapped, a move of a request is a step of its phase.
LEMMA MovesPhase ==
    ASSUME PlaceInv, NEW r, NEW from \in Place, NEW to \in Place, Moves(r, from, to)
    PROVE  /\ PhaseOf(r) = PhaseAt(from)
           /\ [q \in Ids |-> PhaseOf(q)'] =
                  [[q \in Ids |-> PhaseOf(q)] EXCEPT ![r] = PhaseAt(to)]
<1>1. r \in Ids /\ PhaseOf(r) = PhaseAt(from) /\ PhaseOf(r)' = PhaseAt(to)
    BY PhaseOfPlace, PhaseOfPlaceNext DEF Moves
<1>2. ASSUME NEW q \in Ids, q # r
      PROVE  PhaseOf(q)' = PhaseOf(q)
    <2>1. PICK p \in Place : IsAt(q, p)
        BY PlaceOf
    <2>2. IsAt(q, p)'
        BY <1>2, <2>1 DEF Moves
    <2> QED BY <2>1, <2>2, PhaseOfPlace, PhaseOfPlaceNext
<1> QED BY <1>1, <1>2

LEMMA StayPhase ==
    ASSUME PlaceInv, UNCHANGED Whereabouts
    PROVE  [q \in Ids |-> PhaseOf(q)'] = [q \in Ids |-> PhaseOf(q)]
BY DEF Whereabouts, PhaseOf, In

\* The abstract phase.
Mapped == [r \in Ids |-> PhaseOf(r)]

LEMMA Phases ==
    /\ \A p \in {"unread", "queued", "running", "delivered", "given up"} :
          p \in Place /\ PhaseAt(p) = p
    /\ \A p \in {"posted", "waiting"} : p \in Place /\ PhaseAt(p) = "answered"
BY DEF PhaseAt, Place

\* A request that moves goes from one phase to the next in the abstract state.
LEMMA MovesGoes ==
    ASSUME PlaceInv, NEW r \in Ids, NEW from \in Place, NEW to \in Place, Moves(r, from, to),
           NEW a, NEW b, PhaseAt(from) = a, PhaseAt(to) = b
    PROVE  Promise!Goes(r, a, b)
BY MovesPhase DEF Promise!Goes

LEMMA ReadRefines ==
    ASSUME ServerInv, PlaceInv, NEW c \in Conns, ReadRequest(c)
    PROVE  Promise!Next
<1>1. PICK r \in Ids : r = <<c, sent[c] + 1>> /\ Moves(r, "unread", "queued")
    BY ReadMoves
<1>2. ASSUME NEW q \in Ids, q[1] = r[1], q[2] < r[2]
      PROVE  PhaseOf(q) # "unread"
    <2>1. sent \in [Conns -> Nat] /\ q[2] \in Nat /\ r[2] = sent[c] + 1 /\ Conn(q) = c
        BY <1>1, <1>2, IdParts DEF ServerInv, EndsType, Conn
    <2>2. PICK p \in Place : IsAt(q, p)
        BY PlaceOf
    <2>3. q[2] <= sent[Conn(q)]
        BY <1>2, <2>1
    <2>4. p # "unread"
        BY <2>2, <2>3 DEF IsAt
    <2> QED BY <2>2, <2>4, PhaseOfPlace DEF PhaseAt
<1>3. Promise!Goes(r, "unread", "queued")
    BY <1>1, MovesGoes, Phases
<1>4. Promise!Read(r)
    BY <1>2, <1>3 DEF Promise!Read, Promise!Before
<1> QED BY <1>4 DEF Promise!Next

LEMMA TakeRefines ==
    ASSUME ServerInv, PlaceInv, Dispatch \/ EraseClients
    PROVE  Promise!Next
<1>1. PICK r \in Ids : /\ r = Head(requests)
                       /\ Moves(r, "queued", "running") \/ Moves(r, "queued", "given up")
    BY DispatchMoves, EraseMoves
<1>2. requests # <<>> /\ requests' = Tail(requests)
    BY DEF Dispatch, EraseClients, MainGoes, RestOfQueue, ServerInv, StepInv
<1>3. ASSUME NEW q \in Ids, q[1] = r[1], q[2] < r[2]
      PROVE  PhaseOf(q) # "queued"
    <2>1. ~In(q, requests)
        BY <1>1, <1>2, <1>3, FrontLeaves DEF Conn
    <2>2. PICK p \in Place : IsAt(q, p)
        BY PlaceOf
    <2>3. p # "queued"
        BY <2>1, <2>2 DEF IsAt
    <2> QED BY <2>2, <2>3, PhaseOfPlace DEF PhaseAt
<1>4. Promise!Goes(r, "queued", "running") \/ Promise!Goes(r, "queued", "given up")
    BY <1>1, MovesGoes, Phases
<1>5. Promise!Take(r)
    BY <1>3, <1>4 DEF Promise!Take, Promise!Before
<1> QED BY <1>5 DEF Promise!Next

LEMMA CoroutineRefines ==
    ASSUME ServerInv, PlaceInv, NEW r \in Ids, CoroutineAnswers(r) \/ CoroutineThrows(r)
    PROVE  Promise!Next
<1>1. CASE CoroutineAnswers(r)
    <2>1. Promise!Goes(r, "running", "answered")
        BY <1>1, AnswerMoves, MovesGoes, Phases
    <2> QED BY <2>1 DEF Promise!Answer, Promise!Next
<1>2. CASE CoroutineThrows(r)
    <2>1. Promise!Goes(r, "running", "given up")
        BY <1>2, ThrowMoves, MovesGoes, Phases
    <2> QED BY <2>1 DEF Promise!Throw, Promise!Next
<1> QED BY <1>1, <1>2

\* From one list to the other a response is still answered.
LEMMA QueueRefines ==
    ASSUME ServerInv, PlaceInv, QueueResponse
    PROVE  UNCHANGED Mapped
<1>1. PICK r \in Ids : Moves(r, "posted", "waiting")
    BY QueueMoves
<1>2. /\ PhaseOf(r) = "answered"
      /\ [q \in Ids |-> PhaseOf(q)'] = [[q \in Ids |-> PhaseOf(q)] EXCEPT ![r] = "answered"]
    BY <1>1, MovesPhase DEF PhaseAt, Place
<1> QED BY <1>2 DEF Mapped

LEMMA WriteRefines ==
    ASSUME ServerInv, PlaceInv, NEW c \in Conns, WriteResponse(c)
    PROVE  Promise!Next
<1>1. PICK r \in Ids : Moves(r, "waiting", "delivered")
    BY WriteMoves
<1>2. Promise!Goes(r, "answered", "delivered")
    BY <1>1, MovesGoes, Phases
<1> QED BY <1>2 DEF Promise!Deliver, Promise!Next

LEMMA InitExchange == Init => Promise!Init
<1> SUFFICES ASSUME Init, NEW r \in Ids
             PROVE  PhaseOf(r) = "unread"
    BY DEF Promise!Init
<1>1. PICK p \in Place : IsAt(r, p)
    BY InitPlaceInv, PlaceOf
<1>2. ~(r[2] <= sent[Conn(r)])
    BY IdParts DEF Init
<1>3. p = "unread"
    BY <1>1, <1>2 DEF IsAt
<1> QED BY <1>1, <1>3, PhaseOfPlace DEF PhaseAt

LEMMA StepExchange == ServerInv /\ PlaceInv /\ [Next]_vars => [Promise!Next]_Mapped
<1> SUFFICES ASSUME ServerInv, PlaceInv, [Next]_vars
             PROVE  Promise!Next \/ UNCHANGED Mapped
    OBVIOUS
<1>1. ASSUME NEW c \in Conns, ReadRequest(c) \/ WriteResponse(c)
      PROVE  Promise!Next
    BY <1>1, ReadRefines, WriteRefines
<1>2. ASSUME NEW r \in Ids, CoroutineAnswers(r) \/ CoroutineThrows(r)
      PROVE  Promise!Next
    BY <1>2, CoroutineRefines
<1>3. CASE QueueResponse \/ Dispatch \/ EraseClients
    BY <1>3, QueueRefines, TakeRefines
<1>4. CASE UNCHANGED Whereabouts
    BY <1>4, StayPhase DEF Mapped
<1> QED BY <1>1, <1>2, <1>3, <1>4, OthersStay DEF Next

\* The server implements the exchange: each client's requests are read and leave the
\* shared queue in the order they were sent in, and a request is answered at most once
\* and delivered only once answered, whatever is queued of other clients meanwhile.
THEOREM ServerImplementsExchange == Spec => ImplementsExchange
<1>1. Init => Promise!Init
    BY InitExchange
<1>2. ServerInv /\ PlaceInv /\ [Next]_vars => [Promise!Next]_Mapped
    BY StepExchange
<1> QED BY <1>1, <1>2, PlaceCorrect, PTL DEF Spec, ImplementsExchange, Promise!Spec, Mapped
=============================================================================
