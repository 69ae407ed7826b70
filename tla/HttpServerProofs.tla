-------------------------- MODULE HttpServerProofs --------------------------
(***************************************************************************)
(* Theorems about the server, for every number of connections and of       *)
(* requests on each.                                                       *)
(***************************************************************************)
EXTENDS HttpServer, SequenceTheorems, TLAPS

(***************************************************************************)
(* Requests and the sequences they travel in                               *)
(***************************************************************************)
LEMMA RequestIds ==
    /\ \A r \in Ids : Conn(r) \in Conns
    /\ \A c \in Conns : \A n \in 1..MaxRequests[c] :
          <<c, n>> \in Ids /\ Conn(<<c, n>>) = c
BY DEF Ids, Conn

LEMMA Taken ==
    ASSUME NEW S, NEW s \in Seq(S), s # <<>>
    PROVE  /\ Head(s) \in S /\ Tail(s) \in Seq(S)
           /\ 1 \in DOMAIN s /\ Head(s) = s[1]
           /\ \A k \in DOMAIN Tail(s) : k + 1 \in DOMAIN s /\ Tail(s)[k] = s[k + 1]
           /\ \A k \in DOMAIN s : s[k] = Head(s) \/ \E j \in DOMAIN Tail(s) : Tail(s)[j] = s[k]
<1>1. s \in Seq(S) /\ Len(s) \in Nat /\ Len(s) # 0 /\ DOMAIN s = 1..Len(s)
    BY EmptySeq, LenProperties
<1>2. /\ Head(s) \in S /\ Tail(s) \in Seq(S) /\ Head(s) = s[1]
      /\ Len(Tail(s)) = Len(s) - 1
      /\ \A k \in 1..Len(Tail(s)) : Tail(s)[k] = s[k + 1]
    BY HeadTailProperties
<1>3. DOMAIN Tail(s) = 1..(Len(s) - 1)
    BY <1>2, LenProperties
<1>4. ASSUME NEW k \in DOMAIN s, k # 1
      PROVE  k - 1 \in DOMAIN Tail(s) /\ Tail(s)[k - 1] = s[k]
    BY <1>1, <1>2, <1>3, <1>4
<1>5. \A k \in DOMAIN s : s[k] = Head(s) \/ \E j \in DOMAIN Tail(s) : Tail(s)[j] = s[k]
    BY <1>2, <1>4
<1>6. 1 \in DOMAIN s /\ \A k \in DOMAIN Tail(s) : k + 1 \in DOMAIN s /\ Tail(s)[k] = s[k + 1]
    BY <1>1, <1>2, <1>3
<1> QED BY <1>2, <1>5, <1>6

LEMMA Added ==
    ASSUME NEW S, NEW s \in Seq(S), NEW e \in S
    PROVE  /\ Append(s, e) \in Seq(S) /\ Append(s, e) # <<>>
           /\ \A k \in DOMAIN Append(s, e) :
                 Append(s, e)[k] = e \/ (k \in DOMAIN s /\ Append(s, e)[k] = s[k])
           /\ \A k \in DOMAIN s : k \in DOMAIN Append(s, e) /\ Append(s, e)[k] = s[k]
           /\ \E k \in DOMAIN Append(s, e) : Append(s, e)[k] = e
<1>1. /\ Append(s, e) \in Seq(S) /\ Append(s, e) # <<>>
      /\ Len(Append(s, e)) = Len(s) + 1
      /\ \A k \in 1..Len(s) : Append(s, e)[k] = s[k]
      /\ Append(s, e)[Len(s) + 1] = e
    BY AppendProperties
<1>2. Len(s) \in Nat /\ DOMAIN s = 1..Len(s) /\ DOMAIN Append(s, e) = 1..(Len(s) + 1)
    BY <1>1, LenProperties
<1> QED BY <1>1, <1>2

(***************************************************************************)
(* Types                                                                   *)
(***************************************************************************)
\* TypeOK in three parts; sent is known to be a function.
EndsType ==
    /\ peer \in [Conns -> PeerState]
    /\ socket \in [Conns -> SocketState]
    /\ reading \in [Conns -> ReadState]
    /\ sent \in [Conns -> Nat]
    /\ \A c \in Conns : sent[c] \in 0..MaxRequests[c]

MainType ==
    /\ connected_clients \subseteq Conns
    /\ requests \in Seq(Ids)
    /\ main \in MainPC
    /\ end \subseteq Conns /\ raced \in BOOLEAN
    /\ terminated \in BOOLEAN

WayType ==
    /\ tasks \subseteq Ids
    /\ posted \in Seq(Ids)
    /\ responses \in [Conns -> Seq(Ids)]
    /\ writes \in [Conns -> 0..1]
    /\ written \subseteq Conns
    /\ delivered \subseteq Ids /\ unanswered \subseteq Ids

LEMMA Types == EndsType /\ MainType /\ WayType => TypeOK
BY DEF TypeOK, EndsType, MainType, WayType

\* Nothing is read, written or routed of a connection that was never accepted.
FreshInv ==
    /\ \A c \in Conns : socket[c] = "none" =>
          reading[c] = "none" /\ writes[c] = 0 /\ responses[c] = <<>>
    /\ \A k \in DOMAIN requests : socket[Conn(requests[k])] # "none"
    /\ \A k \in DOMAIN posted : socket[Conn(posted[k])] # "none"
    /\ \A r \in tasks : socket[Conn(r)] # "none"

\* A bounded client, a request to handle, and a response for each write.
StepInv ==
    /\ \A c \in Conns : reading[c] = "ready" => sent[c] < MaxRequests[c]
    /\ main = "erase" => requests # <<>>
    /\ \A c \in Conns : writes[c] = 1 => responses[c] # <<>>
    /\ \A c \in written : writes[c] = 1

ServerInv == EndsType /\ MainType /\ WayType /\ FreshInv /\ StepInv /\ OneWriter

LEMMA InitServerInv == Init => ServerInv
<1> SUFFICES ASSUME Init PROVE ServerInv
    OBVIOUS
<1>1. EndsType
    BY MaxRequestsAssumption DEF Init, EndsType, PeerState, SocketState, ReadState
<1>2. MainType
    <2>1. requests \in Seq(Ids)
        BY EmptySeq DEF Init
    <2>2. main \in MainPC
        BY DEF Init, MainPC
    <2> QED BY <2>1, <2>2, Zenon DEF Init, MainType
<1>3. WayType
    BY DEF Init, WayType
<1>4. FreshInv
    BY DEF Init, FreshInv
<1>5. StepInv
    BY DEF Init, StepInv
<1>6. OneWriter
    BY DEF Init, OneWriter
<1> QED BY <1>1, <1>2, <1>3, <1>4, <1>5, <1>6 DEF ServerInv

\* What is the same in a step is as it was.
LEMMA ClientsMove ==
    ASSUME ServerInv, NEW c \in Conns, NEW from, NEW to \in PeerState,
           ClientMoves(c, from, to)
    PROVE  ServerInv'
<1> USE DEF ServerInv
<1>1. EndsType'
    BY DEF ClientMoves, EndsType
<1>2. MainType' /\ FreshInv' /\ StepInv' /\ OneWriter'
    BY DEF ClientMoves, MainType, FreshInv, StepInv, OneWriter, mainVars, wayOut
<1>3. WayType'
    BY DEF ClientMoves, WayType, wayOut, settled
<1> QED BY <1>1, <1>2, <1>3

LEMMA Accepted ==
    ASSUME ServerInv, NEW c \in Conns, Accept(c)
    PROVE  ServerInv'
<1> USE DEF ServerInv
<1>1. EndsType'
    BY DEF Accept, EndsType, PeerState, SocketState, ReadState
<1>2. MainType'
    BY DEF Accept, MainType, mainVars
<1>3. WayType'
    BY DEF Accept, WayType, wayOut, settled
<1>4. FreshInv'
    BY DEF Accept, FreshInv, EndsType, wayOut
<1>5. StepInv'
    BY DEF Accept, StepInv, EndsType, mainVars, wayOut
<1>6. OneWriter'
    BY DEF Accept, OneWriter, FreshInv, EndsType, wayOut
<1> QED BY <1>1, <1>2, <1>3, <1>4, <1>5, <1>6

LEMMA Ended ==
    ASSUME ServerInv, ProcessEnds
    PROVE  ServerInv'
<1> USE DEF ServerInv
<1>1. EndsType' /\ FreshInv' /\ StepInv' /\ OneWriter'
    BY DEF ProcessEnds, EndsType, FreshInv, StepInv, OneWriter, ends, mainVars, wayOut
<1>2. MainType'
    BY DEF ProcessEnds, MainType, mainVars
<1>3. WayType'
    BY DEF ProcessEnds, WayType, wayOut, settled
<1> QED BY <1>1, <1>2, <1>3

LEMMA ReadArrived ==
    ASSUME ServerInv, NEW c \in Conns, ReadArrives(c)
    PROVE  ServerInv'
<1> USE DEF ServerInv
<1>1. EndsType'
    BY DEF ReadArrives, EndsType, ReadState
<1>2. MainType' /\ OneWriter'
    BY DEF ReadArrives, MainType, OneWriter, mainVars, wayOut
<1>3. WayType'
    BY DEF ReadArrives, WayType, wayOut, settled
<1>4. FreshInv' /\ StepInv'
    BY DEF ReadArrives, FreshInv, StepInv, EndsType, mainVars, wayOut
<1> QED BY <1>1, <1>2, <1>3, <1>4

LEMMA RequestRead ==
    ASSUME ServerInv, NEW c \in Conns, ReadRequest(c)
    PROVE  ServerInv'
<1> USE DEF ServerInv
<1> DEFINE r == <<c, sent[c] + 1>>
<1>1. sent[c] \in Nat /\ sent[c] < MaxRequests[c] /\ MaxRequests[c] \in Nat
    BY MaxRequestsAssumption DEF ReadRequest, EndsType, StepInv
<1>2. r \in Ids /\ Conn(r) = c
    BY <1>1, RequestIds
<1>3. requests \in Seq(Ids) /\ requests' = Append(requests, r)
    BY DEF ReadRequest, MainType
<1> HIDE DEF r
<1>4. /\ requests' \in Seq(Ids) /\ requests' # <<>>
      /\ \A k \in DOMAIN requests' :
            requests'[k] = r \/ (k \in DOMAIN requests /\ requests'[k] = requests[k])
    BY <1>2, <1>3, Added
<1>5. EndsType'
    BY <1>1 DEF ReadRequest, EndsType, ReadState
<1>6. MainType'
    <2>1. main' \in MainPC
        BY DEF ReadRequest, Notified, MainType, MainPC
    <2> QED BY <1>4, <2>1 DEF ReadRequest, MainType
<1>7. WayType'
    BY DEF ReadRequest, WayType, wayOut, settled
<1>8. FreshInv'
    <2>1. socket[c] # "none" /\ socket' = socket
        BY DEF ReadRequest, FreshInv
    <2>2. UNCHANGED <<posted, responses, writes, tasks>>
        BY DEF ReadRequest, wayOut
    <2>3. \A k \in DOMAIN requests' : socket[Conn(requests'[k])] # "none"
        BY <1>2, <1>4, <2>1 DEF FreshInv
    <2>4. \A d \in Conns : socket[d] = "none" =>
              reading'[d] = "none" /\ writes[d] = 0 /\ responses[d] = <<>>
        BY <2>1 DEF ReadRequest, FreshInv, EndsType
    <2> QED BY <2>1, <2>2, <2>3, <2>4 DEF FreshInv
<1>9. StepInv' /\ OneWriter'
    BY <1>1, <1>4 DEF ReadRequest, StepInv, OneWriter, EndsType, wayOut
<1> QED BY <1>5, <1>6, <1>7, <1>8, <1>9

LEMMA ReadFailed ==
    ASSUME ServerInv, NEW c \in Conns, ReadFails(c)
    PROVE  ServerInv'
<1> USE DEF ServerInv
<1>1. EndsType'
    BY DEF ReadFails, EndsType, ReadState, SocketState
<1>2. MainType'
    BY DEF ReadFails, MainType, mainVars
<1>3. WayType'
    BY DEF ReadFails, WayType, wayOut, settled
<1>4. socket[c] # "none" /\ \A d \in Conns : socket'[d] = socket[d] \/ socket'[d] = "closed"
    BY DEF ReadFails, FreshInv, EndsType
<1>5. FreshInv'
    <2>1. \A r \in Ids : Conn(r) \in Conns
        BY RequestIds
    <2> QED BY <1>4, <2>1 DEF ReadFails, FreshInv, EndsType, MainType, WayType, wayOut
<1>6. StepInv' /\ OneWriter'
    BY <1>4 DEF ReadFails, StepInv, OneWriter, EndsType, mainVars, wayOut
<1> QED BY <1>1, <1>2, <1>3, <1>5, <1>6

LEMMA CoroutineEnded ==
    ASSUME ServerInv, NEW r \in Ids, CoroutineAnswers(r) \/ CoroutineThrows(r)
    PROVE  ServerInv'
<1> USE DEF ServerInv
<1>1. EndsType' /\ MainType'
    BY DEF CoroutineAnswers, CoroutineThrows, EndsType, MainType, ends, mainVars, wayOut
<1>2. StepInv' /\ OneWriter'
    BY DEF CoroutineAnswers, CoroutineThrows, StepInv, OneWriter, ends, mainVars, wayOut
<1>3. CASE CoroutineAnswers(r)
    <2>1. /\ posted' \in Seq(Ids)
          /\ \A k \in DOMAIN posted' :
                posted'[k] = r \/ (k \in DOMAIN posted /\ posted'[k] = posted[k])
        BY <1>3, Added DEF CoroutineAnswers, WayType
    <2>2. WayType'
        BY <1>3, <2>1 DEF CoroutineAnswers, WayType, settled
    <2>3. FreshInv'
        BY <1>3, <2>1 DEF CoroutineAnswers, FreshInv, ends
    <2> QED BY <1>1, <1>2, <2>2, <2>3
<1>4. CASE CoroutineThrows(r)
    BY <1>1, <1>2, <1>4 DEF CoroutineThrows, WayType, FreshInv, ends, wayOut
<1> QED BY <1>3, <1>4

LEMMA ResponseQueued ==
    ASSUME ServerInv, QueueResponse
    PROVE  ServerInv'
<1> USE DEF ServerInv
<1> DEFINE r == Head(posted)
           c == Conn(r)
<1>1. /\ r \in Ids /\ posted' \in Seq(Ids)
      /\ \A k \in DOMAIN posted' :
            k + 1 \in DOMAIN posted /\ posted'[k] = posted[k + 1]
      /\ socket[c] # "none"
    BY Taken DEF QueueResponse, WayType, FreshInv
<1>2. c \in Conns
    BY <1>1, RequestIds
<1> HIDE DEF r
<1>3. Append(responses[c], r) \in Seq(Ids) /\ Append(responses[c], r) # <<>>
    BY <1>1, <1>2, Added DEF WayType
<1>4. /\ responses' = [responses EXCEPT ![c] = Append(responses[c], r)]
      /\ writes' = [writes EXCEPT ![c] = IF responses[c] # <<>> THEN writes[c] ELSE writes[c] + 1]
    BY DEF QueueResponse, IsWriting, r
<1>5. responses[c] = <<>> => writes[c] = 0
    BY <1>2 DEF StepInv, WayType
<1>6. EndsType' /\ MainType'
    BY DEF QueueResponse, EndsType, MainType, ends, mainVars
<1>7. WayType'
    <2>1. responses' \in [Conns -> Seq(Ids)]
        BY <1>2, <1>3, <1>4 DEF WayType
    <2>2. writes' \in [Conns -> 0..1]
        BY <1>2, <1>4, <1>5 DEF WayType
    <2>3. UNCHANGED <<tasks, written, settled>>
        BY DEF QueueResponse
    <2> QED BY <1>1, <2>1, <2>2, <2>3 DEF WayType, settled
<1>8. FreshInv'
    BY <1>1, <1>2, <1>4 DEF QueueResponse, FreshInv, WayType, ends
<1>9. StepInv' /\ OneWriter'
    BY <1>2, <1>3, <1>4, <1>5 DEF QueueResponse, StepInv, OneWriter, WayType, ends, mainVars
<1> QED BY <1>6, <1>7, <1>8, <1>9

LEMMA WriteArrived ==
    ASSUME ServerInv, NEW c \in Conns, WriteArrives(c)
    PROVE  ServerInv'
<1> USE DEF ServerInv
<1>1. EndsType' /\ MainType' /\ FreshInv' /\ OneWriter'
    BY DEF WriteArrives, EndsType, MainType, FreshInv, OneWriter, ends, mainVars
<1>2. WayType' /\ StepInv'
    BY DEF WriteArrives, WayType, StepInv, ends, mainVars, settled
<1> QED BY <1>1, <1>2

LEMMA ResponseWritten ==
    ASSUME ServerInv, NEW c \in Conns, WriteResponse(c)
    PROVE  ServerInv'
<1> USE DEF ServerInv
<1>1. /\ writes[c] = 1 /\ responses[c] \in Seq(Ids) /\ responses[c] # <<>>
      /\ c \in written
    BY DEF WriteResponse, StepInv, WayType
<1>2. Head(responses[c]) \in Ids /\ Tail(responses[c]) \in Seq(Ids)
    BY <1>1, Taken
<1>3. /\ responses' = [responses EXCEPT ![c] = Tail(responses[c])]
      /\ writes' = [writes EXCEPT ![c] = IF Tail(responses[c]) # <<>> THEN writes[c]
                                         ELSE writes[c] - 1]
    BY DEF WriteResponse, HasNext
<1>4. EndsType' /\ MainType'
    BY DEF WriteResponse, EndsType, MainType, ends, mainVars
<1>5. WayType'
    BY <1>1, <1>2, <1>3 DEF WriteResponse, WayType
<1>6. FreshInv'
    BY <1>1, <1>3 DEF WriteResponse, FreshInv, WayType, ends
<1>7. StepInv' /\ OneWriter'
    BY <1>1, <1>3 DEF WriteResponse, StepInv, OneWriter, WayType, ends, mainVars
<1> QED BY <1>4, <1>5, <1>6, <1>7

LEMMA WriteFailed ==
    ASSUME ServerInv, NEW c \in Conns, WriteFails(c)
    PROVE  ServerInv'
<1> USE DEF ServerInv
<1>1. writes[c] = 1 /\ socket[c] # "none"
    BY DEF WriteFails, WayType, FreshInv
<1>2. EndsType' /\ MainType'
    BY DEF WriteFails, EndsType, MainType, SocketState, mainVars
<1>3. WayType'
    BY <1>1 DEF WriteFails, WayType, settled
<1>4. \A d \in Conns : socket'[d] = socket[d] \/ (d = c /\ socket'[d] = "closed")
    BY DEF WriteFails, EndsType
<1>5. FreshInv'
    <2>1. \A r \in Ids : Conn(r) \in Conns
        BY RequestIds
    <2> QED BY <1>1, <1>4, <2>1 DEF WriteFails, FreshInv, EndsType, MainType, WayType
<1>6. StepInv' /\ OneWriter'
    BY <1>1, <1>4 DEF WriteFails, StepInv, OneWriter, EndsType, WayType, mainVars
<1> QED BY <1>2, <1>3, <1>5, <1>6

LEMMA MainMoved ==
    ASSUME ServerInv, Start \/ MainTests \/ MainBlocks
    PROVE  ServerInv'
<1> USE DEF ServerInv
<1>1. main' \in MainPC \ {"erase"} /\ mainOnly /\ UNCHANGED terminated
    BY DEF Start, MainTests, MainBlocks, MainGoes, MainPC
<1>2. EndsType' /\ MainType'
    BY <1>1 DEF mainOnly, EndsType, MainType, ends
<1>3. WayType' /\ FreshInv' /\ StepInv' /\ OneWriter'
    BY <1>1 DEF mainOnly, WayType, FreshInv, StepInv, OneWriter, ends, wayOut, settled
<1> QED BY <1>2, <1>3

LEMMA Dispatched ==
    ASSUME ServerInv, Dispatch
    PROVE  ServerInv'
<1> USE DEF ServerInv
<1>1. /\ Head(requests) \in Ids /\ requests' \in Seq(Ids)
      /\ \A k \in DOMAIN requests' :
            k + 1 \in DOMAIN requests /\ requests'[k] = requests[k + 1]
      /\ socket[Conn(Head(requests))] # "none"
    BY Taken DEF Dispatch, RestOfQueue, MainType
<1>2. EndsType' /\ WayType'
    BY <1>1 DEF Dispatch, EndsType, WayType, ends, wayOut, settled
<1>3. MainType'
    BY <1>1 DEF Dispatch, MainGoes, MainType
<1>4. FreshInv'
    BY <1>1 DEF Dispatch, FreshInv, ends, wayOut
<1>5. StepInv' /\ OneWriter'
    BY DEF Dispatch, MainGoes, StepInv, OneWriter, ends, wayOut
<1> QED BY <1>2, <1>3, <1>4, <1>5

LEMMA Searched ==
    ASSUME ServerInv, SearchClients
    PROVE  ServerInv'
<1> USE DEF ServerInv
<1>1. EndsType' /\ MainType'
    BY DEF SearchClients, MainGoes, EndsType, MainType, MainPC, ends
<1>2. WayType' /\ FreshInv' /\ StepInv' /\ OneWriter'
    BY DEF SearchClients, MainGoes, WayType, FreshInv, StepInv, OneWriter, ends, wayOut,
           settled
<1> QED BY <1>1, <1>2

LEMMA ClientsErased ==
    ASSUME ServerInv, EraseClients
    PROVE  ServerInv'
<1> USE DEF ServerInv
<1>1. requests # <<>> /\ main' = "drain"
    BY DEF EraseClients, MainGoes, StepInv
<1>2. /\ Head(requests) \in Ids /\ requests' \in Seq(Ids)
      /\ \A k \in DOMAIN requests' :
            k + 1 \in DOMAIN requests /\ requests'[k] = requests[k + 1]
    BY <1>1, Taken DEF EraseClients, RestOfQueue, MainType
<1>3. EndsType' /\ WayType'
    BY <1>2 DEF EraseClients, EndsType, WayType, ends, wayOut
<1>4. MainType'
    BY <1>1, <1>2 DEF EraseClients, MainType, MainPC
<1>5. FreshInv' /\ StepInv' /\ OneWriter'
    BY <1>1, <1>2 DEF EraseClients, FreshInv, StepInv, OneWriter, ends, wayOut
<1> QED BY <1>3, <1>4, <1>5

LEMMA StepServerInv == ServerInv /\ [Next]_vars => ServerInv'
<1> SUFFICES ASSUME ServerInv, [Next]_vars PROVE ServerInv'
    OBVIOUS
<1>1. ASSUME NEW c \in Conns, ClientConnects(c) \/ ClientCloses(c) \/ ClientResets(c)
      PROVE  ServerInv'
    BY <1>1, ClientsMove DEF ClientConnects, ClientCloses, ClientResets, PeerState
<1>2. ASSUME NEW c \in Conns, Accept(c) \/ AcceptThrows(c) \/ HandlerOfDestroyed(c)
      PROVE  ServerInv'
    BY <1>2, Accepted, Ended DEF AcceptThrows, HandlerOfDestroyed
<1>3. ASSUME NEW c \in Conns, ReadArrives(c) \/ ReadRequest(c) \/ ReadFails(c)
      PROVE  ServerInv'
    BY <1>3, ReadArrived, RequestRead, ReadFailed
<1>4. ASSUME NEW c \in Conns, WriteArrives(c) \/ WriteResponse(c) \/ WriteFails(c)
      PROVE  ServerInv'
    BY <1>4, WriteArrived, ResponseWritten, WriteFailed
<1>5. ASSUME NEW r \in Ids, CoroutineAnswers(r) \/ CoroutineThrows(r)
      PROVE  ServerInv'
    BY <1>5, CoroutineEnded
<1>6. CASE QueueResponse
    BY <1>6, ResponseQueued
<1>7. CASE Start \/ StartFails \/ MainTests \/ MainBlocks
    BY <1>7, MainMoved, Ended DEF StartFails
<1>8. CASE Dispatch \/ SearchClients \/ EraseClients
    BY <1>8, Dispatched, Searched, ClientsErased
<1>9. CASE UNCHANGED vars
    <2>1. EndsType' /\ MainType' /\ WayType'
        BY <1>9 DEF ServerInv, EndsType, MainType, WayType, vars, ends, mainVars, wayOut, settled
    <2>2. FreshInv' /\ StepInv' /\ OneWriter'
        BY <1>9 DEF ServerInv, FreshInv, StepInv, OneWriter, vars, ends, mainVars, wayOut
    <2> QED BY <2>1, <2>2 DEF ServerInv
<1> QED BY <1>1, <1>2, <1>3, <1>4, <1>5, <1>6, <1>7, <1>8, <1>9 DEF Next

\* The server is well typed: in particular the queue has a request whenever one is
\* taken from it, and a response is there whenever its write has ended.
THEOREM TypeCorrect == Spec => []TypeOK
<1>1. ServerInv => TypeOK
    BY Types DEF ServerInv
<1> QED BY <1>1, InitServerInv, StepServerInv, PTL DEF Spec

\* At most one write runs on a socket, and an open one is never idle while there is
\* something to write, however the posted lambdas and the write handlers alternate.
THEOREM WritesDoNotOverlap == Spec => []OneWriter
<1>1. ServerInv => OneWriter
    BY DEF ServerInv
<1> QED BY <1>1, InitServerInv, StepServerInv, PTL DEF Spec

(***************************************************************************)
(* Lifetimes, and the end of the process                                   *)
(***************************************************************************)
Gone(c) == peer[c] \in {"fin", "reset"}

\* Unless an erase has raced with an accept, connected_clients keeps every connection
\* there has been, since the erase finds nothing.
KeptInv == ~raced => \A c \in Conns : socket[c] # "none" => c \in connected_clients

\* A read outlives its socket only if a write has failed, for want of the client.
ClosedInv == \A c \in Conns : socket[c] = "closed" /\ reading[c] # "none" => Gone(c)

LifeInv == ServerInv /\ KeptInv /\ ClosedInv /\ OnlyGoneClientsEndIt

LEMMA HandlersOwn == ServerInv /\ KeptInv => HandlersOwnTheirConnection
<1> SUFFICES ASSUME ServerInv, KeptInv, ~raced, NEW c \in Conns, HandlerPending(c)
             PROVE  Owned(c)
    BY DEF HandlersOwnTheirConnection
<1>1. socket[c] # "none"
    BY DEF HandlerPending, ServerInv, FreshInv
<1> QED BY <1>1 DEF KeptInv, Owned

LEMMA InitLifeInv == Init => LifeInv
BY InitServerInv DEF LifeInv, KeptInv, ClosedInv, OnlyGoneClientsEndIt, Init

\* The three ways in which an exception leaves the context thread.
LEMMA EndedByClient ==
    ASSUME LifeInv, NEW c \in Conns,
           \/ AcceptThrows(c) \/ HandlerOfDestroyed(c)
           \/ ReadFails(c) /\ ShutdownThrows(c)
    PROVE  raced \/ Gone(c)
<1>1. CASE AcceptThrows(c)
    BY <1>1 DEF AcceptThrows, Gone
<1>2. CASE HandlerOfDestroyed(c)
    BY <1>2, HandlersOwn DEF HandlerOfDestroyed, HandlersOwnTheirConnection, LifeInv
<1>3. CASE ReadFails(c) /\ ShutdownThrows(c)
    BY <1>3 DEF ReadFails, ShutdownThrows, LifeInv, ClosedInv, Gone
<1> QED BY <1>1, <1>2, <1>3

\* A client that has gone does not come back.
LEMMA GoneStays ==
    ASSUME ServerInv, Next, NEW c \in Conns, Gone(c)
    PROVE  Gone(c)'
<1>1. peer \in [Conns -> PeerState]
    BY DEF ServerInv, EndsType
<1>2. ASSUME NEW d \in Conns, ClientConnects(d) \/ ClientCloses(d) \/ ClientResets(d)
      PROVE  Gone(c)'
    BY <1>1, <1>2 DEF ClientConnects, ClientCloses, ClientResets, ClientMoves, Gone
<1>3. ASSUME NEW d \in Conns, Accept(d)
      PROVE  Gone(c)'
    BY <1>1, <1>3 DEF Accept, Gone
<1>4. ASSUME \/ \E d \in Conns : \/ AcceptThrows(d) \/ HandlerOfDestroyed(d)
                                 \/ ReadArrives(d) \/ ReadRequest(d) \/ ReadFails(d)
                                 \/ WriteArrives(d) \/ WriteResponse(d) \/ WriteFails(d)
             \/ \E r \in Ids : CoroutineAnswers(r) \/ CoroutineThrows(r)
             \/ QueueResponse \/ Start \/ StartFails \/ MainTests \/ MainBlocks
             \/ Dispatch \/ SearchClients \/ EraseClients
      PROVE  Gone(c)'
    BY <1>4 DEF Gone, AcceptThrows, HandlerOfDestroyed, ReadArrives, ReadRequest, ReadFails,
           WriteArrives, WriteResponse, WriteFails, CoroutineAnswers, CoroutineThrows,
           QueueResponse, Start, StartFails, MainTests, MainBlocks, Dispatch,
           SearchClients, EraseClients, ProcessEnds, mainOnly, ends
<1> QED BY <1>2, <1>3, <1>4 DEF Next

LEMMA StepKeptInv ==
    ASSUME ServerInv, KeptInv, Next
    PROVE  KeptInv'
<1>1. socket \in [Conns -> SocketState]
    BY DEF ServerInv, EndsType
<1>2. ASSUME NEW c \in Conns, Accept(c)
      PROVE  KeptInv'
    BY <1>1, <1>2 DEF Accept, KeptInv, mainVars
<1>3. ASSUME NEW c \in Conns, ReadFails(c) \/ WriteFails(c)
      PROVE  KeptInv'
    BY <1>1, <1>3 DEF ReadFails, WriteFails, KeptInv, ServerInv, FreshInv, mainVars
<1>4. CASE EraseClients
    <2>1. ~raced' => ~raced /\ connected_clients' = connected_clients
        BY <1>4 DEF EraseClients, Erased
    <2> QED BY <1>4, <2>1 DEF EraseClients, KeptInv, ends
<1>5. ASSUME \/ \E c \in Conns : \/ ClientConnects(c) \/ ClientCloses(c) \/ ClientResets(c)
                                 \/ AcceptThrows(c) \/ HandlerOfDestroyed(c)
                                 \/ ReadArrives(c) \/ ReadRequest(c)
                                 \/ WriteArrives(c) \/ WriteResponse(c)
             \/ \E r \in Ids : CoroutineAnswers(r) \/ CoroutineThrows(r)
             \/ QueueResponse \/ Start \/ StartFails \/ MainTests \/ MainBlocks
             \/ Dispatch \/ SearchClients
      PROVE  KeptInv'
    <2>1. UNCHANGED <<socket, connected_clients, raced>>
        BY <1>5 DEF ClientConnects, ClientCloses, ClientResets, ClientMoves, AcceptThrows,
               HandlerOfDestroyed, ReadArrives, ReadRequest, WriteArrives, WriteResponse,
               CoroutineAnswers, CoroutineThrows, QueueResponse, Start, StartFails,
               MainTests, MainBlocks, Dispatch, SearchClients, ProcessEnds, mainOnly,
               ends, mainVars
    <2> QED BY <2>1 DEF KeptInv
<1> QED BY <1>2, <1>3, <1>4, <1>5 DEF Next

LEMMA StepClosedInv ==
    ASSUME ServerInv, ClosedInv, Next
    PROVE  ClosedInv'
<1>1. socket \in [Conns -> SocketState] /\ reading \in [Conns -> ReadState]
    BY DEF ServerInv, EndsType
<1>2. SUFFICES ASSUME NEW c \in Conns, socket'[c] = "closed", reading'[c] # "none"
               PROVE  Gone(c) \/ Gone(c)'
    BY GoneStays DEF ClosedInv
<1>3. SUFFICES ASSUME ~(socket[c] = "closed" /\ reading[c] # "none")
               PROVE  Gone(c)
    BY DEF ClosedInv
<1>4. ASSUME NEW d \in Conns, Accept(d) \/ ReadArrives(d) \/ ReadRequest(d) \/ ReadFails(d)
      PROVE  Gone(c)
    BY <1>1, <1>2, <1>3, <1>4 DEF Accept, ReadArrives, ReadRequest, ReadFails
<1>5. ASSUME NEW d \in Conns, WriteFails(d)
      PROVE  Gone(c)
    BY <1>1, <1>2, <1>3, <1>5 DEF WriteFails, Gone
<1>6. ASSUME \/ \E d \in Conns : \/ ClientConnects(d) \/ ClientCloses(d) \/ ClientResets(d)
                                 \/ AcceptThrows(d) \/ HandlerOfDestroyed(d)
                                 \/ WriteArrives(d) \/ WriteResponse(d)
             \/ \E r \in Ids : CoroutineAnswers(r) \/ CoroutineThrows(r)
             \/ QueueResponse \/ Start \/ StartFails \/ MainTests \/ MainBlocks
             \/ Dispatch \/ SearchClients \/ EraseClients
      PROVE  Gone(c)
    <2>1. UNCHANGED <<socket, reading>>
        BY <1>6 DEF ClientConnects, ClientCloses, ClientResets, ClientMoves, AcceptThrows,
               HandlerOfDestroyed, WriteArrives, WriteResponse, CoroutineAnswers,
               CoroutineThrows, QueueResponse, Start, StartFails, MainTests, MainBlocks,
               Dispatch, SearchClients, EraseClients, ProcessEnds, mainOnly, ends
    <2> QED BY <1>2, <1>3, <2>1
<1> QED BY <1>4, <1>5, <1>6 DEF Next

LEMMA StepOnlyGone ==
    ASSUME LifeInv, Next
    PROVE  OnlyGoneClientsEndIt'
<1>1. SUFFICES ASSUME terminated', main' # "starting"
               PROVE  raced' \/ \E c \in Conns : Gone(c)'
    BY DEF OnlyGoneClientsEndIt, Gone
<1>2. raced => raced'
    BY DEF Next, ClientConnects, ClientCloses, ClientResets, ClientMoves, Accept, AcceptThrows,
           HandlerOfDestroyed, ReadArrives, ReadRequest, ReadFails, WriteArrives,
           WriteResponse, WriteFails, CoroutineAnswers, CoroutineThrows, QueueResponse,
           Start, StartFails, MainTests, MainBlocks, Dispatch, SearchClients,
           EraseClients, ProcessEnds, mainOnly, mainVars
<1>3. SUFFICES raced \/ \E c \in Conns : Gone(c)
    BY <1>2, GoneStays DEF LifeInv
<1>4. CASE terminated
    <2>1. main # "starting"
        BY <1>1, <1>4 DEF Next, ClientConnects, ClientCloses, ClientResets, ClientMoves,
           Accept, AcceptThrows, HandlerOfDestroyed, ReadArrives, ReadRequest, ReadFails,
           WriteArrives, WriteResponse, WriteFails, CoroutineAnswers, CoroutineThrows,
           QueueResponse, Start, StartFails, MainTests, MainBlocks, MainGoes, Dispatch,
           SearchClients, EraseClients, ProcessEnds, Runs, Running, mainVars
    <2> QED BY <1>4, <2>1 DEF LifeInv, OnlyGoneClientsEndIt, Gone
<1>5. CASE ~terminated
    <2>1. \E c \in Conns : \/ AcceptThrows(c) \/ HandlerOfDestroyed(c)
                           \/ ReadFails(c) /\ ShutdownThrows(c)
        BY <1>1, <1>5 DEF Next, ClientConnects, ClientCloses, ClientResets, ClientMoves,
           Accept, ReadArrives, ReadRequest, ReadFails,
           WriteArrives, WriteResponse, WriteFails, CoroutineAnswers, CoroutineThrows,
           QueueResponse, Start, StartFails, MainTests, MainBlocks, Dispatch,
           SearchClients, EraseClients, ProcessEnds, mainVars
    <2> QED BY <2>1, EndedByClient
<1> QED BY <1>4, <1>5

LEMMA StepLifeInv == LifeInv /\ [Next]_vars => LifeInv'
<1> SUFFICES ASSUME LifeInv, [Next]_vars PROVE LifeInv'
    OBVIOUS
<1>1. ServerInv'
    BY StepServerInv DEF LifeInv
<1>2. CASE Next
    BY <1>1, <1>2, StepKeptInv, StepClosedInv, StepOnlyGone DEF LifeInv
<1>3. CASE UNCHANGED vars
    BY <1>1, <1>3 DEF LifeInv, KeptInv, ClosedInv, OnlyGoneClientsEndIt, Gone, vars, ends,
           mainVars
<1> QED BY <1>2, <1>3

\* The handlers that capture a raw this run for a connection that is there, as long as
\* no client has been accepted while the main thread was erasing.
THEOREM HandlersAreSafe == Spec => []HandlersOwnTheirConnection
<1>1. LifeInv => HandlersOwnTheirConnection
    BY HandlersOwn DEF LifeInv
<1> QED BY <1>1, InitLifeInv, StepLifeInv, PTL DEF Spec

\* A process that has started ends only for a client that has gone, or for a client
\* that was erased in the race.
THEOREM EndsForGoneClients == Spec => []OnlyGoneClientsEndIt
<1>1. LifeInv => OnlyGoneClientsEndIt
    BY DEF LifeInv
<1> QED BY <1>1, InitLifeInv, StepLifeInv, PTL DEF Spec

=============================================================================
