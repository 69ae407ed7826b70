-------------------------- MODULE JanusClientProofs --------------------------
(***************************************************************************)
(* Theorems about the Janus client, for every number of calls and of ids,  *)
(* and for a Janus that answers, drops and restarts as it likes.           *)
(***************************************************************************)
EXTENDS JanusClient, SequenceTheorems, TLAPS

(***************************************************************************)
(* Bodies and requests                                                     *)
(***************************************************************************)
LEMMA NoneIsNoId == None \notin Ids
BY NoneAssumption

LEMMA RequestTypes ==
    ASSUME NEW tx \in Transactions, NEW s \in Ids \union {None}, NEW p \in Ids \union {None}
    PROVE  /\ {CreateSession(tx), AttachPlugin(tx, s), CreateRoom(tx, s, p),
               ListParticipants(tx, s, p)} \subseteq Request
           /\ CreateSession(tx).session = None /\ CreateSession(tx).plugin = None
           /\ \A req \in {CreateRoom(tx, s, p), ListParticipants(tx, s, p)} :
                 req.session = s /\ req.plugin = p
BY DEF CreateSession, AttachPlugin, CreateRoom, ListParticipants, Post, Request

LEMMA BareType ==
    ASSUME NEW kind \in Kinds \union {None}, NEW tx \in Transactions \union {None}
    PROVE  /\ Bare(kind, tx) \in Message
           /\ \A i \in Ids : [Bare(kind, tx) EXCEPT !.room = i] \in Message
           /\ Bare(kind, tx).id = None /\ NotJson.id = None
           /\ NotJson \in Body /\ ~NotJson.json
BY DEF Bare, NotJson, Message, Body

LEMMA ReplyType ==
    ASSUME NEW req \in Request, NEW b \in Replies(req)
    PROVE  b \in Body
<1>1. req.transaction \in Transactions
    BY DEF Request
<1>2. NotJson \in Body /\ Bare("error", req.transaction) \in Body
      /\ Bare("ack", req.transaction) \in Body
    BY <1>1 DEF NotJson, Bare, Body, Kinds
<1>3. \A i \in Ids : WithId(req.transaction, i) \in Body /\ WithRoom(req.transaction, i) \in Body
    BY <1>1 DEF WithId, WithRoom, Bare, Body, Kinds
<1>4. PluginError(req.transaction) \in Body
    BY <1>1 DEF PluginError, Bare, Body, Kinds
<1>5. \/ b \in {NotJson, Bare("error", req.transaction), Bare("ack", req.transaction),
                PluginError(req.transaction)}
      \/ \E i \in Ids : b \in {WithId(req.transaction, i), WithRoom(req.transaction, i)}
    BY DEF Replies
<1> QED BY <1>2, <1>3, <1>4, <1>5

LEMMA BodyIsNoMarker == \A b \in Body : b # NoResult /\ b # Nullopt
BY ClientAssumption

\* What is taken from the buffer is a message, and messages remain.
LEMMA Taken ==
    ASSUME NEW s \in Seq(Message), NEW k \in DOMAIN s
    PROVE  s[k] \in Message /\ RemoveAt(s, k) \in Seq(Message)
<1>1. /\ Len(s) \in Nat /\ DOMAIN s = 1..Len(s) /\ k \in 1..Len(s)
      /\ \A i \in 1..Len(s) : s[i] \in Message
    BY LenProperties, ElementOfSeq
<1>2. SubSeq(s, 1, k - 1) \in Seq(Message)
    <2>1. 1 \in Int /\ k - 1 \in Int /\ \A i \in 1..(k - 1) : s[i] \in Message
        BY <1>1
    <2> QED BY <2>1, SubSeqProperties
<1>3. SubSeq(s, k + 1, Len(s)) \in Seq(Message)
    <2>1. k + 1 \in Int /\ Len(s) \in Int /\ \A i \in (k + 1)..Len(s) : s[i] \in Message
        BY <1>1
    <2> QED BY <2>1, SubSeqProperties
<1>4. RemoveAt(s, k) = SubSeq(s, 1, k - 1) \o SubSeq(s, k + 1, Len(s))
    BY DEF RemoveAt
<1> QED BY <1>1, <1>2, <1>3, <1>4, ConcatProperties

(***************************************************************************)
(* The invariant                                                           *)
(***************************************************************************)
\* TypeOK in two parts: the requests, and the client itself.
RequestType ==
    /\ step \in [Users -> Steps]
    /\ request \in [Users -> Request]
    /\ result \in [Users -> Message \union {NoResult, Nullopt}]

ClientType ==
    /\ context \in {"running", "stopped"} /\ destroyed \in BOOLEAN
    /\ start \in StartPC
    /\ long_poll_socket \in {"closed", "open", "broken"}
    /\ session_path \in Ids \union {None} /\ videoroom_path \in Ids \union {None}
    /\ poller \in PollerPC
    /\ known \subseteq Ids /\ polled \in BOOLEAN
    /\ events \in Seq(Message) /\ long_poll_buffer \in Seq(Message)
    /\ emitted \subseteq Calls

LEMMA Types == TypeOK <=> RequestType /\ ClientType
BY DEF TypeOK, RequestType, ClientType

\* A request that has returned has a result.
ReturnedInv == \A u \in Users : step[u] = "returned" => result[u] # NoResult

\* StartupOrder in two parts: the paths and the poller follow start, and a request
\* carries none but the client's path, the whole of it if it was acknowledged.
Whole(req) == None \notin {req.session, req.plugin}

OrderInv ==
    /\ start = "ready" <=> videoroom_path # None
    /\ start \in {"connecting", "session"} => session_path = None
    /\ start \in {"attach", "ready"} => session_path # None
    /\ poller # "none" <=> start = "ready"

PathInv ==
    \A c \in Calls :
        /\ request[c].session \in {None, session_path}
        /\ request[c].plugin \in {None, videoroom_path}
        /\ step[c] = "ack" => Whole(request[c])

ClientInv == RequestType /\ ClientType /\ ReturnedInv /\ OrderInv /\ PathInv

LEMMA InitClientInv == Init => ClientInv
<1> SUFFICES ASSUME Init PROVE ClientInv
    OBVIOUS
<1>1. /\ CreateSession(FreshTx) \in Request
      /\ CreateSession(FreshTx).session = None /\ CreateSession(FreshTx).plugin = None
    BY ClientAssumption, RequestTypes
<1>2. RequestType
    BY <1>1 DEF Init, RequestType, Steps
<1>3. ClientType
    BY EmptySeq DEF Init, ClientType, StartPC, PollerPC
<1>4. ReturnedInv /\ OrderInv /\ PathInv
    BY <1>1 DEF Init, ReturnedInv, OrderInv, PathInv, Users
<1> QED BY <1>2, <1>3, <1>4 DEF ClientInv

(***************************************************************************)
(* The steps of a request                                                  *)
(***************************************************************************)
LEMMA CallInv ==
    ASSUME ClientInv, NEW c \in Calls, Call(c)
    PROVE  ClientInv'
<1> USE DEF ClientInv
<1>1. PICK req \in {CreateRoom(RoomTx, session_path, None),
                    ListParticipants(RoomTx, session_path, None)} :
          request' = [request EXCEPT ![c] = req]
    BY DEF Call
<1>2. req \in Request /\ req.session = session_path /\ req.plugin = None
    <2>1. RoomTx \in Transactions /\ session_path \in Ids \union {None}
        BY ClientAssumption DEF ClientType
    <2> QED BY <2>1, RequestTypes
<1>3. /\ c \in Users /\ step' = [step EXCEPT ![c] = "path"]
      /\ UNCHANGED <<notRequest, known, result, long_poll_buffer>>
    BY DEF Call, Users
<1>4. RequestType' /\ ReturnedInv'
    BY <1>1, <1>2, <1>3 DEF RequestType, ReturnedInv, Steps
<1>5. ClientType' /\ OrderInv'
    BY <1>3 DEF ClientType, OrderInv, notRequest, startVars
<1>6. PathInv'
    BY <1>1, <1>2, <1>3 DEF PathInv, RequestType, Users, notRequest, startVars
<1> QED BY <1>4, <1>5, <1>6

\* The second read takes the handle there is now; the session was read before.
LEMMA ReadHandleInv ==
    ASSUME ClientInv, NEW c \in Calls, ReadHandle(c)
    PROVE  ClientInv'
<1> USE DEF ClientInv
<1>1. /\ c \in Users /\ step' = [step EXCEPT ![c] = "resolve"]
      /\ request' = [request EXCEPT ![c].plugin = videoroom_path]
      /\ UNCHANGED <<notRequest, known, result, long_poll_buffer>>
    BY DEF ReadHandle, Users
<1>2. RequestType' /\ ReturnedInv'
    BY <1>1 DEF RequestType, ReturnedInv, Steps, ClientType, Request
<1>3. ClientType' /\ OrderInv'
    BY <1>1 DEF ClientType, OrderInv, notRequest, startVars
<1>4. PathInv'
    BY <1>1 DEF PathInv, RequestType, Request, Users, Whole, notRequest, startVars
<1> QED BY <1>2, <1>3, <1>4

\* Steps that leave the client and the requests' contents alone.
LEMMA RequestsInv ==
    ASSUME ClientInv, RequestType', ReturnedInv', UNCHANGED <<notRequest, request>>,
           known' \subseteq Ids, long_poll_buffer' \in Seq(Message),
           \A c \in Calls : step'[c] = "ack" => step[c] = "ack" \/ Whole(request[c])
    PROVE  ClientInv'
BY DEF ClientInv, ClientType, OrderInv, PathInv, notRequest, startVars

LEMMA ProgressInv ==
    ASSUME ClientInv, NEW u \in Users, Progress(u)
    PROVE  ClientInv'
<1> USE DEF ClientInv
<1> DEFINE path == <<"resolve", "connect", "write", "read">>
<1>1. PICK k \in 1..3 : step[u] = path[k] /\ step' = [step EXCEPT ![u] = path[k + 1]]
    BY DEF Progress
<1>2. path[k + 1] \in {"connect", "write", "read"}
    <2>1. CASE k = 1
        BY <2>1
    <2>2. CASE k = 2
        BY <2>2
    <2>3. CASE k = 3
        BY <2>3
    <2> QED BY <2>1, <2>2, <2>3
<1> HIDE DEF path
<1>3. UNCHANGED <<notRequest, known, request, result, long_poll_buffer>>
    BY DEF Progress
<1>4. RequestType' /\ ReturnedInv'
    BY <1>1, <1>2, <1>3 DEF RequestType, ReturnedInv, Steps
<1>5. \A c \in Calls : step'[c] = "ack" => step[c] = "ack"
    BY <1>1, <1>2 DEF RequestType, Users
<1> QED BY <1>3, <1>4, <1>5, RequestsInv DEF ClientType

LEMMA ReturnType ==
    ASSUME RequestType, ReturnedInv, NEW u \in Users, NEW v \in Message \union {Nullopt},
           Return(u, v), request' = request
    PROVE  /\ RequestType' /\ ReturnedInv'
           /\ \A c \in Calls : step'[c] = "ack" => step[c] = "ack"
<1>1. v # NoResult
    BY ClientAssumption, BodyIsNoMarker DEF Message
<1> QED BY <1>1 DEF Return, RequestType, ReturnedInv, Steps, Users

LEMMA FailsInv ==
    ASSUME ClientInv, NEW u \in Users, Fails(u)
    PROVE  ClientInv'
BY ReturnType, RequestsInv DEF ClientInv, ClientType, Fails

LEMMA RepliedInv ==
    ASSUME ClientInv, NEW u \in Users, Replied(u)
    PROVE  ClientInv'
<1> USE DEF ClientInv
<1>1. PICK b \in Replies(request[u]) :
          /\ CASE ~ResponseMessageAccepts(b) -> Return(u, Nullopt)
               [] b.janus = "ack" -> step' = [step EXCEPT ![u] = "ack"] /\ UNCHANGED result
               [] OTHER -> Return(u, b)
          /\ known' = known \union ({b.id} \ {None})
    BY DEF Replied
<1>2. UNCHANGED <<notRequest, request, long_poll_buffer>>
    BY DEF Replied
<1>3. b \in Body
    BY ReplyType DEF RequestType
<1>4. known' \subseteq Ids
    BY <1>1, <1>3 DEF Body, ClientType
<1>5. CASE Return(u, Nullopt)
    BY <1>2, <1>4, <1>5, ReturnType, RequestsInv DEF ClientType
\* Janus acknowledges no request but one for a session and a handle it has.
<1>6. CASE b.janus = "ack" /\ step' = [step EXCEPT ![u] = "ack"] /\ UNCHANGED result
    <2>1. RequestType' /\ ReturnedInv'
        BY <1>2, <1>6 DEF RequestType, ReturnedInv, Steps
    <2>2. {request[u].session, request[u].plugin} \subseteq known
        BY <1>1, <1>6, NoneAssumption DEF Replies, Bare, NotJson, WithId, Kinds
    <2>3. Whole(request[u])
        BY <2>2, NoneIsNoId DEF Whole, ClientType
    <2>4. \A c \in Calls : step'[c] = "ack" => step[c] = "ack" \/ Whole(request[c])
        BY <1>6, <2>3 DEF RequestType, Users
    <2> QED BY <1>2, <1>4, <2>1, <2>4, RequestsInv DEF ClientType
<1>7. CASE ResponseMessageAccepts(b) /\ Return(u, b)
    <2>1. b \in Message
        BY <1>3, <1>7 DEF ResponseMessageAccepts, Message
    <2> QED BY <1>2, <1>4, <1>7, <2>1, ReturnType, RequestsInv DEF ClientType
<1> QED BY <1>1, <1>5, <1>6, <1>7

LEMMA AckWaitEndsInv ==
    ASSUME ClientInv, NEW u \in Users, AckWaitEnds(u)
    PROVE  ClientInv'
<1> USE DEF ClientInv
<1>1. UNCHANGED <<notRequest, known, request>>
    BY DEF AckWaitEnds
<1>2. \/ Return(u, Nullopt) /\ long_poll_buffer' = long_poll_buffer
      \/ \E k \in DOMAIN long_poll_buffer :
            /\ Return(u, long_poll_buffer[k])
            /\ long_poll_buffer' = RemoveAt(long_poll_buffer, k)
    BY DEF AckWaitEnds
<1>3. \A k \in DOMAIN long_poll_buffer :
          long_poll_buffer[k] \in Message /\ RemoveAt(long_poll_buffer, k) \in Seq(Message)
    BY Taken DEF ClientType
<1>4. long_poll_buffer' \in Seq(Message)
    BY <1>2, <1>3 DEF ClientType
<1>5. /\ RequestType' /\ ReturnedInv'
      /\ \A c \in Calls : step'[c] = "ack" => step[c] = "ack"
    BY <1>1, <1>2, <1>3, ReturnType
<1> QED BY <1>1, <1>4, <1>5, RequestsInv DEF ClientType

(***************************************************************************)
(* The steps of start-up                                                   *)
(***************************************************************************)
\* The starter's next request is none of the repository's.
LEMMA StarterSendsInv ==
    ASSUME RequestType, ReturnedInv, NEW req \in Request, StarterSends(req)
    PROVE  /\ RequestType' /\ ReturnedInv'
           /\ \A c \in Calls : request'[c] = request[c] /\ step'[c] = step[c]
<1>1. Starter \in Users /\ \A c \in Calls : c \in Users /\ c # Starter
    BY ClientAssumption DEF Users
<1> QED BY <1>1 DEF StarterSends, RequestType, ReturnedInv, Steps

LEMMA ConnectInv ==
    ASSUME ClientInv, Connect
    PROVE  ClientInv'
<1> USE DEF ClientInv
<1>1. /\ start = "connecting" /\ start' \in {"session", "failed"}
      /\ context' \in {"running", "stopped"} /\ long_poll_socket' \in {"open", "closed"}
      /\ UNCHANGED <<destroyed, session_path, videoroom_path, pollVars, janusVars>>
    BY DEF Connect, Stop, ClientType
<1>2. ClientType' /\ OrderInv'
    BY <1>1 DEF ClientType, OrderInv, StartPC, pollVars, janusVars
<1>3. RequestType' /\ ReturnedInv'
      /\ \A c \in Calls : request'[c] = request[c] /\ step'[c] = step[c]
    <2>1. CASE StarterSends(CreateSession(FreshTx))
        BY <2>1, ClientAssumption, RequestTypes, StarterSendsInv
    <2>2. CASE UNCHANGED requestVars
        BY <2>2 DEF RequestType, ReturnedInv, requestVars
    <2> QED BY <2>1, <2>2 DEF Connect
<1>4. PathInv'
    BY <1>1, <1>3 DEF PathInv
<1> QED BY <1>2, <1>3, <1>4

LEMMA InitGivesUpInv ==
    ASSUME ClientInv, InitFails \/ InitThrows
    PROVE  ClientInv'
<1> USE DEF ClientInv
<1>1. /\ start \in {"session", "attach"} /\ start' \in {"failed", "threw"}
      /\ context' \in {"running", "stopped"}
      /\ long_poll_socket' \in {"closed", "open", "broken"}
      /\ UNCHANGED <<destroyed, session_path, videoroom_path, requestVars, pollVars, janusVars>>
    BY DEF InitFails, InitThrows, StarterGot, Stop, ClientType
<1>2. ClientType' /\ OrderInv'
    BY <1>1 DEF ClientType, OrderInv, StartPC, pollVars, janusVars
<1>3. RequestType' /\ ReturnedInv' /\ PathInv'
    BY <1>1 DEF RequestType, ReturnedInv, PathInv, requestVars
<1> QED BY <1>2, <1>3

\* The answer start-up accepts has the id that becomes the path.
LEMMA AcceptedId ==
    ASSUME RequestType, ReturnedInv, step[Starter] = "returned", result[Starter] # Nullopt
    PROVE  LET b == result[Starter] IN
           CreateSessionAccepts(b) \/ AttachPluginAccepts(b) => b.id \in Ids
<1>1. result[Starter] \in Message
    BY DEF RequestType, ReturnedInv, Users
<1> QED BY <1>1 DEF CreateSessionAccepts, AttachPluginAccepts, Message, Body

LEMMA InitSessionInv ==
    ASSUME ClientInv, InitSession
    PROVE  ClientInv'
<1> USE DEF ClientInv
<1>1. /\ start = "session" /\ start' = "attach"
      /\ StarterSends(AttachPlugin(FreshTx, session_path'))
      /\ UNCHANGED <<context, destroyed, long_poll_socket, videoroom_path, pollVars, janusVars>>
    BY DEF InitSession, StarterGot
<1>2. session_path' \in Ids
    BY AcceptedId DEF InitSession, StarterGot
<1>3. AttachPlugin(FreshTx, session_path') \in Request
    BY <1>2, ClientAssumption, RequestTypes
<1>4. RequestType' /\ ReturnedInv'
      /\ \A c \in Calls : request'[c] = request[c] /\ step'[c] = step[c]
    BY <1>1, <1>3, StarterSendsInv
<1>5. ClientType' /\ OrderInv'
    BY <1>1, <1>2, NoneIsNoId DEF ClientType, OrderInv, StartPC, pollVars, janusVars
\* The path was empty, so what a call has read of it is nothing.
<1>6. PathInv'
    BY <1>1, <1>4 DEF PathInv, OrderInv, Whole
<1> QED BY <1>4, <1>5, <1>6

LEMMA InitVideoroomInv ==
    ASSUME ClientInv, InitVideoroom
    PROVE  ClientInv'
<1> USE DEF ClientInv
<1>1. /\ start = "attach" /\ start' = "ready" /\ poller' = "send"
      /\ UNCHANGED <<context, destroyed, long_poll_socket, session_path, requestVars,
                     long_poll_buffer, janusVars>>
    BY DEF InitVideoroom, StarterGot
<1>2. videoroom_path' \in Ids
    BY AcceptedId DEF InitVideoroom, StarterGot
<1>3. ClientType' /\ OrderInv'
    BY <1>1, <1>2, NoneIsNoId DEF ClientType, OrderInv, StartPC, PollerPC, janusVars
<1>4. RequestType' /\ ReturnedInv'
    BY <1>1 DEF RequestType, ReturnedInv, requestVars
<1>5. PathInv'
    BY <1>1 DEF PathInv, OrderInv, Whole, requestVars
<1> QED BY <1>3, <1>4, <1>5

(***************************************************************************)
(* The long poll, the destructor and Janus                                 *)
(***************************************************************************)
LEMMA PollInv ==
    ASSUME ClientInv, SendLongPoll \/ ReadFails \/ ReadLongPoll
    PROVE  ClientInv'
<1> USE DEF ClientInv
<1>1. /\ poller \in {"send", "read"} /\ poller' \in {"send", "read", "ended"}
      /\ UNCHANGED <<context, destroyed, long_poll_socket, startVars, requestVars, known,
                     emitted>>
    BY DEF SendLongPoll, ReadFails, ReadLongPoll, janusVars
<1>2. polled' \in BOOLEAN
    BY DEF SendLongPoll, ReadFails, ReadLongPoll, janusVars, ClientType
<1>3. events' \in Seq(Message) /\ long_poll_buffer' \in Seq(Message)
    <2>1. CASE SendLongPoll \/ ReadFails
        BY <2>1 DEF SendLongPoll, ReadFails, janusVars, ClientType
    <2>2. CASE ReadLongPoll
        <3>1. PICK b \in {Bare("keepalive", None), NotJson}
                           \union {events[k] : k \in DOMAIN events} :
                  /\ b.janus = "event" => b = Head(events)
                  /\ events' = IF b.janus = "event" THEN Tail(events) ELSE events
                  /\ \/ long_poll_buffer' = long_poll_buffer
                     \/ /\ ResponseMessageAccepts(b)
                        /\ long_poll_buffer' = Append(long_poll_buffer, b)
            BY <2>2 DEF ReadLongPoll
        <3>2. Bare("keepalive", None) \in Message /\ NotJson \in Body
            BY BareType DEF Kinds
        <3>3. \A k \in DOMAIN events : events[k] \in Message
            BY ElementOfSeq, LenProperties DEF ClientType
        <3>4. b \in Body
            BY <3>1, <3>2, <3>3 DEF Message
        <3>5. events' \in Seq(Message)
            <4>1. events # <<>> => Tail(events) \in Seq(Message)
                BY HeadTailProperties DEF ClientType
            <4>2. Bare("keepalive", None).janus # "event" /\ NotJson.janus # "event"
                BY NoneAssumption DEF Bare, NotJson, Kinds
            <4>3. b.janus = "event" => events # <<>>
                BY <3>1, <4>2
            <4> QED BY <3>1, <4>1, <4>3 DEF ClientType
        <3>6. long_poll_buffer' \in Seq(Message)
            <4>1. long_poll_buffer \in Seq(Message)
                BY DEF ClientType
            <4>2. ResponseMessageAccepts(b) => b \in Message
                BY <3>4 DEF ResponseMessageAccepts, Message
            <4>3. b \in Message => Append(long_poll_buffer, b) \in Seq(Message)
                BY <4>1, AppendProperties
            <4> QED BY <3>1, <4>1, <4>2, <4>3
        <3> QED BY <3>5, <3>6
    <2> QED BY <2>1, <2>2
<1>4. ClientType' /\ OrderInv'
    BY <1>1, <1>2, <1>3 DEF ClientType, OrderInv, PollerPC, startVars
<1>5. RequestType' /\ ReturnedInv' /\ PathInv'
    BY <1>1 DEF RequestType, ReturnedInv, PathInv, requestVars, startVars
<1> QED BY <1>4, <1>5

\* Whatever Janus does, the client's paths, requests and poller stay.
LEMMA OutsideInv ==
    ASSUME ClientInv, Destroy \/ (\E c \in Calls : JanusEmits(c)) \/ JanusDrops
    PROVE  ClientInv'
<1> USE DEF ClientInv
<1>1. UNCHANGED <<startVars, requestVars, pollVars>>
    BY DEF Destroy, JanusEmits, JanusDrops
<1>2. RequestType' /\ ReturnedInv' /\ PathInv' /\ OrderInv'
    BY <1>1 DEF RequestType, ReturnedInv, PathInv, OrderInv, requestVars, startVars, pollVars
<1>3. CASE Destroy
    BY <1>1, <1>2, <1>3 DEF Destroy, ClientType, startVars, pollVars, janusVars
<1>4. CASE JanusDrops
    BY <1>1, <1>2, <1>4, EmptySeq DEF JanusDrops, ClientType, startVars, pollVars
<1>5. ASSUME NEW c \in Calls, JanusEmits(c)
      PROVE  ClientInv'
    <2> DEFINE e == [Bare("event", request[c].transaction) EXCEPT !.room = CHOOSE i \in Ids : TRUE]
    <2>1. request[c].session \in known /\ events' = Append(events, e)
        BY <1>5 DEF JanusEmits
    <2>2. (CHOOSE i \in Ids : TRUE) \in Ids
        BY <2>1 DEF ClientType
    <2>3. request[c].transaction \in Transactions
        BY DEF RequestType, Users, Request
    <2>4. e \in Message
        BY <2>2, <2>3, BareType DEF Kinds
    <2> HIDE DEF e
    <2>5. events' \in Seq(Message)
        BY <2>1, <2>4, AppendProperties DEF ClientType
    <2> QED BY <1>1, <1>2, <1>5, <2>5 DEF JanusEmits, ClientType, startVars, pollVars
<1> QED BY <1>3, <1>4, <1>5

LEMMA StepClientInv == ClientInv /\ [Next]_vars => ClientInv'
<1> SUFFICES ASSUME ClientInv, [Next]_vars PROVE ClientInv'
    OBVIOUS
<1>1. ASSUME NEW c \in Calls, Call(c) \/ ReadHandle(c)
      PROVE  ClientInv'
    BY <1>1, CallInv, ReadHandleInv
<1>2. ASSUME NEW u \in Users, Progress(u) \/ Fails(u) \/ Replied(u) \/ AckWaitEnds(u)
      PROVE  ClientInv'
    BY <1>2, ProgressInv, FailsInv, RepliedInv, AckWaitEndsInv
<1>3. CASE Connect \/ InitFails \/ InitThrows \/ InitSession \/ InitVideoroom
    BY <1>3, ConnectInv, InitGivesUpInv, InitSessionInv, InitVideoroomInv
<1>4. CASE \/ SendLongPoll \/ ReadFails \/ ReadLongPoll
           \/ Destroy \/ (\E c \in Calls : JanusEmits(c)) \/ JanusDrops
    BY <1>4, PollInv, OutsideInv
<1>5. CASE UNCHANGED vars
    BY <1>5 DEF ClientInv, RequestType, ClientType, ReturnedInv, OrderInv, PathInv, vars,
                startVars, requestVars, pollVars, janusVars
<1> QED BY <1>1, <1>2, <1>3, <1>4, <1>5 DEF Next

\* The client is well typed: only parsed messages are buffered or returned.
THEOREM TypeCorrect == Spec => []TypeOK
<1>1. ClientInv => TypeOK
    BY Types DEF ClientInv
<1> QED BY <1>1, InitClientInv, StepClientInv, PTL DEF Spec

\* Start-up is orderly whatever Janus answers, and however its two assignments fall
\* between the two reads of a call (janus_context.cpp 137, 165, 185), each half the call
\* takes is empty or the client's one, and only a whole path is ever acknowledged.
THEOREM StartupIsOrdered == Spec => []StartupOrder
<1>1. ClientInv => StartupOrder
    BY DEF ClientInv, OrderInv, PathInv, Whole, StartupOrder
<1> QED BY <1>1, InitClientInv, StepClientInv, PTL DEF Spec

(***************************************************************************)
(* What the test for a keep-alive does to the long poll                    *)
(***************************************************************************)
BufferEmpty == long_poll_buffer = <<>>

\* An acknowledged request waits for its event in the buffer, and gets none.
AckGetsNothing(u) == step[u] = "ack" /\ step'[u] = "returned" => result'[u] = Nullopt

\* Whatever can be pushed can be read as a keep-alive, and is dropped.
LEMMA KeepAliveTakesAll == \A b : ResponseMessageAccepts(b) => KeepAliveAccepts(b)
BY DEF ResponseMessageAccepts, KeepAliveAccepts

LEMMA StepBufferEmpty == BufferEmpty /\ [Next]_vars => BufferEmpty'
<1> SUFFICES ASSUME BufferEmpty, [Next]_vars PROVE BufferEmpty'
    OBVIOUS
<1>1. ASSUME NEW c \in Calls, Call(c) \/ ReadHandle(c) \/ JanusEmits(c)
      PROVE  BufferEmpty'
    BY <1>1 DEF Call, ReadHandle, JanusEmits, BufferEmpty, pollVars
<1>2. ASSUME NEW u \in Users, Progress(u) \/ Fails(u) \/ Replied(u)
      PROVE  BufferEmpty'
    BY <1>2 DEF Progress, Fails, Replied, BufferEmpty
<1>3. ASSUME NEW u \in Users, AckWaitEnds(u)
      PROVE  BufferEmpty'
    <2>1. DOMAIN long_poll_buffer = {}
        BY DEF BufferEmpty
    <2> QED BY <1>3, <2>1 DEF AckWaitEnds, BufferEmpty
<1>4. CASE Connect \/ InitFails \/ InitThrows \/ InitSession \/ InitVideoroom
    BY <1>4 DEF Connect, InitFails, InitThrows, InitSession, InitVideoroom, BufferEmpty,
                pollVars
<1>5. CASE Destroy \/ SendLongPoll \/ ReadFails \/ JanusDrops
    BY <1>5 DEF Destroy, SendLongPoll, ReadFails, JanusDrops, BufferEmpty, pollVars
<1>6. CASE ReadLongPoll
    BY <1>6, KeepAliveTakesAll DEF ReadLongPoll, BufferEmpty
<1>7. CASE UNCHANGED vars
    BY <1>7 DEF vars, pollVars, BufferEmpty
<1> QED BY <1>1, <1>2, <1>3, <1>4, <1>5, <1>6, <1>7 DEF Next

\* Only the end of its wait takes a request out of it.
LEMMA AckStepGetsNothing ==
    ASSUME RequestType, BufferEmpty, Next, NEW u \in Users
    PROVE  AckGetsNothing(u)
<1> SUFFICES ASSUME step[u] = "ack", step'[u] = "returned" PROVE result'[u] = Nullopt
    BY DEF AckGetsNothing
<1>1. ASSUME NEW c \in Calls, Call(c) \/ ReadHandle(c)
      PROVE  FALSE
    BY <1>1 DEF Call, ReadHandle, RequestType
<1>2. ASSUME NEW v \in Users, Progress(v)
      PROVE  FALSE
    <2>1. PICK k \in 1..3 :
              LET path == <<"resolve", "connect", "write", "read">> IN
              step[v] = path[k] /\ step' = [step EXCEPT ![v] = path[k + 1]]
        BY <1>2 DEF Progress
    <2>2. step[v] # "ack"
        BY <2>1
    <2> QED BY <2>1, <2>2
<1>3. ASSUME NEW v \in Users, Fails(v) \/ Replied(v)
      PROVE  FALSE
    <2>1. step[v] # "ack"
        BY <1>3 DEF Fails, Cancellable, Replied
    <2>2. \E at : step' = [step EXCEPT ![v] = at]
        <3>1. CASE Fails(v)
            BY <3>1 DEF Fails, Return
        <3>2. CASE Replied(v)
            BY <3>2 DEF Replied, Return
        <3> QED BY <1>3, <3>1, <3>2
    <2> QED BY <2>1, <2>2
<1>4. ASSUME NEW v \in Users, AckWaitEnds(v)
      PROVE  result'[u] = Nullopt
    <2>1. DOMAIN long_poll_buffer = {}
        BY DEF BufferEmpty
    <2>2. Return(v, Nullopt)
        BY <1>4, <2>1 DEF AckWaitEnds
    <2>3. v = u
        BY <2>2 DEF Return
    <2> QED BY <2>2, <2>3 DEF Return, RequestType
<1>5. CASE Connect \/ InitSession
    BY <1>5 DEF Connect, InitSession, StarterSends, RequestType, requestVars
<1>6. CASE InitFails \/ InitThrows \/ InitVideoroom
    BY <1>6 DEF InitFails, InitThrows, InitVideoroom, requestVars
<1>7. CASE Destroy \/ SendLongPoll \/ ReadFails \/ ReadLongPoll \/ JanusDrops
    BY <1>7 DEF Destroy, SendLongPoll, ReadFails, ReadLongPoll, JanusDrops, requestVars
<1>8. ASSUME NEW c \in Calls, JanusEmits(c)
      PROVE  FALSE
    BY <1>8 DEF JanusEmits, requestVars
<1> QED BY <1>1, <1>2, <1>3, <1>4, <1>5, <1>6, <1>7, <1>8 DEF Next

\* Nothing ever reaches the buffer, and no acknowledged request gets its event: the
\* test for a keep-alive (janus_context.cpp 301) accepts every message push would be
\* given, so the call returns without one after its 30 seconds, whatever Janus sends.
THEOREM EventsAreLost ==
    Spec => [](long_poll_buffer = <<>>) /\ [][\A u \in Users : AckGetsNothing(u)]_vars
<1>1. Init => BufferEmpty
    BY DEF Init, BufferEmpty
<1>2. ClientInv /\ BufferEmpty /\ [Next]_vars => [\A u \in Users : AckGetsNothing(u)]_vars
    BY AckStepGetsNothing DEF ClientInv
<1>3. BufferEmpty <=> long_poll_buffer = <<>>
    BY DEF BufferEmpty
<1> QED BY <1>1, <1>2, <1>3, StepBufferEmpty, InitClientInv, StepClientInv, PTL DEF Spec
=============================================================================
