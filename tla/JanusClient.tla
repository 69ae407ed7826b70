---------------------------- MODULE JanusClient ----------------------------
(***************************************************************************)
(* The Janus client: its own io_context and thread, the start-up that      *)
(* connects the long-poll socket, creates the session and attaches the     *)
(* plugin, the long-poll task, and send_request, which opens a temporary   *)
(* connection per request.  The repository's calls run on the server's     *)
(* thread; every socket and timer belongs to the Janus context, so nothing *)
(* of a call completes once that context is stopped.                       *)
(***************************************************************************)
EXTENDS Naturals, Sequences, SequencesExt, JanusMessages

CONSTANTS Calls,        \* the repository's calls of send_request
          Starter,      \* the start-up coroutine, which calls it too
          RoomTx,       \* the transaction of the two VideoRoom requests
          FreshTx,      \* generate_string_id() during start-up
          NoResult,     \* the call has not returned
          Nullopt       \* std::nullopt

ASSUME ClientAssumption ==
    /\ Starter \notin Calls
    /\ {RoomTx, FreshTx} \subseteq Transactions
    /\ NoResult # Nullopt /\ {NoResult, Nullopt} \intersect Body = {}

VARIABLES context,          \* is the Janus io_context running?
          start,            \* where the start-up coroutine is
          long_poll_socket, \* closed, open, or broken by the other side
          session_path,     \* std::string session_path, None while empty
          videoroom_path,   \* std::string videoroom_path
          step,             \* where each send_request is
          request,          \* the path and transaction each request carries
          result,           \* what each send_request returned
          poller,           \* where long_poll_task is
          destroyed,        \* ~janus has begun
          known,            \* the ids of sessions and handles Janus has
          polled,           \* does Janus hold a long-poll GET?
          events,           \* events Janus has for the session, in order
          emitted,          \* calls whose event it has emitted
          long_poll_buffer  \* messages pushed into the response buffer

startVars == <<start, session_path, videoroom_path>>
requestVars == <<step, request, result>>
pollVars == <<poller, long_poll_buffer>>
janusVars == <<known, polled, events, emitted>>
vars == <<context, destroyed, long_poll_socket, startVars, requestVars, pollVars,
          janusVars>>

Users == Calls \union {Starter}
StartPC == {"connecting", "session", "attach", "ready", "failed", "threw"}
Steps == {"idle", "path", "resolve", "connect", "write", "read", "ack", "returned"}
PollerPC == {"none", "send", "read", "ended"}

Init ==
    /\ context = "running" /\ destroyed = FALSE
    /\ start = "connecting"
    /\ long_poll_socket = "closed"
    /\ session_path = None /\ videoroom_path = None
    /\ step = [u \in Users |-> "idle"]
    /\ request = [u \in Users |-> CreateSession(FreshTx)]
    /\ result = [u \in Users |-> NoResult]
    /\ poller = "none"
    /\ known = {} /\ polled = FALSE /\ events = <<>> /\ emitted = {}
    /\ long_poll_buffer = <<>>

Running == context = "running"

(***************************************************************************)
(* send_request over a temporary connection                                *)
(***************************************************************************)
\* The part of the state a request in progress leaves alone.
notRequest == <<context, destroyed, long_poll_socket, startVars, poller, polled, events,
                emitted>>

\* create_video_meeting and list_participants: get_path reads the two strings one
\* after the other on the server's thread, whatever start-up has reached and does
\* in between.
Call(c) ==
    /\ ~destroyed /\ step[c] = "idle"
    /\ step' = [step EXCEPT ![c] = "path"]
    /\ \E req \in {CreateRoom(RoomTx, session_path, None),
                   ListParticipants(RoomTx, session_path, None)} :
          request' = [request EXCEPT ![c] = req]
    /\ UNCHANGED <<notRequest, known, result, long_poll_buffer>>

ReadHandle(c) ==
    /\ step[c] = "path"
    /\ step' = [step EXCEPT ![c] = "resolve"]
    /\ request' = [request EXCEPT ![c].plugin = videoroom_path]
    /\ UNCHANGED <<notRequest, known, result, long_poll_buffer>>

Progress(u) ==
    /\ Running
    /\ \E k \in 1..3 :
          LET path == <<"resolve", "connect", "write", "read">> IN
          step[u] = path[k] /\ step' = [step EXCEPT ![u] = path[k + 1]]
    /\ UNCHANGED <<notRequest, known, request, result, long_poll_buffer>>

Return(u, value) ==
    /\ step' = [step EXCEPT ![u] = "returned"]
    /\ result' = [result EXCEPT ![u] = value]

\* Mutation of Cancellable: the read of the reply has no time-out.
CancellableButRead == {"resolve", "connect", "write"}

Cancellable == {"resolve", "connect", "write", "read"}

\* Any of the four steps fails or is cancelled after five seconds.
Fails(u) ==
    /\ Running
    /\ step[u] \in Cancellable
    /\ Return(u, Nullopt)
    /\ UNCHANGED <<notRequest, known, request, long_poll_buffer>>

\* What Janus may answer: a session; a handle, for a session it has; a room, a
\* plugin error or an ack, for a complete path it has; an error to anything.
Replies(req) ==
    LET tx == req.transaction IN
    {NotJson, Bare("error", tx)} \union
    CASE req.kind = "create" -> {WithId(tx, i) : i \in Ids}
      [] req.kind = "attach" -> {WithId(tx, i) : i \in {j \in Ids : req.session \in known}}
      [] {req.session, req.plugin} \subseteq known ->
            {PluginError(tx), Bare("ack", tx)} \union {WithRoom(tx, i) : i \in Ids}
      [] OTHER -> {}

\* The body is parsed; an ack sends the call to the long-poll buffer.
Replied(u) ==
    /\ Running /\ step[u] = "read"
    /\ \E b \in Replies(request[u]) :
          /\ CASE ~ResponseMessageAccepts(b) -> Return(u, Nullopt)
               [] b.janus = "ack" -> step' = [step EXCEPT ![u] = "ack"] /\ UNCHANGED result
               [] OTHER -> Return(u, b)
          /\ known' = known \union ({b.id} \ {None})
    /\ UNCHANGED <<notRequest, request, long_poll_buffer>>

\* Mutation of WaitTimesOut: the wait for the event has no time-out.
WaitNeverTimesOut == FALSE

\* The wait may end without an event, after 30 seconds.
WaitTimesOut == TRUE

\* wait_for_transaction ends: with the first buffered message that carries the
\* transaction, or after 30 seconds without one.
AckWaitEnds(u) ==
    LET tx == request[u].transaction
        matching == {k \in DOMAIN long_poll_buffer : long_poll_buffer[k].transaction = tx}
    IN
    /\ Running /\ step[u] = "ack"
    /\ IF matching = {}
       THEN WaitTimesOut /\ Return(u, Nullopt) /\ UNCHANGED long_poll_buffer
       ELSE \E k \in matching :
              /\ \A j \in matching : k <= j
              /\ Return(u, long_poll_buffer[k])
              /\ long_poll_buffer' = RemoveAt(long_poll_buffer, k)
    /\ UNCHANGED <<notRequest, known, request>>

(***************************************************************************)
(* start()                                                                 *)
(***************************************************************************)
\* stop() on the context thread: the socket is closed, the context is stopped,
\* and joining the own thread throws, which ends the detached coroutine.
Stop ==
    /\ context' = "stopped"
    /\ long_poll_socket' = "closed"
    /\ start' = "failed"

\* Start-up sends one request after the other through send_request.
StarterSends(req) ==
    /\ step' = [step EXCEPT ![Starter] = "resolve"]
    /\ request' = [request EXCEPT ![Starter] = req]
    /\ result' = [result EXCEPT ![Starter] = NoResult]

Connect ==
    /\ Running /\ start = "connecting"
    /\ \/ /\ long_poll_socket' = "open"
          /\ start' = "session"
          /\ StarterSends(CreateSession(FreshTx))
          /\ UNCHANGED context
       \/ Stop /\ UNCHANGED requestVars
    /\ UNCHANGED <<destroyed, session_path, videoroom_path, pollVars, janusVars>>

\* The answer of start-up's request in the step named.
StarterGot(where) == Running /\ start = where /\ step[Starter] = "returned"

InitFails ==
    /\ \E where \in {"session", "attach"} : StarterGot(where)
    /\ result[Starter] = Nullopt
    /\ Stop
    /\ UNCHANGED <<destroyed, session_path, videoroom_path, requestVars, pollVars,
                   janusVars>>

\* A body the constructor rejects: the exception ends the detached coroutine and
\* nothing is stopped.
InitThrows ==
    /\ result[Starter] # Nullopt
    /\ \/ StarterGot("session") /\ ~CreateSessionAccepts(result[Starter])
       \/ StarterGot("attach") /\ ~AttachPluginAccepts(result[Starter])
    /\ start' = "threw"
    /\ UNCHANGED <<context, destroyed, long_poll_socket, session_path, videoroom_path,
                   requestVars, pollVars, janusVars>>

InitSession ==
    /\ StarterGot("session")
    /\ result[Starter] # Nullopt /\ CreateSessionAccepts(result[Starter])
    /\ session_path' = result[Starter].id
    /\ start' = "attach"
    /\ StarterSends(AttachPlugin(FreshTx, session_path'))
    /\ UNCHANGED <<context, destroyed, long_poll_socket, videoroom_path, pollVars,
                   janusVars>>

InitVideoroom ==
    /\ StarterGot("attach")
    /\ result[Starter] # Nullopt /\ AttachPluginAccepts(result[Starter])
    /\ videoroom_path' = result[Starter].id
    /\ start' = "ready"
    /\ poller' = "send"
    /\ UNCHANGED <<context, destroyed, long_poll_socket, session_path, requestVars,
                   long_poll_buffer, janusVars>>

\* ~janus calls stop() on the main thread, when the server could not be started:
\* nobody has called yet, and the thread it joins ends with its current handler.
Destroy ==
    /\ ~destroyed /\ destroyed' = TRUE
    /\ \A c \in Calls : step[c] = "idle"
    /\ context' = "stopped" /\ long_poll_socket' = "closed"
    /\ UNCHANGED <<startVars, requestVars, pollVars, janusVars>>

(***************************************************************************)
(* long_poll_task                                                          *)
(***************************************************************************)
\* A write on a broken socket is only logged.
SendLongPoll ==
    /\ Running /\ poller = "send"
    /\ poller' = "read"
    /\ polled' = (polled \/ (session_path # None /\ long_poll_socket = "open"))
    /\ UNCHANGED <<context, destroyed, long_poll_socket, startVars, requestVars,
                   long_poll_buffer, known, events, emitted>>

\* A read that fails or is cancelled after 35 seconds is only logged.
ReadFails ==
    /\ Running /\ poller = "read"
    /\ poller' = "send"
    /\ UNCHANGED <<context, destroyed, long_poll_socket, startVars, requestVars,
                   long_poll_buffer, janusVars>>

\* A body arrives: an event of the session, a keep-alive, or no JSON.  It is
\* dropped if it can be read as a keep-alive; otherwise it is pushed, if it can be
\* read as a message; otherwise the exception ends the task.
ReadLongPoll ==
    /\ Running /\ poller = "read" /\ polled /\ long_poll_socket = "open"
    /\ \E b \in {Bare("keepalive", None), NotJson} \union {events[k] : k \in DOMAIN events} :
          /\ b.janus = "event" => b = Head(events)
          /\ events' = IF b.janus = "event" THEN Tail(events) ELSE events
          /\ CASE KeepAliveAccepts(b) ->
                    poller' = "send" /\ UNCHANGED long_poll_buffer
               [] ~KeepAliveAccepts(b) /\ ResponseMessageAccepts(b) ->
                    poller' = "send" /\ long_poll_buffer' = Append(long_poll_buffer, b)
               [] OTHER ->
                    poller' = "ended" /\ UNCHANGED long_poll_buffer
    /\ polled' = FALSE
    /\ UNCHANGED <<context, destroyed, long_poll_socket, startVars, requestVars, known,
                   emitted>>

(***************************************************************************)
(* Janus (outside the program)                                             *)
(***************************************************************************)
\* The outcome of an acknowledged request, if its session is still there.
JanusEmits(c) ==
    /\ step[c] = "ack" /\ c \notin emitted /\ request[c].session \in known
    /\ events' = Append(events, [Bare("event", request[c].transaction)
                                    EXCEPT !.room = CHOOSE i \in Ids : TRUE])
    /\ emitted' = emitted \union {c}
    /\ UNCHANGED <<context, destroyed, long_poll_socket, startVars, requestVars, pollVars,
                   known, polled>>

\* Janus drops the long-poll connection, and, when it restarts, all it knew.
JanusDrops ==
    /\ \/ long_poll_socket = "open" /\ UNCHANGED <<known, events>>
       \/ known # {} /\ known' = {} /\ events' = <<>>
    /\ long_poll_socket' = IF long_poll_socket = "open" THEN "broken" ELSE long_poll_socket
    /\ polled' = FALSE
    /\ UNCHANGED <<context, destroyed, startVars, requestVars, pollVars, emitted>>

TimerEnds(u) == Fails(u) \/ AckWaitEnds(u)
StartUp == Connect \/ InitFails \/ InitThrows \/ InitSession \/ InitVideoroom

Next ==
    \/ \E c \in Calls : Call(c) \/ ReadHandle(c)
    \/ \E u \in Users : Progress(u) \/ Fails(u) \/ Replied(u) \/ AckWaitEnds(u)
    \/ Connect \/ InitFails \/ InitThrows \/ InitSession \/ InitVideoroom
    \/ Destroy
    \/ SendLongPoll \/ ReadFails \/ ReadLongPoll
    \/ \E c \in Calls : JanusEmits(c)
    \/ JanusDrops

Spec == Init /\ [][Next]_vars

\* Both threads run what is ready, and every wait of a request, of start-up
\* and of the long poll has a time-out; Janus itself need not do anything.
FairSpec ==
    /\ Spec
    /\ \A c \in Calls : WF_vars(ReadHandle(c))
    /\ \A u \in Users : WF_vars(TimerEnds(u))
    /\ WF_vars(StartUp)
    /\ WF_vars(SendLongPoll) /\ WF_vars(ReadFails)

(***************************************************************************)
(* Properties                                                              *)
(***************************************************************************)
\* A response_message holds parsed JSON.
Message == {b \in Body : b.json}

TypeOK ==
    /\ context \in {"running", "stopped"} /\ destroyed \in BOOLEAN
    /\ start \in StartPC
    /\ long_poll_socket \in {"closed", "open", "broken"}
    /\ session_path \in Ids \union {None} /\ videoroom_path \in Ids \union {None}
    /\ step \in [Users -> Steps]
    /\ request \in [Users -> Request]
    /\ result \in [Users -> Message \union {NoResult, Nullopt}]
    /\ poller \in PollerPC
    /\ known \subseteq Ids /\ polled \in BOOLEAN
    /\ events \in Seq(Message) /\ long_poll_buffer \in Seq(Message)
    /\ emitted \subseteq Calls

\* The paths are set in the order of start-up: the long poll runs only for a
\* complete path, and a start-up that gave up has not begun to poll.  A call may
\* read either string too early, even the session too early and the handle not
\* (janus_context.cpp 137); but each of the two is missing or the client's one, and
\* what Janus has acknowledged carries the whole path.
StartupOrder ==
    /\ start = "ready" <=> videoroom_path # None
    /\ start \in {"connecting", "session"} => session_path = None
    /\ start \in {"attach", "ready"} => session_path # None
    /\ poller # "none" <=> start = "ready"
    /\ \A c \in Calls :
          /\ request[c].session \in {None, session_path}
          /\ request[c].plugin \in {None, videoroom_path}
          /\ step[c] = "ack" => None \notin {request[c].session, request[c].plugin}

\* Start-up ends, unless its client is destroyed: it polls, gives up or has thrown,
\* for each of its waits times out.
StartupEnds == <>(start \in {"ready", "failed", "threw"} \/ destroyed)

\* While the context runs every call returns, whatever Janus does or fails to do:
\* each wait of the temporary connection and of the buffer has its time-out.
ReturnsWhileRunning ==
    \A c \in Calls : step[c] # "idle" ~> (step[c] = "returned" \/ ~Running)

\* "Reads the incoming responses from the long poll GET request and adds them to
\* the `long_poll_buffer`" (janus_context.cpp 275): an event that is read is added.
\* Only a read takes the poller on and the event with it.
EventReachesBuffer ==
    [][poller' # poller /\ events # <<>> /\ events' = Tail(events)
        => long_poll_buffer' = Append(long_poll_buffer, Head(events))]_vars

\* long_poll_task "Continuosly polls the Janus Server" (janus_context.hpp 98): as long
\* as the client runs Janus is given a GET again and again, whatever body it sends and
\* also when it drops the connection.
ContinuouslyPolls == poller # "none" ~> (polled \/ ~Running)
=============================================================================
