----------------------------- MODULE HttpServer -----------------------------
(***************************************************************************)
(* server_interface, connection and the main loop: clients connect, their  *)
(* requests are read on the context thread and queued, the main thread     *)
(* pops each one and spawns a coroutine for it, the coroutine's response   *)
(* is posted to the context and written to the client's socket.            *)
(*                                                                         *)
(* Every completion handler runs on the one context thread, so a handler   *)
(* is one action; the main thread interleaves with the handlers.  What the *)
(* router does with a request is left open here: it answers or throws      *)
(* (Backend says which).  The handlers of a connection hold a raw pointer  *)
(* to it, and connected_clients is changed by both threads without a lock. *)
(***************************************************************************)
EXTENDS Naturals, Sequences, FiniteSets

CONSTANTS Conns,        \* the connections clients may open
          MaxRequests   \* bound on the requests of each connection

ASSUME MaxRequestsAssumption == MaxRequests \in [Conns -> Nat]

VARIABLES peer,         \* the client's end of each connection
          socket,       \* the server's end: connection::socket
          reading,      \* the state of each connection's async_read
          connected_clients,
          requests,     \* the shared queue of requests
          main,         \* where the main thread is: start(), then update()
          end,          \* the clients std::remove has seen, during an erase
          raced,        \* history: a client was accepted during an erase
          tasks,        \* requests whose coroutine is running
          posted,       \* responses posted by send_response, in order
          responses,    \* connection::responses
          writes,       \* async_writes under way on each socket
          written,      \* connections whose write is done, its handler not run
          terminated,   \* start() has failed, or an exception has left context.run()
          sent,         \* history: requests read from each connection
          delivered,    \* history: requests whose response was written
          unanswered    \* history: requests popped and never to be answered

ends == <<peer, socket, reading>>
mainVars == <<main, end, raced>>
wayOut == <<posted, responses, writes, written>>
settled == <<delivered, unanswered>>
vars == <<ends, connected_clients, requests, mainVars, tasks, wayOut,
          terminated, sent, settled>>

Ids == UNION {{c} \X (1..MaxRequests[c]) : c \in Conns}
Conn(r) == r[1]

\* "absent": no attempt yet; "backlog": the kernel has completed the handshake;
\* "fin": the client has closed its end; "reset": the client is gone.
PeerState == {"absent", "backlog", "up", "fin", "reset"}
SocketState == {"none", "open", "closed"}
ReadState == {"none", "pending", "ready"}
MainPC == {"starting", "test", "blocking", "waiting", "drain", "erase"}

Init ==
    /\ peer = [c \in Conns |-> "absent"]
    /\ socket = [c \in Conns |-> "none"]
    /\ reading = [c \in Conns |-> "none"]
    /\ connected_clients = {}
    /\ requests = <<>>
    /\ main = "starting" /\ end = {} /\ raced = FALSE
    /\ tasks = {} /\ posted = <<>>
    /\ responses = [c \in Conns |-> <<>>]
    /\ writes = [c \in Conns |-> 0] /\ written = {}
    /\ terminated = FALSE
    /\ sent = [c \in Conns |-> 0]
    /\ delivered = {} /\ unanswered = {}

\* Both threads run.
Running == ~terminated /\ main # "starting"

\* A connection lives while connected_clients, a request in the queue or a
\* coroutine has a shared_ptr to it.
Owned(c) ==
    \/ c \in connected_clients
    \/ \E k \in DOMAIN requests : Conn(requests[k]) = c
    \/ \E r \in tasks : Conn(r) = c

\* A handler or a posted lambda that captures the connection's raw this.
HandlerPending(c) ==
    \/ reading[c] # "none"
    \/ writes[c] > 0
    \/ \E k \in DOMAIN posted : Conn(posted[k]) = c

\* The connection a handler runs for is there.
Runs(c) == Running /\ Owned(c)

(***************************************************************************)
(* The clients (outside the program)                                       *)
(***************************************************************************)
ClientMoves(c, from, to) ==
    /\ peer[c] \in from
    /\ peer' = [peer EXCEPT ![c] = to]
    /\ UNCHANGED <<socket, reading, connected_clients, requests, mainVars, tasks,
                   wayOut, terminated, sent, settled>>

ClientConnects(c) == ClientMoves(c, {"absent"}, "backlog")
ClientCloses(c) == ClientMoves(c, {"up"}, "fin")
ClientResets(c) == ClientMoves(c, {"backlog", "up", "fin"}, "reset")

(***************************************************************************)
(* The context thread                                                      *)
(***************************************************************************)
\* The accept handler re-arms itself, then builds the connection; the name of a
\* client that has gone cannot be asked for: remote_endpoint() throws.
Accept(c) ==
    /\ Running /\ socket[c] = "none" /\ peer[c] = "backlog"
    /\ peer' = [peer EXCEPT ![c] = "up"]
    /\ socket' = [socket EXCEPT ![c] = "open"]
    /\ connected_clients' = connected_clients \union {c}
    /\ reading' = [reading EXCEPT ![c] = "pending"]
    /\ UNCHANGED <<requests, mainVars, tasks, wayOut, terminated, sent, settled>>

ProcessEnds ==
    /\ terminated' = TRUE
    /\ UNCHANGED <<ends, connected_clients, requests, mainVars, tasks, wayOut, sent,
                   settled>>

AcceptThrows(c) ==
    /\ Running /\ socket[c] = "none" /\ peer[c] = "reset"
    /\ ProcessEnds

\* A handler of a destroyed connection: its socket is closed and shutdown() throws,
\* shared_from_this() throws, or its memory is gone.
HandlerOfDestroyed(c) ==
    /\ Running /\ HandlerPending(c) /\ ~Owned(c)
    /\ ProcessEnds

Notified == IF main = "waiting" THEN "test" ELSE main

\* The bytes of a request are in: whatever happens to the socket before the
\* handler runs, it runs without an error.
ReadArrives(c) ==
    /\ Runs(c) /\ reading[c] = "pending" /\ socket[c] = "open"
    /\ peer[c] \in {"up", "fin"} /\ sent[c] < MaxRequests[c]
    /\ reading' = [reading EXCEPT ![c] = "ready"]
    /\ UNCHANGED <<peer, socket, connected_clients, requests, mainVars, tasks,
                   wayOut, terminated, sent, settled>>

\* A request has arrived: it is pushed with a shared_ptr to its connection, the
\* main thread is notified and the next read is started at once.
ReadRequest(c) ==
    /\ Runs(c) /\ reading[c] = "ready"
    /\ reading' = [reading EXCEPT ![c] = "pending"]
    /\ sent' = [sent EXCEPT ![c] = @ + 1]
    /\ requests' = Append(requests, <<c, sent[c] + 1>>)
    /\ main' = Notified
    /\ UNCHANGED <<peer, socket, connected_clients, end, raced, tasks, wayOut,
                   terminated, settled>>

\* shutdown() reports its error by throwing: the socket of a client that reset
\* the connection is no longer connected, and one closed here is no socket.
ShutdownThrows(c) == peer[c] = "reset" \/ socket[c] = "closed"

\* End of stream, a malformed request, a reset, or a read aborted by close().
ReadFails(c) ==
    /\ Runs(c) /\ reading[c] = "pending"
    /\ reading' = [reading EXCEPT ![c] = "none"]
    /\ IF ShutdownThrows(c)
       THEN terminated' = TRUE /\ UNCHANGED socket
       ELSE socket' = [socket EXCEPT ![c] = "closed"] /\ UNCHANGED terminated
    /\ UNCHANGED <<peer, connected_clients, requests, mainVars, tasks, wayOut, sent,
                   settled>>

\* The router returned a response: send_response posts it.
CoroutineAnswers(r) ==
    /\ Running /\ r \in tasks
    /\ tasks' = tasks \ {r}
    /\ posted' = Append(posted, r)
    /\ UNCHANGED <<ends, connected_clients, requests, mainVars, responses,
                   writes, written, terminated, sent, settled>>

\* The router threw: the completion handler logs, nobody answers.
CoroutineThrows(r) ==
    /\ Running /\ r \in tasks
    /\ tasks' = tasks \ {r}
    /\ unanswered' = unanswered \union {r}
    /\ UNCHANGED <<ends, connected_clients, requests, mainVars, wayOut,
                   terminated, sent, delivered>>

\* Mutations of IsWriting: the test is forgotten; the queue is looked at after the
\* response has been pushed.
NeverWriting(c) == FALSE
WritingOncePushed(c) == TRUE

IsWriting(c) == responses[c] # <<>>

\* The posted lambda: the write is started only if none is under way.
QueueResponse ==
    /\ posted # <<>> /\ Runs(Conn(Head(posted)))
    /\ LET r == Head(posted)
           c == Conn(r) IN
       /\ posted' = Tail(posted)
       /\ responses' = [responses EXCEPT ![c] = Append(@, r)]
       /\ writes' = [writes EXCEPT ![c] = IF IsWriting(c) THEN @ ELSE @ + 1]
    /\ UNCHANGED <<ends, connected_clients, requests, mainVars, tasks, written,
                   terminated, sent, settled>>

\* The client's kernel has the response at the front, its handler is queued.
WriteArrives(c) ==
    /\ Runs(c) /\ writes[c] > 0 /\ c \notin written
    /\ socket[c] = "open" /\ peer[c] \in {"up", "fin"}
    /\ written' = written \union {c}
    /\ UNCHANGED <<ends, connected_clients, requests, mainVars, tasks, posted,
                   responses, writes, terminated, sent, settled>>

\* Mutation of HasNext: a response queued behind the one written is left there.
NoNext(c) == FALSE

\* Once the response at the front is popped, is there another?
HasNext(c) == Tail(responses[c]) # <<>>

\* The response at the front is out; the write of the next one is started.
WriteResponse(c) ==
    /\ Runs(c) /\ c \in written
    /\ written' = written \ {c}
    /\ delivered' = delivered \union {Head(responses[c])}
    /\ responses' = [responses EXCEPT ![c] = Tail(@)]
    /\ writes' = [writes EXCEPT ![c] = IF HasNext(c) THEN @ ELSE @ - 1]
    /\ UNCHANGED <<ends, connected_clients, requests, mainVars, tasks, posted,
                   terminated, sent, unanswered>>

\* A write to a client that has gone, or on a socket closed meanwhile; the
\* response stays where it is.
WriteFails(c) ==
    /\ Runs(c) /\ writes[c] > 0 /\ c \notin written
    /\ peer[c] \in {"fin", "reset"} \/ socket[c] = "closed"
    /\ socket' = [socket EXCEPT ![c] = "closed"]
    /\ writes' = [writes EXCEPT ![c] = @ - 1]
    /\ UNCHANGED <<peer, reading, connected_clients, requests, mainVars, tasks,
                   posted, responses, written, terminated, sent, settled>>

(***************************************************************************)
(* The main thread: while (true) update(-1, true)                          *)
(***************************************************************************)
MainGoes(from, to) == ~terminated /\ main = from /\ main' = to

\* What only the main thread's position changes.
mainOnly == UNCHANGED <<ends, connected_clients, requests, end, raced, tasks, wayOut,
                        sent, settled>>

Start == MainGoes("starting", "test") /\ mainOnly /\ UNCHANGED terminated

\* The accept or the thread cannot be started: main returns, and ~server_interface
\* stops a context that never ran.
StartFails == ~terminated /\ main = "starting" /\ ProcessEnds

\* The queue is looked at in wait() and in update(); RequestQueue has the locks.
MainTests ==
    /\ \/ requests = <<>> /\ (MainGoes("test", "blocking") \/ MainGoes("drain", "test"))
       \/ requests # <<>> /\ MainGoes("test", "drain")
    /\ mainOnly /\ UNCHANGED terminated

MainBlocks == MainGoes("blocking", "waiting") /\ mainOnly /\ UNCHANGED terminated

\* Mutations of RestOfQueue: the front is read and not popped; the back is popped.
QueueUnpopped == requests

LastPopped == SubSeq(requests, 1, Len(requests) - 1)

\* requests.pop_front().  A request leaves the queue with the step that ends its
\* handling: nobody else takes one, and both the queue and the copy own the client.
RestOfQueue == Tail(requests)

\* on_request, the client is connected: a coroutine is spawned on the context.
Dispatch ==
    /\ requests # <<>> /\ socket[Conn(Head(requests))] = "open"
    /\ MainGoes("drain", "drain")
    /\ tasks' = tasks \union {Head(requests)}
    /\ requests' = RestOfQueue
    /\ UNCHANGED <<ends, connected_clients, end, raced, wayOut, terminated, sent,
                   settled>>

\* on_request, the client has gone: std::remove looks for it ...
SearchClients ==
    /\ requests # <<>> /\ socket[Conn(Head(requests))] # "open"
    /\ MainGoes("drain", "erase")
    /\ end' = connected_clients
    /\ UNCHANGED <<ends, connected_clients, requests, raced, tasks, wayOut, terminated,
                   sent, settled>>

\* Mutation of Erased: the connection itself is searched for.
ErasedClient(r) == {Conn(r)}

\* The pointer is reset BEFORE connected_clients is searched for it: the search is
\* for nullptr, and nothing is found.
Erased(r) == {}

\* ... and everything from where it stopped to end() is erased.  The context thread
\* may have accepted clients meanwhile, and end() may be past them.
EraseClients ==
    /\ MainGoes("erase", "drain")
    /\ \E newcomers \in {{}, connected_clients \ end} :
          connected_clients' =
              connected_clients \ (Erased(Head(requests)) \union newcomers)
    /\ raced' = (raced \/ connected_clients # end)
    /\ end' = {}
    /\ unanswered' = unanswered \union {Head(requests)}
    /\ requests' = RestOfQueue
    /\ UNCHANGED <<ends, tasks, wayOut, terminated, sent, delivered>>

WriteHandler(c) == WriteArrives(c) \/ WriteResponse(c) \/ WriteFails(c)
Coroutine(r) == CoroutineAnswers(r) \/ CoroutineThrows(r)
MainStep == Start \/ StartFails \/ MainTests \/ MainBlocks \/ Dispatch
            \/ SearchClients \/ EraseClients

Next ==
    \/ \E c \in Conns : ClientConnects(c) \/ ClientCloses(c) \/ ClientResets(c)
    \/ \E c \in Conns : Accept(c) \/ AcceptThrows(c) \/ HandlerOfDestroyed(c)
    \/ \E c \in Conns : ReadArrives(c) \/ ReadRequest(c) \/ ReadFails(c)
    \/ \E c \in Conns : WriteArrives(c) \/ WriteResponse(c) \/ WriteFails(c)
    \/ \E r \in Ids : CoroutineAnswers(r) \/ CoroutineThrows(r)
    \/ QueueResponse
    \/ Start \/ StartFails \/ MainTests \/ MainBlocks
    \/ Dispatch \/ SearchClients \/ EraseClients

Spec == Init /\ [][Next]_vars

\* Both threads run, writes complete and coroutines end (the time-outs of their
\* database and Janus calls see to that); a client need not do anything.
FairSpec ==
    /\ Spec
    /\ WF_vars(MainStep)
    /\ WF_vars(QueueResponse)
    /\ \A r \in Ids : WF_vars(Coroutine(r))
    /\ \A c \in Conns : WF_vars(WriteHandler(c)) /\ WF_vars(HandlerOfDestroyed(c))

(***************************************************************************)
(* Properties                                                              *)
(***************************************************************************)
TypeOK ==
    /\ peer \in [Conns -> PeerState]
    /\ socket \in [Conns -> SocketState]
    /\ connected_clients \subseteq Conns
    /\ requests \in Seq(Ids)
    /\ main \in MainPC
    /\ end \subseteq Conns /\ raced \in BOOLEAN
    /\ tasks \subseteq Ids
    /\ posted \in Seq(Ids)
    /\ responses \in [Conns -> Seq(Ids)]
    /\ reading \in [Conns -> ReadState]
    /\ writes \in [Conns -> 0..1]
    /\ written \subseteq Conns
    /\ terminated \in BOOLEAN
    /\ \A c \in Conns : sent[c] \in 0..MaxRequests[c]
    /\ delivered \subseteq Ids /\ unanswered \subseteq Ids

\* Every request that was read is in exactly one place between the queue and its
\* end: queued, in a coroutine, posted, waiting to be written, delivered, or
\* given up.  None is lost, and none is answered twice.
Times(r, s) == Cardinality({k \in DOMAIN s : s[k] = r})

Places(r) ==
    Times(r, requests) + Times(r, posted) + Times(r, responses[Conn(r)])
    + Cardinality({k \in 1..3 : r \in <<tasks, delivered, unanswered>>[k]})

EachRequestInOnePlace ==
    \A r \in Ids : Places(r) = IF r[2] <= sent[Conn(r)] THEN 1 ELSE 0

\* The way of each request, as Exchange states it: requests of one client leave the
\* queue in the order they were sent in, also when others wait between them.
In(r, s) == \E k \in DOMAIN s : s[k] = r

PhaseOf(r) ==
    IF r \in delivered THEN "delivered"
    ELSE IF r \in unanswered THEN "given up"
    ELSE IF In(r, posted) \/ In(r, responses[Conn(r)]) THEN "answered"
    ELSE IF r \in tasks THEN "running"
    ELSE IF In(r, requests) THEN "queued" ELSE "unread"

Promise == INSTANCE Exchange WITH phase <- [r \in Ids |-> PhaseOf(r)]
ImplementsExchange == Promise!Spec

\* At most one async_write runs on a socket, and while the socket is open one
\* runs exactly when there is something to write: the lambda of send_response and
\* the write handler start writes independently (76-82 against 140-153).
OneWriter ==
    \A c \in Conns :
        /\ writes[c] <= 1
        /\ socket[c] = "open" => (writes[c] = 1 <=> responses[c] # <<>>)

\* The read and write handlers and the posted lambda capture a raw this; the
\* connection they use is alive, although clients that have gone stay in
\* connected_clients (134), unless a client was accepted while the main thread was
\* erasing (71 against 135).
HandlersOwnTheirConnection ==
    ~raced => \A c \in Conns : HandlerPending(c) => Owned(c)

\* The exceptions that end the process once it has started (64-66, 117, and a
\* handler whose connection is gone) need a client that has gone: one that only
\* pipelines, sends what is malformed or waits never ends it, however its requests
\* are dropped or answered late, unless the erase has raced with an accept.
OnlyGoneClientsEndIt ==
    terminated /\ main # "starting" =>
        raced \/ \E c \in Conns : peer[c] \in {"fin", "reset"}

\* A request that reached the router is answered or given up with a log, unless
\* the connection fails or the process ends: no response stays in the queue of an
\* open connection.
DispatchedIsSettled ==
    \A r \in Ids :
        r \in tasks ~> \/ r \in delivered \union unanswered
                       \/ socket[Conn(r)] = "closed"
                       \/ terminated

\* "If the reading fails, the connection will close." (network_connection.hpp 102)
ReadFailureOnlyCloses ==
    [][\A c \in Conns : reading[c] = "pending" /\ reading'[c] = "none"
                        => socket'[c] = "closed" /\ ~terminated']_vars
=============================================================================
