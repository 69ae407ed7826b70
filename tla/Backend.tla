------------------------------ MODULE Backend ------------------------------
(***************************************************************************)
(* The server with its router: the coroutine of HttpServer is the request  *)
(* of UserService.  A request is routed once it has been dispatched; its   *)
(* last step in the service is the end of its coroutine, which posts the   *)
(* response or logs the exception.  HttpServer assumes that coroutines end; *)
(* here that follows from the timers of the database and of Janus.         *)
(***************************************************************************)
EXTENDS HttpServer

CONSTANTS Names, Rows, Tokens, Room, RoomTx, MaxSessions, MaxLife, DbLimit,
          JanusLimit, None, Nullopt, Transactions, RoomIds

VARIABLES stage, request, username, waited, status, issued, owner, left, reply,
          janus, room, answer

serviceVars == <<stage, request, username, waited, status, issued, owner, left,
                 reply, janus, room, answer>>
backendVars == <<vars, serviceVars>>

Service == INSTANCE UserService WITH Requests <- Ids, Ids <- RoomIds

\* What UserService assumes of its constants; tokens, names and ids are no None.
ASSUME BackendAssumption ==
    /\ Rows \in [Names -> Service!RowKind]
    /\ Room \in RoomIds /\ RoomTx \in Transactions
    /\ None \notin Tokens \union Names \union Transactions \union RoomIds \union Service!Kinds
    /\ {MaxSessions, MaxLife, DbLimit, JanusLimit} \subseteq Nat
    /\ DbLimit + JanusLimit < MaxLife

BackendInit == Init /\ Service!Init

\* What the step of r means for its coroutine.
Ends(r) ==
    CASE stage'[r] = "answered" -> CoroutineAnswers(r)
      [] stage'[r] = "threw" -> CoroutineThrows(r)
      [] OTHER -> UNCHANGED vars

\* The coroutine of a dispatched request can be resumed.
Resumes(r) == Running /\ r \in tasks

\* It runs up to its next await.
Routes(r) == Resumes(r) /\ Service!Begins(r) /\ Ends(r)
AfterQuery(r) == Resumes(r) /\ Service!Queried(r) /\ Ends(r)
AfterJanus(r) == Resumes(r) /\ Service!Asked(r) /\ Ends(r)

\* Neither the time nor Janus waits for the server.
Surroundings ==
    /\ ~terminated
    /\ Service!Elapse \/ Service!JanusStops \/ \E r \in tasks : Service!JanusServes(r)
    /\ UNCHANGED vars

ContextStep(c) ==
    Accept(c) \/ AcceptThrows(c) \/ HandlerOfDestroyed(c)
    \/ ReadArrives(c) \/ ReadRequest(c) \/ ReadFails(c) \/ WriteHandler(c)

ServerStep ==
    /\ \/ \E c \in Conns : ClientConnects(c) \/ ClientCloses(c) \/ ClientResets(c)
       \/ \E c \in Conns : ContextStep(c)
       \/ QueueResponse \/ MainStep
    /\ UNCHANGED serviceVars

BackendNext ==
    \/ ServerStep
    \/ \E r \in Ids : Routes(r) \/ AfterQuery(r) \/ AfterJanus(r)
    \/ Surroundings

BackendSpec == BackendInit /\ [][BackendNext]_backendVars

\* Both threads run, writes complete, and the timers of the database and of a
\* running Janus context fire.  Coroutines are not assumed to end.
Timer(r) == Resumes(r) /\ (Service!QueryFails(r) \/ Service!JanusFails(r)) /\ Ends(r)

BackendFairSpec ==
    /\ BackendSpec
    /\ WF_backendVars(MainStep /\ UNCHANGED serviceVars)
    /\ WF_backendVars(QueueResponse /\ UNCHANGED serviceVars)
    /\ \A c \in Conns :
          /\ WF_backendVars(WriteHandler(c) /\ UNCHANGED serviceVars)
          /\ WF_backendVars(HandlerOfDestroyed(c) /\ UNCHANGED serviceVars)
    /\ \A r \in Ids : WF_backendVars(Routes(r)) /\ WF_backendVars(Timer(r))

(***************************************************************************)
(* Properties                                                              *)
(***************************************************************************)
\* A request is routed once, and only once it has been dispatched: the router has
\* done with it when its response is anywhere on its way or its exception logged,
\* and has not seen it while it is queued.  Each request is thus answered by one
\* run of its coroutine, however many others overlap with it at their awaits.
RoutedOnce ==
    \A r \in Ids :
        /\ In(r, requests) => stage[r] = "new"
        /\ r \in tasks => stage[r] \in {"new", "db", "janus"}
        /\ stage[r] = "answered" <=>
               In(r, posted) \/ In(r, responses[Conn(r)]) \/ r \in delivered
        /\ stage[r] = "threw" => r \in unanswered

\* The fairness HttpServer assumes of its coroutines holds of the composition as
\* long as the Janus context runs: no await of the router lasts for ever.
CoroutinesEnd ==
    [](janus = "running") => \A r \in Ids : WF_vars(Coroutine(r))

\* A dispatched request is delivered, unless its connection fails, the process ends
\* or a NULL column throws.  A Janus client that has stopped (janus_context.cpp 84)
\* holds meeting requests for ever and only these: no login and no other request,
\* even one pipelined behind them on the same connection.
OnlyMeetingsHang ==
    \A r \in Ids :
        r \in tasks ~>
            \/ r \in delivered \/ stage[r] = "threw"
            \/ socket[Conn(r)] = "closed" \/ terminated
            \/ janus = "stopped" /\ stage[r] = "janus"
=============================================================================
