---------------------------- MODULE BackendProofs ----------------------------
(***************************************************************************)
(* The composition does what its two parts do, so what is proved of them   *)
(* holds of it; and each request is routed once.                           *)
(***************************************************************************)
EXTENDS Backend, ExchangeProofs

(***************************************************************************)
(* Its steps are steps of the server and of the service                    *)
(***************************************************************************)
\* The service with the theorems about it.
Proved == INSTANCE UserServiceProofs WITH Requests <- Ids, Ids <- RoomIds

LEMMA ServiceConstants ==
    /\ Rows \in [Names -> Proved!RowKind]
    /\ Room \in RoomIds /\ RoomTx \in Transactions
    /\ None \notin Tokens \union Names
    /\ {MaxSessions, MaxLife, DbLimit, JanusLimit} \subseteq Nat
    /\ DbLimit + JanusLimit < MaxLife
    /\ None \notin Transactions \union RoomIds \union Proved!Kinds
BY BackendAssumption DEF Service!RowKind, Service!Kinds, Proved!RowKind, Proved!Kinds

LEMMA SameCardinality ==
    \A S : /\ Service!Sessions!Cardinality(S) = Proved!Sessions!Cardinality(S)
           /\ Service!Cardinality(S) = Proved!Cardinality(S)
BY DEF Service!Sessions!Cardinality, Proved!Sessions!Cardinality,
       Service!Cardinality, Proved!Cardinality

\* The two instances have the same actions.
LEMMA SameInit == Service!Init => Proved!Init
BY DEF Service!Init, Proved!Init, Service!NoRequest, Proved!NoRequest,
       Service!Sessions!Init, Proved!Sessions!Init

LEMMA SameBegins ==
    ASSUME NEW r, Service!Begins(r) PROVE Proved!Begins(r)
<1> USE DEF Service!Arrives, Service!Respond, Service!Await, Service!store, Service!NoRequest,
            Proved!Arrives, Proved!Respond, Proved!Await, Proved!store, Proved!NoRequest
<1>1. ASSUME Service!NotFound(r) PROVE Proved!NotFound(r)
    BY <1>1 DEF Service!NotFound, Proved!NotFound
<1>2. ASSUME Service!LoginUser(r) PROVE Proved!LoginUser(r)
    BY <1>2 DEF Service!LoginUser, Proved!LoginUser
<1>3. ASSUME Service!NoAuthorization(r) PROVE Proved!NoAuthorization(r)
    BY <1>3 DEF Service!NoAuthorization, Proved!NoAuthorization
<1>4. ASSUME Service!Authorized(r) PROVE Proved!Authorized(r)
    BY <1>4 DEF Service!Authorized, Proved!Authorized, Service!Renewed, Proved!Renewed,
                Service!Valid, Proved!Valid,
                Service!Sessions!Validate, Proved!Sessions!Validate
<1> QED BY <1>1, <1>2, <1>3, <1>4 DEF Service!Begins, Proved!Begins

LEMMA SameQueried ==
    ASSUME NEW r, Service!Queried(r) PROVE Proved!Queried(r)
<1> USE DEF Service!Respond, Service!Await, Service!store, Service!Row, Service!PasswordMatches,
            Proved!Respond, Proved!Await, Proved!store, Proved!Row, Proved!PasswordMatches
<1>1. ASSUME Service!QueryFails(r) PROVE Proved!QueryFails(r)
    BY <1>1 DEF Service!QueryFails, Proved!QueryFails
<1>2. ASSUME Service!NoUser(r) PROVE Proved!NoUser(r)
    BY <1>2 DEF Service!NoUser, Proved!NoUser
<1>3. ASSUME Service!WrongPassword(r) PROVE Proved!WrongPassword(r)
    BY <1>3 DEF Service!WrongPassword, Proved!WrongPassword
<1>4. ASSUME Service!NewSession(r) PROVE Proved!NewSession(r)
    <2>1. Service!Sessions!Issue(r, username[r]) => Proved!Sessions!Issue(r, username[r])
        BY SameCardinality DEF Service!Sessions!Issue, Proved!Sessions!Issue,
               Service!Sessions!Live, Proved!Sessions!Live
    <2>2. Service!Sessions!Refuse(r) => Proved!Sessions!Refuse(r)
        BY SameCardinality DEF Service!Sessions!Refuse, Proved!Sessions!Refuse
    <2> QED BY <1>4, <2>1, <2>2 DEF Service!NewSession, Proved!NewSession
<1>5. ASSUME Service!AskJanus(r) PROVE Proved!AskJanus(r)
    BY <1>5 DEF Service!AskJanus, Proved!AskJanus
<1> QED BY <1>1, <1>2, <1>3, <1>4, <1>5 DEF Service!Queried, Proved!Queried

LEMMA SameAsked ==
    ASSUME NEW r, Service!Asked(r) PROVE Proved!Asked(r)
<1> USE DEF Service!Respond, Service!store, Proved!Respond, Proved!store
<1>1. ASSUME Service!JanusAnswers(r) PROVE Proved!JanusAnswers(r)
    BY <1>1 DEF Service!JanusAnswers, Proved!JanusAnswers, Service!Accepts, Proved!Accepts,
                Service!CreateVideoAccepts, Proved!CreateVideoAccepts,
                Service!ListParticipantsAccepts, Proved!ListParticipantsAccepts
<1>2. ASSUME Service!JanusFails(r) PROVE Proved!JanusFails(r)
    BY <1>2 DEF Service!JanusFails, Proved!JanusFails
<1> QED BY <1>1, <1>2 DEF Service!Asked, Proved!Asked

LEMMA SameServes ==
    ASSUME NEW r, Service!JanusServes(r) PROVE Proved!JanusServes(r)
BY DEF Service!JanusServes, Proved!JanusServes, Service!store, Proved!store,
       Service!WithRoom, Proved!WithRoom, Service!PluginError, Proved!PluginError,
       Service!Bare, Proved!Bare

LEMMA SameElapse == Service!Elapse => Proved!Elapse
BY DEF Service!Elapse, Proved!Elapse, Service!Timed, Proved!Timed, Service!Limit, Proved!Limit,
       Service!Sessions!Elapse, Proved!Sessions!Elapse

LEMMA SameJanusStops == Service!JanusStops => Proved!JanusStops
BY DEF Service!JanusStops, Proved!JanusStops, Service!store, Proved!store

LEMMA SameService == Service!Spec => Proved!Spec
<1>1. [Service!Next]_Service!vars => [Proved!Next]_Proved!vars
    BY SameBegins, SameQueried, SameAsked, SameServes, SameElapse, SameJanusStops
       DEF Service!Next, Proved!Next, Service!vars, Proved!vars
<1> QED BY <1>1, SameInit, PTL DEF Service!Spec, Proved!Spec

\* A step of a request's coroutine ends with it answered, thrown or in an await.
LEMMA CoroutineSteps ==
    ASSUME NEW r \in Ids, Routes(r) \/ AfterQuery(r) \/ AfterJanus(r)
    PROVE  /\ r \in tasks /\ Ends(r)
           /\ Service!Begins(r) \/ Service!Queried(r) \/ Service!Asked(r)
BY DEF Routes, AfterQuery, AfterJanus, Resumes

LEMMA EndsIsServer ==
    ASSUME NEW r \in Ids, Ends(r)
    PROVE  [Next]_vars
<1>1. CASE stage'[r] = "answered"
    BY <1>1 DEF Ends, Next
<1>2. CASE stage'[r] = "threw"
    BY <1>2 DEF Ends, Next
<1>3. CASE stage'[r] # "answered" /\ stage'[r] # "threw"
    BY <1>3 DEF Ends
<1> QED BY <1>1, <1>2, <1>3

LEMMA ServerStepIsServer == ServerStep => Next
BY DEF ServerStep, ContextStep, WriteHandler, MainStep, Next

LEMMA StepIsServer == [BackendNext]_backendVars => [Next]_vars
<1> SUFFICES ASSUME [BackendNext]_backendVars PROVE [Next]_vars
    OBVIOUS
<1>1. CASE ServerStep
    BY <1>1, ServerStepIsServer
<1>2. ASSUME NEW r \in Ids, Routes(r) \/ AfterQuery(r) \/ AfterJanus(r)
      PROVE  [Next]_vars
    BY <1>2, CoroutineSteps, EndsIsServer
<1>3. CASE Surroundings \/ UNCHANGED backendVars
    BY <1>3 DEF Surroundings, backendVars
<1> QED BY <1>1, <1>2, <1>3 DEF BackendNext

\* What the router does with a request, and when, is what the server leaves open:
\* composed with it, the server does nothing it does not do alone.
THEOREM CompositionIsServer == BackendSpec => Spec
BY StepIsServer, PTL DEF BackendSpec, BackendInit, Spec

LEMMA StepIsService ==
    ServerInv /\ [BackendNext]_backendVars => [Service!Next]_Service!vars
<1> SUFFICES ASSUME ServerInv, [BackendNext]_backendVars
             PROVE  [Service!Next]_Service!vars
    OBVIOUS
<1>1. CASE ServerStep \/ UNCHANGED backendVars
    BY <1>1 DEF ServerStep, serviceVars, backendVars, Service!vars
<1>2. ASSUME NEW r \in Ids, Routes(r) \/ AfterQuery(r) \/ AfterJanus(r)
      PROVE  Service!Next
    BY <1>2, CoroutineSteps DEF Service!Next
<1>3. CASE Surroundings
    <2>1. tasks \subseteq Ids
        BY DEF ServerInv, WayType
    <2> QED BY <1>3, <2>1 DEF Surroundings, Service!Next
<1> QED BY <1>1, <1>2, <1>3 DEF BackendNext

\* To the service, the server is a source of requests: a coroutine takes its steps
\* one at a time and only while its request is in tasks.
THEOREM CompositionIsService == BackendSpec => Service!Spec
<1>1. Spec => []ServerInv
    BY PlaceCorrect, PTL
<1> QED BY <1>1, CompositionIsServer, StepIsService, PTL
        DEF BackendSpec, BackendInit, Service!Spec

(***************************************************************************)
(* What is proved of the parts holds of the composition                    *)
(***************************************************************************)
LEMMA ServiceTheorems ==
    Proved!Spec => [](/\ Proved!SessionOutlivesRequest
                      /\ Proved!MeetingRestsOnLogin
                      /\ Proved!OneCreator)
<1>1. /\ Proved!Spec => []Proved!SessionOutlivesRequest
      /\ Proved!Spec => []Proved!MeetingRestsOnLogin
      /\ Proved!Spec => []Proved!OneCreator
    BY ServiceConstants, Proved!SessionOutlives, Proved!MeetingsRestOnLogins,
       Proved!RoomsAreCreatedOnce
       DEF Proved!ServiceAssumption, Proved!LimitsAssumption, Proved!NoneAssumption
<1> QED BY <1>1, PTL

LEMMA SameProperties ==
    /\ Proved!SessionOutlivesRequest => Service!SessionOutlivesRequest
    /\ Proved!MeetingRestsOnLogin => Service!MeetingRestsOnLogin
    /\ Proved!OneCreator => Service!OneCreator
<1>1. Proved!SessionOutlivesRequest => Service!SessionOutlivesRequest
    BY DEF Proved!SessionOutlivesRequest, Service!SessionOutlivesRequest,
           Proved!Timed, Service!Timed
<1>2. Proved!MeetingRestsOnLogin => Service!MeetingRestsOnLogin
    BY DEF Proved!MeetingRestsOnLogin, Service!MeetingRestsOnLogin,
           Proved!Login, Service!Login
<1>3. Proved!OneCreator => Service!OneCreator
    BY SameCardinality DEF Proved!OneCreator, Service!OneCreator
<1> QED BY <1>1, <1>2, <1>3

\* With the server in front and its requests pipelined on shared connections: a
\* handler's session outlives it, a meeting rests on a login, and one create at most
\* is answered with the room.
THEOREM ServiceKeepsItsPromises ==
    BackendSpec => [](/\ Service!SessionOutlivesRequest
                      /\ Service!MeetingRestsOnLogin
                      /\ Service!OneCreator)
BY CompositionIsService, SameService, ServiceTheorems, SameProperties, PTL

\* With the router behind it: writes do not overlap, handlers own their connection,
\* only clients that have gone end the process, and the server implements Exchange.
THEOREM ServerKeepsItsPromises ==
    BackendSpec => /\ [](OneWriter /\ HandlersOwnTheirConnection /\ OnlyGoneClientsEndIt)
                   /\ []EachRequestInOnePlace
                   /\ ImplementsExchange
BY CompositionIsServer, WritesDoNotOverlap, HandlersAreSafe, EndsForGoneClients,
   RequestsAreInOnePlace, ServerImplementsExchange, PTL

(***************************************************************************)
(* The place of a request and its stage                                    *)
(***************************************************************************)
Stage == {"new", "db", "janus", "answered", "threw"}

\* The stages of a request at p.
Fits(p) ==
    CASE p \in {"unread", "queued"} -> {"new"}
      [] p = "running" -> {"new", "db", "janus"}
      [] p \in {"posted", "waiting", "delivered"} -> {"answered"}
      [] OTHER -> {"new", "threw"}

StageInv ==
    /\ stage \in [Ids -> Stage]
    /\ \A r \in Ids, p \in Place : IsAt(r, p) => stage[r] \in Fits(p)

RoutedInv == ServerInv /\ PlaceInv /\ StageInv

LEMMA RoutedInvRoutes == RoutedInv => RoutedOnce
<1> SUFFICES ASSUME RoutedInv, NEW r \in Ids
             PROVE  /\ In(r, requests) => stage[r] = "new"
                    /\ r \in tasks => stage[r] \in {"new", "db", "janus"}
                    /\ stage[r] = "answered" <=>
                           In(r, posted) \/ In(r, responses[Conn(r)]) \/ r \in delivered
                    /\ stage[r] = "threw" => r \in unanswered
    BY DEF RoutedOnce
<1>1. PICK p \in Place : IsAt(r, p) /\ stage[r] \in Fits(p)
    BY PlaceOf DEF RoutedInv, StageInv
<1> QED BY <1>1 DEF IsAt, Fits, Place

LEMMA OnePlaceNext ==
    ASSUME NEW r, NEW p \in Place, NEW q \in Place, IsAt(r, p)', IsAt(r, q)'
    PROVE  p = q
BY DEF IsAt, Place

\* r moves to a place that fits the stage it moves to.
LEMMA FitsStep ==
    ASSUME PlaceInv, StageInv, NEW r, NEW from \in Place, NEW to \in Place,
           Moves(r, from, to), NEW s \in Stage, s \in Fits(to),
           stage' = [stage EXCEPT ![r] = s]
    PROVE  StageInv'
<1>1. stage' \in [Ids -> Stage]
    BY DEF StageInv, Moves
<1>2. ASSUME NEW q \in Ids, NEW p \in Place, IsAt(q, p)'
      PROVE  stage'[q] \in Fits(p)
    <2>1. CASE q = r
        BY <1>2, <2>1, OnePlaceNext DEF StageInv, Moves
    <2>2. CASE q # r
        <3>1. PICK p0 \in Place : IsAt(q, p0)
            BY PlaceOf
        <3>2. p0 = p
            BY <1>2, <2>2, <3>1, OnePlaceNext DEF Moves
        <3> QED BY <2>2, <3>1, <3>2 DEF StageInv
    <2> QED BY <2>1, <2>2
<1> QED BY <1>1, <1>2 DEF StageInv

\* ... or keeps the stage it has.
LEMMA FitsMove ==
    ASSUME PlaceInv, StageInv, NEW r, NEW from \in Place, NEW to \in Place,
           Moves(r, from, to), Fits(from) \subseteq Fits(to), UNCHANGED stage
    PROVE  StageInv'
<1>1. stage[r] \in Stage /\ stage[r] \in Fits(to)
    BY DEF StageInv, Moves
<1>2. stage' = [stage EXCEPT ![r] = stage[r]]
    BY DEF StageInv
<1> QED BY <1>1, <1>2, FitsStep

LEMMA FitsStay ==
    ASSUME PlaceInv, StageInv, UNCHANGED Whereabouts, UNCHANGED stage
    PROVE  StageInv'
<1>1. ASSUME NEW q \in Ids, NEW p \in Place, IsAt(q, p)'
      PROVE  stage[q] \in Fits(p)
    <2>1. PICK p0 \in Place : IsAt(q, p0)
        BY PlaceOf
    <2>2. p0 = p
        BY <1>1, <2>1, AllStay, OnePlaceNext
    <2> QED BY <2>1, <2>2 DEF StageInv
<1> QED BY <1>1 DEF StageInv

LEMMA ServerStepRouted ==
    ASSUME RoutedInv, ServerStep
    PROVE  StageInv'
<1> USE DEF RoutedInv
<1>1. UNCHANGED stage
    BY DEF ServerStep, serviceVars
<1>2. ASSUME NEW c \in Conns, ReadRequest(c) \/ WriteResponse(c)
      PROVE  StageInv'
    BY <1>1, <1>2, ReadMoves, WriteMoves, FitsMove DEF Fits, Place
<1>3. CASE QueueResponse
    BY <1>1, <1>3, QueueMoves, FitsMove DEF Fits, Place
<1>4. CASE Dispatch \/ EraseClients
    BY <1>1, <1>4, DispatchMoves, EraseMoves, FitsMove DEF Fits, Place
<1>5. CASE UNCHANGED Whereabouts
    BY <1>1, <1>5, FitsStay
<1> QED BY <1>2, <1>3, <1>4, <1>5, OthersStay
        DEF ServerStep, ContextStep, WriteHandler, MainStep

\* The stage a step of the service leaves its request in.
LEMMA ServiceStage ==
    ASSUME NEW r, Service!Begins(r) \/ Service!Queried(r) \/ Service!Asked(r)
    PROVE  \E s \in {"db", "janus", "answered", "threw"} : stage' = [stage EXCEPT ![r] = s]
<1>1. CASE Service!Begins(r)
    BY <1>1 DEF Service!Begins, Service!NotFound, Service!LoginUser, Service!NoAuthorization,
                Service!Authorized, Service!Respond, Service!Await
<1>2. CASE Service!Queried(r)
    BY <1>2 DEF Service!Queried, Service!QueryFails, Service!NoUser, Service!WrongPassword,
                Service!NewSession, Service!AskJanus, Service!Respond, Service!Await
<1>3. CASE Service!Asked(r)
    BY <1>3 DEF Service!Asked, Service!JanusAnswers, Service!JanusFails, Service!Respond
<1> QED BY <1>1, <1>2, <1>3

LEMMA CoroutineRouted ==
    ASSUME RoutedInv, NEW r \in Ids, Routes(r) \/ AfterQuery(r) \/ AfterJanus(r)
    PROVE  StageInv'
<1> USE DEF RoutedInv
<1>1. PICK s \in {"db", "janus", "answered", "threw"} : stage' = [stage EXCEPT ![r] = s]
    BY CoroutineSteps, ServiceStage
<1>2. stage'[r] = s /\ s \in Stage /\ r \in tasks /\ Ends(r)
    BY <1>1, CoroutineSteps DEF StageInv, Stage
<1>3. CASE s = "answered"
    <2>1. Moves(r, "running", "posted")
        BY <1>2, <1>3, AnswerMoves DEF Ends
    <2> QED BY <1>1, <1>2, <1>3, <2>1, FitsStep DEF Fits, Place
<1>4. CASE s = "threw"
    <2>1. Moves(r, "running", "given up")
        BY <1>2, <1>4, ThrowMoves DEF Ends
    <2> QED BY <1>1, <1>2, <1>4, <2>1, FitsStep DEF Fits, Place
<1>5. CASE s \in {"db", "janus"}
    <2>1. UNCHANGED Whereabouts
        BY <1>2, <1>5, OthersStay DEF Ends
    <2>2. Moves(r, "running", "running")
        BY <1>2, <2>1, RunningIsAt, AllStay DEF Moves, Place
    <2> QED BY <1>1, <1>2, <1>5, <2>2, FitsStep DEF Fits, Place
<1> QED BY <1>3, <1>4, <1>5

LEMMA StepRoutedInv == RoutedInv /\ [BackendNext]_backendVars => RoutedInv'
<1> SUFFICES ASSUME RoutedInv, [BackendNext]_backendVars PROVE RoutedInv'
    OBVIOUS
<1>1. ServerInv' /\ PlaceInv'
    BY StepIsServer, StepServerInv, StepPlaceInv DEF RoutedInv
<1> SUFFICES StageInv'
    BY <1>1 DEF RoutedInv
<1>2. ASSUME NEW r \in Ids, Routes(r) \/ AfterQuery(r) \/ AfterJanus(r)
      PROVE  StageInv'
    BY <1>2, CoroutineRouted
<1>3. CASE Surroundings \/ UNCHANGED backendVars
    <2>1. UNCHANGED vars /\ UNCHANGED stage
        BY <1>3 DEF Surroundings, backendVars, serviceVars, Service!Elapse,
                    Service!JanusStops, Service!JanusServes
    <2> QED BY <2>1, OthersStay, FitsStay DEF RoutedInv
<1>4. CASE ServerStep
    BY <1>4, ServerStepRouted
<1> QED BY <1>2, <1>3, <1>4 DEF BackendNext

LEMMA InitRoutedInv == BackendInit => RoutedInv
<1> SUFFICES ASSUME BackendInit PROVE RoutedInv
    OBVIOUS
<1>1. stage = [r \in Ids |-> "new"]
    BY DEF BackendInit, Service!Init
<1>2. ASSUME NEW r \in Ids, NEW p \in Place, IsAt(r, p)
      PROVE  stage[r] \in Fits(p)
    <2>1. ~(r[2] <= sent[Conn(r)])
        BY IdParts DEF BackendInit, Init
    <2> QED BY <1>1, <1>2, <2>1 DEF IsAt, Fits
<1>3. ServerInv /\ PlaceInv
    BY InitServerInv, InitPlaceInv DEF BackendInit
<1> QED BY <1>1, <1>2, <1>3 DEF RoutedInv, StageInv, Stage

\* Each request is routed once, by one run of its coroutine, and has its response on
\* the way exactly when the router answered it, however many requests and clients.
THEOREM RequestsAreRoutedOnce == BackendSpec => []RoutedOnce
BY InitRoutedInv, StepRoutedInv, RoutedInvRoutes, PTL DEF BackendSpec
=============================================================================
