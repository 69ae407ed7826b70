-------------------------- MODULE UserServiceProofs --------------------------
(***************************************************************************)
(* Theorems about the service, for every number of requests, names and     *)
(* tokens, and every life of a session longer than the two awaits.         *)
(***************************************************************************)
EXTENDS UserService, FiniteSetTheorems, TLAPS

(***************************************************************************)
(* Types                                                                   *)
(***************************************************************************)
\* TypeOK in two parts: where the coroutines are, and the data.
StageType ==
    /\ stage \in [Requests -> {"new", "db", "janus", "answered", "threw"}]
    /\ waited \in [Requests -> Nat]
    /\ \A r \in Requests : Timed(r) => waited[r] <= Limit(r)
    /\ status \in [Requests -> {"none", "ok", "bad_request", "not_found"}]

RequestType ==
    /\ request \in [Requests -> [path : Path, token : Tokens \union {None},
                                 name : Names \union {None}, body : Content]]
    /\ username \in [Requests -> Names \union {None}]

StoreType ==
    /\ issued \subseteq Tokens
    /\ owner \in [Tokens -> Names \union {Nullopt}]
    /\ left \in [Tokens -> 0..MaxLife]

JanusType ==
    /\ janus \in {"running", "stopped"} /\ room \in BOOLEAN
    /\ answer \in [Requests -> Body \union {None}]

LEMMA Types == TypeOK <=> StageType /\ RequestType /\ StoreType /\ JanusType
BY DEF TypeOK, StageType, RequestType, StoreType, JanusType

\* What the strengthening adds: a query is for a name, a live token has an owner.
NamesInv ==
    /\ \A r \in Requests : stage[r] = "db" => username[r] \in Names
    /\ \A t \in Tokens : left[t] > 0 => owner[t] \in Names

TypeInv == StageType /\ RequestType /\ StoreType /\ JanusType /\ NamesInv

LEMMA NoRequestType ==
    NoRequest \in [path : Path, token : Tokens \union {None},
                   name : Names \union {None}, body : Content]
BY DEF NoRequest, Path, Content

LEMMA InitTypeInv == Init => TypeInv
<1> SUFFICES ASSUME Init PROVE TypeInv
    OBVIOUS
<1>1. StageType
    BY DEF Init, StageType, Timed
<1>2. RequestType
    BY NoRequestType DEF Init, RequestType
<1>3. StoreType
    BY LimitsAssumption DEF Init, Sessions!Init, StoreType
<1>4. JanusType
    BY DEF Init, JanusType
<1>5. NamesInv
    BY DEF Init, Sessions!Init, NamesInv
<1> QED BY <1>1, <1>2, <1>3, <1>4, <1>5 DEF TypeInv

\* A response ends the await, a new await begins with no time spent.
LEMMA RespondStage ==
    ASSUME StageType, NEW r \in Requests, janus' = janus,
           NEW s \in {"none", "ok", "bad_request", "not_found"}, Respond(r, s)
    PROVE  StageType'
BY DEF StageType, Respond, Timed, Limit

LEMMA AwaitStage ==
    ASSUME StageType, NEW r \in Requests, janus' = janus,
           NEW s \in {"db", "janus"}, Await(r, s)
    PROVE  StageType'
BY LimitsAssumption DEF StageType, Await, Timed, Limit

\* The bodies of Janus are bodies.
LEMMA BodyTypes ==
    /\ PluginError(RoomTx) \in Body
    /\ WithRoom(RoomTx, Room) \in Body
    /\ Bare("error", RoomTx) \in Body
BY ServiceAssumption DEF PluginError, WithRoom, Bare, Body, Kinds

\* The store keeps its types, and a name is bound to each live token.
LEMMA ValidateStore ==
    ASSUME StoreType, NamesInv, NEW r \in Requests, NEW t \in Tokens, Renewed(r, t)
    PROVE  StoreType' /\ (\A x \in Tokens : left'[x] > 0 => owner'[x] \in Names)
BY LimitsAssumption DEF StoreType, NamesInv, Renewed, Sessions!Validate

LEMMA IssueStore ==
    ASSUME StoreType, NamesInv, NEW r \in Requests, NEW u \in Names,
           Sessions!Issue(r, u)
    PROVE  StoreType' /\ (\A x \in Tokens : left'[x] > 0 => owner'[x] \in Names)
BY LimitsAssumption DEF StoreType, NamesInv, Sessions!Issue

LEMMA ElapseStore ==
    ASSUME StoreType, NamesInv, Sessions!Elapse
    PROVE  StoreType' /\ (\A x \in Tokens : left'[x] > 0 => owner'[x] \in Names)
BY LimitsAssumption DEF StoreType, NamesInv, Sessions!Elapse

LEMMA ArrivesRequest ==
    ASSUME RequestType, NEW r \in Requests, NEW req, Arrives(r, req),
           req \in [path : Path, token : Tokens \union {None},
                    name : Names \union {None}, body : Content]
    PROVE  request' \in [Requests -> [path : Path, token : Tokens \union {None},
                                      name : Names \union {None}, body : Content]]
BY DEF RequestType, Arrives

LEMMA AuthorizedTypeInv ==
    ASSUME TypeInv, NEW r \in Requests, Authorized(r)
    PROVE  TypeInv'
<1> USE DEF TypeInv
<1>1. PICK p \in {"/create", "/list_participants"}, t \in Tokens,
           b \in {"malformed", "room", "other_room"} :
          /\ Arrives(r, [path |-> p, token |-> t, name |-> None, body |-> b])
          /\ Renewed(r, t)
          /\ IF Valid(t)
             THEN username' = [username EXCEPT ![r] = owner[t]] /\ Await(r, "db")
             ELSE UNCHANGED username /\ Respond(r, "bad_request")
    BY DEF Authorized
<1>2. JanusType' /\ janus' = janus
    BY <1>1 DEF Arrives, JanusType
<1>3. StageType'
    BY <1>1, <1>2, RespondStage, AwaitStage
<1>4. StoreType' /\ (\A x \in Tokens : left'[x] > 0 => owner'[x] \in Names)
    BY <1>1, ValidateStore
<1>5. [path |-> p, token |-> t, name |-> None, body |-> b]
        \in [path : Path, token : Tokens \union {None},
             name : Names \union {None}, body : Content]
    BY DEF Path, Content
<1>6. Valid(t) => owner[t] \in Names
    BY DEF Valid, NamesInv
<1>7. RequestType'
    BY <1>1, <1>5, <1>6, ArrivesRequest DEF RequestType
<1>8. \A x \in Requests : stage'[x] = "db" => username'[x] \in Names
    <2>1. CASE Valid(t)
        BY <1>1, <1>6, <2>1 DEF Await, NamesInv, StageType, RequestType
    <2>2. CASE ~Valid(t)
        BY <1>1, <2>2 DEF Respond, NamesInv, StageType, RequestType
    <2> QED BY <2>1, <2>2
<1> QED BY <1>2, <1>3, <1>4, <1>7, <1>8 DEF NamesInv

LEMMA NextTypeInv == TypeInv /\ [Next]_vars => TypeInv'
<1> SUFFICES ASSUME TypeInv, [Next]_vars PROVE TypeInv'
    OBVIOUS
<1> USE DEF TypeInv
<1>1. ASSUME NEW r \in Requests, NotFound(r) PROVE TypeInv'
    <2>1. Arrives(r, NoRequest) /\ Respond(r, "not_found")
          /\ UNCHANGED <<username, store>>
        BY <1>1 DEF NotFound
    <2>2. StageType'
        BY <2>1, RespondStage DEF Arrives
    <2>3. RequestType'
        BY <2>1, ArrivesRequest, NoRequestType DEF RequestType
    <2>4. NamesInv'
        BY <2>1 DEF NamesInv, Respond, StageType, store
    <2> QED BY <2>1, <2>2, <2>3, <2>4 DEF StoreType, JanusType, Arrives, store
<1>2. ASSUME NEW r \in Requests, LoginUser(r) PROVE TypeInv'
    <2>1. PICK n \in Names, b \in {"password", "wrong_password"} :
              /\ Arrives(r, [NoRequest EXCEPT !.path = "/login", !.name = n,
                                              !.body = b])
              /\ username' = [username EXCEPT ![r] = n]
        BY <1>2 DEF LoginUser
    <2>2. Await(r, "db") /\ UNCHANGED store
        BY <1>2 DEF LoginUser
    <2>3. StageType'
        BY <2>1, <2>2, AwaitStage DEF Arrives
    <2>4. [NoRequest EXCEPT !.path = "/login", !.name = n, !.body = b]
            \in [path : Path, token : Tokens \union {None},
                 name : Names \union {None}, body : Content]
        BY DEF NoRequest, Path, Content
    <2>5. RequestType'
        BY <2>1, <2>4, ArrivesRequest DEF RequestType
    <2>6. NamesInv'
        BY <2>1, <2>2 DEF NamesInv, Await, StageType, RequestType, store
    <2> QED BY <2>1, <2>2, <2>3, <2>5, <2>6 DEF StoreType, JanusType, Arrives, store
<1>3. ASSUME NEW r \in Requests, NoAuthorization(r) PROVE TypeInv'
    <2>1. PICK p \in {"/create", "/list_participants"} :
              Arrives(r, [NoRequest EXCEPT !.path = p])
        BY <1>3 DEF NoAuthorization
    <2>2. Respond(r, "bad_request") /\ UNCHANGED <<username, store>>
        BY <1>3 DEF NoAuthorization
    <2>3. StageType'
        BY <2>1, <2>2, RespondStage DEF Arrives
    <2>4. [NoRequest EXCEPT !.path = p]
            \in [path : Path, token : Tokens \union {None},
                 name : Names \union {None}, body : Content]
        BY DEF NoRequest, Path, Content
    <2>5. RequestType'
        BY <2>1, <2>2, <2>4, ArrivesRequest DEF RequestType
    <2>6. NamesInv'
        BY <2>2 DEF NamesInv, Respond, StageType, store
    <2> QED BY <2>1, <2>2, <2>3, <2>5, <2>6 DEF StoreType, JanusType, Arrives, store
<1>4. ASSUME NEW r \in Requests, Authorized(r) PROVE TypeInv'
    BY <1>4, AuthorizedTypeInv
<1>5. ASSUME NEW r \in Requests, NEW s \in {"ok", "bad_request"}, Respond(r, s),
             UNCHANGED <<request, username, store, janus, room, answer>>
      PROVE  TypeInv'
    <2>1. StageType'
        BY <1>5, RespondStage
    <2>2. NamesInv'
        BY <1>5 DEF NamesInv, Respond, StageType, store
    <2> QED BY <1>5, <2>1, <2>2 DEF RequestType, StoreType, JanusType, store
<1>6. ASSUME NEW r \in Requests,
             QueryFails(r) \/ WrongPassword(r) \/ JanusAnswers(r) \/ JanusFails(r)
      PROVE  TypeInv'
    BY <1>5, <1>6 DEF QueryFails, WrongPassword, JanusAnswers, JanusFails
<1>7. ASSUME NEW r \in Requests, NoUser(r) PROVE TypeInv'
    <2>1. CASE Respond(r, "bad_request")
        BY <1>5, <1>7, <2>1 DEF NoUser
    <2>2. CASE /\ stage' = [stage EXCEPT ![r] = "threw"]
               /\ UNCHANGED <<waited, status>>
        <3>1. UNCHANGED <<request, username, store, janus, room, answer>>
            BY <1>7 DEF NoUser
        <3>2. StageType'
            BY <2>2, <3>1 DEF StageType, Timed, Limit
        <3>3. NamesInv'
            BY <2>2, <3>1 DEF NamesInv, StageType, store
        <3> QED BY <3>1, <3>2, <3>3 DEF RequestType, StoreType, JanusType, store
    <2> QED BY <1>7, <2>1, <2>2 DEF NoUser
<1>8. ASSUME NEW r \in Requests, NewSession(r) PROVE TypeInv'
    <2>1. UNCHANGED <<request, username, janus, room, answer>>
        BY <1>8 DEF NewSession
    <2>2. PICK s \in {"ok", "bad_request"} : Respond(r, s)
        BY <1>8 DEF NewSession
    <2>3. StageType'
        BY <2>1, <2>2, RespondStage
    <2>4. username[r] \in Names
        BY <1>8 DEF NewSession, NamesInv
    <2>5. Sessions!Issue(r, username[r]) \/ Sessions!Refuse(r)
        BY <1>8 DEF NewSession
    <2>6. StoreType' /\ (\A x \in Tokens : left'[x] > 0 => owner'[x] \in Names)
        <3>1. CASE Sessions!Issue(r, username[r])
            BY <2>4, <3>1, IssueStore
        <3>2. CASE Sessions!Refuse(r)
            BY <3>2 DEF Sessions!Refuse, StoreType, NamesInv
        <3> QED BY <2>5, <3>1, <3>2
    <2>7. \A x \in Requests : stage'[x] = "db" => username'[x] \in Names
        BY <2>1, <2>2 DEF Respond, NamesInv, StageType
    <2> QED BY <2>1, <2>3, <2>6, <2>7 DEF RequestType, JanusType, NamesInv
<1>9. ASSUME NEW r \in Requests, AskJanus(r) PROVE TypeInv'
    <2>1. CASE Respond(r, "bad_request")
        BY <1>5, <1>9, <2>1 DEF AskJanus
    <2>2. CASE Await(r, "janus")
        <3>1. UNCHANGED <<request, username, store, janus, room, answer>>
            BY <1>9 DEF AskJanus
        <3>2. StageType'
            BY <2>2, <3>1, AwaitStage
        <3>3. NamesInv'
            BY <2>2, <3>1 DEF NamesInv, Await, StageType, store
        <3> QED BY <3>1, <3>2, <3>3 DEF RequestType, StoreType, JanusType, store
    <2> QED BY <1>9, <2>1, <2>2 DEF AskJanus
<1>10. ASSUME NEW r \in Requests, JanusServes(r) PROVE TypeInv'
    <2>1. UNCHANGED <<stage, request, username, waited, status, store, janus>>
        BY <1>10 DEF JanusServes
    <2>2. PICK b \in Body : answer' = [answer EXCEPT ![r] = b]
        BY <1>10, BodyTypes DEF JanusServes
    <2>3. room' \in BOOLEAN
        BY <1>10 DEF JanusServes, JanusType
    <2>4. StageType'
        BY <2>1 DEF StageType, Timed, Limit
    <2>5. NamesInv' /\ RequestType' /\ StoreType'
        BY <2>1 DEF NamesInv, RequestType, StoreType, store
    <2> QED BY <2>1, <2>2, <2>3, <2>4, <2>5 DEF JanusType
<1>11. CASE JanusStops
    BY <1>11 DEF JanusStops, StageType, RequestType, StoreType, JanusType, NamesInv,
                 Timed, Limit, store
<1>12. CASE Elapse
    <2>1. UNCHANGED <<stage, request, username, status, janus, room, answer>>
        BY <1>12 DEF Elapse
    <2>2. StoreType' /\ (\A x \in Tokens : left'[x] > 0 => owner'[x] \in Names)
        BY <1>12, ElapseStore DEF Elapse
    <2>3. StageType'
        BY <1>12, <2>1, LimitsAssumption DEF Elapse, StageType, Timed, Limit
    <2> QED BY <2>1, <2>2, <2>3 DEF RequestType, JanusType, NamesInv
<1>13. CASE UNCHANGED vars
    BY <1>13 DEF vars, StageType, RequestType, StoreType, JanusType, NamesInv,
                 Timed, Limit
<1> QED BY <1>1, <1>2, <1>3, <1>4, <1>6, <1>7, <1>8, <1>9, <1>10, <1>11, <1>12,
           <1>13 DEF Next, Begins, Queried, Asked

LEMMA TypeInvHolds == Spec => []TypeInv
BY InitTypeInv, NextTypeInv, PTL DEF Spec

\* The service is well typed: in particular the owner of a validated token and the
\* name of a query are names, never the empty optional (user_service.cpp 34-37).
THEOREM TypeCorrect == Spec => []TypeOK
<1>1. TypeInv => TypeOK
    BY Types DEF TypeInv
<1> QED BY <1>1, TypeInvHolds, PTL

(***************************************************************************)
(* The session checked before the first await outlives the request         *)
(***************************************************************************)
\* The session of r began the first await whole, and has lost since what the
\* current await has taken and, in the second, at most a whole first one.
Lives(r) ==
    Timed(r) /\ request[r].path # "/login" =>
        /\ request[r].token \in Tokens
        /\ stage[r] = "db" => left[request[r].token] + waited[r] >= MaxLife
        /\ stage[r] = "janus" =>
              left[request[r].token] + waited[r] + DbLimit >= MaxLife

LivesInv == \A r \in Requests : Lives(r)

\* No session is shortened.
Grows == \A t \in Tokens : left'[t] >= left[t]

LEMMA LivesOutlives == TypeInv /\ LivesInv => SessionOutlivesRequest
<1> SUFFICES ASSUME TypeInv, LivesInv, NEW r \in Requests, Timed(r),
                    request[r].path # "/login"
             PROVE  left[request[r].token] > 0
    BY DEF SessionOutlivesRequest
<1>1. /\ request[r].token \in Tokens
      /\ stage[r] = "db" => left[request[r].token] + waited[r] >= MaxLife
      /\ stage[r] = "janus" => left[request[r].token] + waited[r] + DbLimit >= MaxLife
    BY DEF LivesInv, Lives
<1>2. left[request[r].token] \in Nat
    BY <1>1, LimitsAssumption DEF TypeInv, StoreType
<1>3. waited[r] \in Nat /\ waited[r] <= Limit(r)
    BY DEF TypeInv, StageType
<1>4. CASE stage[r] = "db"
    BY <1>1, <1>2, <1>3, <1>4, LimitsAssumption DEF Limit
<1>5. CASE stage[r] = "janus"
    BY <1>1, <1>2, <1>3, <1>5, LimitsAssumption DEF Limit
<1> QED BY <1>4, <1>5 DEF Timed

\* A request that does not move keeps what it has, if its session is not shortened.
LEMMA LivesFrame ==
    ASSUME TypeInv, TypeInv', NEW r \in Requests, Lives(r), Grows,
           janus' = janus \/ janus' = "stopped",
           stage'[r] = stage[r], waited'[r] = waited[r], request'[r] = request[r]
    PROVE  Lives(r)'
<1> SUFFICES ASSUME Timed(r)', request'[r].path # "/login"
             PROVE  /\ request'[r].token \in Tokens
                    /\ stage'[r] = "db" =>
                          left'[request'[r].token] + waited'[r] >= MaxLife
                    /\ stage'[r] = "janus" =>
                          left'[request'[r].token] + waited'[r] + DbLimit >= MaxLife
    BY DEF Lives
<1>1. Timed(r)
    BY DEF Timed
<1>2. request[r].token \in Tokens
    BY <1>1 DEF Lives
<1>3. /\ left[request[r].token] \in Nat /\ left'[request[r].token] \in Nat
      /\ waited[r] \in Nat
      /\ left'[request[r].token] >= left[request[r].token]
    BY <1>2, LimitsAssumption DEF TypeInv, StoreType, StageType, Grows
<1> QED BY <1>1, <1>2, <1>3, LimitsAssumption DEF Lives

LEMMA SameGrows == ASSUME TypeInv, left' = left PROVE Grows
BY LimitsAssumption DEF Grows, TypeInv, StoreType

LEMMA ValidateGrows ==
    ASSUME TypeInv, NEW r \in Requests, NEW t \in Tokens, Renewed(r, t) PROVE Grows
BY LimitsAssumption DEF Grows, TypeInv, StoreType, Renewed, Sessions!Validate

LEMMA IssueGrows ==
    ASSUME TypeInv, NEW r \in Requests, NEW u, Sessions!Issue(r, u) PROVE Grows
BY LimitsAssumption DEF Grows, TypeInv, StoreType, Sessions!Issue

\* One request ends and the others stay as they are.
LEMMA RespondLives ==
    ASSUME TypeInv, TypeInv', LivesInv, Grows, NEW r \in Requests, NEW s,
           Respond(r, s), janus' = janus,
           \A x \in Requests \ {r} : request'[x] = request[x]
    PROVE  LivesInv'
<1> SUFFICES ASSUME NEW x \in Requests PROVE Lives(x)'
    BY DEF LivesInv
<1>1. CASE x = r
    BY <1>1 DEF Respond, Lives, Timed, TypeInv, StageType
<1>2. CASE x # r
    <2>1. stage'[x] = stage[x] /\ waited'[x] = waited[x] /\ request'[x] = request[x]
        BY <1>2 DEF Respond, TypeInv, StageType
    <2> QED BY <2>1, LivesFrame DEF LivesInv
<1> QED BY <1>1, <1>2

LEMMA NextLivesInv == TypeInv /\ TypeInv' /\ LivesInv /\ [Next]_vars => LivesInv'
<1> SUFFICES ASSUME TypeInv, TypeInv', LivesInv, [Next]_vars PROVE LivesInv'
    OBVIOUS
<1>1. ASSUME NEW r \in Requests, NotFound(r) \/ NoAuthorization(r) PROVE LivesInv'
    <2>1. PICK s : Respond(r, s)
        BY <1>1 DEF NotFound, NoAuthorization
    <2>2. PICK req : Arrives(r, req)
        BY <1>1 DEF NotFound, NoAuthorization
    <2>3. left' = left
        BY <1>1 DEF NotFound, NoAuthorization, store
    <2>4. \A x \in Requests \ {r} : request'[x] = request[x]
        BY <2>2 DEF Arrives, TypeInv, RequestType
    <2> QED BY <2>1, <2>2, <2>3, <2>4, SameGrows, RespondLives DEF Arrives
<1>2. ASSUME NEW r \in Requests, LoginUser(r), NEW x \in Requests PROVE Lives(x)'
    <2>1. PICK n \in Names, b \in {"password", "wrong_password"} :
              Arrives(r, [NoRequest EXCEPT !.path = "/login", !.name = n, !.body = b])
        BY <1>2 DEF LoginUser
    <2>2. Await(r, "db") /\ left' = left
        BY <1>2 DEF LoginUser, store
    <2>3. CASE x = r
        BY <2>1, <2>3 DEF Arrives, NoRequest, Lives, TypeInv, RequestType
    <2>4. CASE x # r
        <3>1. /\ stage'[x] = stage[x] /\ waited'[x] = waited[x]
              /\ request'[x] = request[x] /\ janus' = janus
            BY <2>1, <2>2, <2>4 DEF Arrives, Await, TypeInv, StageType, RequestType
        <3> QED BY <2>2, <3>1, SameGrows, LivesFrame DEF LivesInv
    <2> QED BY <2>3, <2>4
<1>3. ASSUME NEW r \in Requests, Authorized(r) PROVE LivesInv'
    <2>1. PICK p \in {"/create", "/list_participants"}, t \in Tokens,
               b \in {"malformed", "room", "other_room"} :
              /\ Arrives(r, [path |-> p, token |-> t, name |-> None, body |-> b])
              /\ Renewed(r, t)
              /\ IF Valid(t) THEN Await(r, "db") ELSE Respond(r, "bad_request")
        BY <1>3 DEF Authorized
    <2>2. Grows
        BY <2>1, ValidateGrows
    <2>3. /\ \A x \in Requests \ {r} : request'[x] = request[x]
          /\ request'[r].token = t
          /\ janus' = janus
        BY <2>1 DEF Arrives, TypeInv, RequestType
    <2>4. CASE ~Valid(t)
        BY <2>1, <2>2, <2>3, <2>4, RespondLives
    <2>5. CASE Valid(t)
        <3> SUFFICES ASSUME NEW x \in Requests PROVE Lives(x)'
            BY DEF LivesInv
        <3>1. CASE x = r
            <4>1. left'[t] = MaxLife
                BY <2>1, <2>5 DEF Renewed, Valid, Sessions!Validate, TypeInv, StoreType
            <4>2. stage'[r] = "db" /\ waited'[r] = 0
                BY <2>1, <2>5 DEF Await, TypeInv, StageType
            <4> QED BY <2>3, <3>1, <4>1, <4>2, LimitsAssumption DEF Lives
        <3>2. CASE x # r
            <4>1. stage'[x] = stage[x] /\ waited'[x] = waited[x]
                BY <2>1, <2>5, <3>2 DEF Await, TypeInv, StageType
            <4> QED BY <2>2, <2>3, <3>2, <4>1, LivesFrame DEF LivesInv
        <3> QED BY <3>1, <3>2
    <2> QED BY <2>4, <2>5
<1>4. ASSUME NEW r \in Requests,
             \/ QueryFails(r) \/ WrongPassword(r) \/ JanusAnswers(r) \/ JanusFails(r)
      PROVE  LivesInv'
    <2>1. PICK s : Respond(r, s)
        BY <1>4 DEF QueryFails, WrongPassword, JanusAnswers, JanusFails
    <2>2. request' = request /\ left' = left /\ janus' = janus
        BY <1>4 DEF QueryFails, WrongPassword, JanusAnswers, JanusFails, store
    <2> QED BY <2>1, <2>2, SameGrows, RespondLives
<1>5. ASSUME NEW r \in Requests, NoUser(r) PROVE LivesInv'
    <2>1. request' = request /\ left' = left /\ janus' = janus
        BY <1>5 DEF NoUser, store
    <2>2. ASSUME stage' = [stage EXCEPT ![r] = "threw"], waited' = waited,
                 NEW x \in Requests
          PROVE  Lives(x)'
        <3>1. CASE x = r
            BY <2>2, <3>1 DEF Lives, Timed, TypeInv, StageType
        <3>2. CASE x # r
            <4>1. stage'[x] = stage[x]
                BY <2>2, <3>2 DEF TypeInv, StageType
            <4> QED BY <2>1, <2>2, <4>1, SameGrows, LivesFrame DEF LivesInv
        <3> QED BY <3>1, <3>2
    <2>3. CASE Respond(r, "bad_request")
        BY <2>1, <2>3, SameGrows, RespondLives
    <2> QED BY <1>5, <2>2, <2>3 DEF NoUser, LivesInv
<1>6. ASSUME NEW r \in Requests, NewSession(r) PROVE LivesInv'
    <2>1. PICK s : Respond(r, s)
        BY <1>6 DEF NewSession
    <2>2. request' = request /\ janus' = janus
        BY <1>6 DEF NewSession
    <2>3. Grows
        BY <1>6, IssueGrows, SameGrows DEF NewSession, Sessions!Refuse
    <2> QED BY <2>1, <2>2, <2>3, RespondLives
<1>7. ASSUME NEW r \in Requests, AskJanus(r) PROVE LivesInv'
    <2>1. request' = request /\ left' = left /\ janus' = janus
        BY <1>7 DEF AskJanus, store
    <2>2. CASE Respond(r, "bad_request")
        BY <2>1, <2>2, SameGrows, RespondLives
    <2>3. ASSUME Await(r, "janus"), NEW x \in Requests PROVE Lives(x)'
        <3>1. CASE x = r
            <4>1. stage[r] = "db" /\ request[r].path # "/login"
                BY <1>7 DEF AskJanus
            <4>2. /\ request[r].token \in Tokens
                  /\ left[request[r].token] + waited[r] >= MaxLife
                BY <4>1 DEF LivesInv, Lives, Timed
            <4>3. waited[r] \in Nat /\ waited[r] <= DbLimit
                BY <4>1 DEF TypeInv, StageType, Timed, Limit
            <4>4. left[request[r].token] \in Nat
                BY <4>2, LimitsAssumption DEF TypeInv, StoreType
            <4>5. stage'[r] = "janus" /\ waited'[r] = 0
                BY <2>3 DEF Await, TypeInv, StageType
            <4> QED BY <2>1, <3>1, <4>2, <4>3, <4>4, <4>5, LimitsAssumption DEF Lives
        <3>2. CASE x # r
            <4>1. stage'[x] = stage[x] /\ waited'[x] = waited[x]
                BY <2>3, <3>2 DEF Await, TypeInv, StageType
            <4> QED BY <2>1, <4>1, SameGrows, LivesFrame DEF LivesInv
        <3> QED BY <3>1, <3>2
    <2> QED BY <1>7, <2>2, <2>3 DEF AskJanus, LivesInv
<1>8. ASSUME \/ \E r \in Requests : JanusServes(r)
             \/ JanusStops
             \/ UNCHANGED vars
      PROVE  LivesInv'
    <2>1. /\ UNCHANGED <<stage, waited, request, left>>
          /\ janus' = janus \/ janus' = "stopped"
        BY <1>8 DEF JanusServes, JanusStops, store, vars
    <2> QED BY <2>1, SameGrows, LivesFrame DEF LivesInv
<1>9. ASSUME Elapse, NEW x \in Requests PROVE Lives(x)'
    <2> SUFFICES ASSUME Timed(x)', request'[x].path # "/login"
                 PROVE  Lives(x)'
        BY DEF Lives
    <2>1. UNCHANGED <<stage, request, janus>>
        BY <1>9 DEF Elapse
    <2>2. Timed(x) /\ request[x].path # "/login"
        BY <2>1 DEF Timed
    <2>3. request[x].token \in Tokens
        BY <2>2 DEF LivesInv, Lives
    <2>4. left[request[x].token] \in Nat /\ waited[x] \in Nat
        BY <2>3, LimitsAssumption DEF TypeInv, StoreType, StageType
    <2>5. left[request[x].token] > 0
        BY <2>2, LivesOutlives DEF SessionOutlivesRequest
    <2>6. left'[request[x].token] = left[request[x].token] - 1
        BY <1>9, <2>3, <2>5 DEF Elapse, Sessions!Elapse
    <2>7. waited'[x] = waited[x] + 1
        BY <1>9, <2>2 DEF Elapse
    <2>8. left'[request[x].token] + waited'[x] = left[request[x].token] + waited[x]
        BY <2>4, <2>6, <2>7
    <2>9. Lives(x)
        BY DEF LivesInv
    <2>10. /\ stage[x] = "db" => left'[request[x].token] + waited'[x] >= MaxLife
           /\ stage[x] = "janus" =>
                 left'[request[x].token] + waited'[x] + DbLimit >= MaxLife
        BY <2>2, <2>8, <2>9 DEF Lives
    <2> QED BY <2>1, <2>3, <2>10 DEF Lives
<1> QED BY <1>1, <1>2, <1>3, <1>4, <1>5, <1>6, <1>7, <1>8, <1>9 DEF Next, Begins, Queried, Asked, LivesInv

\* However the requests interleave, the session a meeting request was let in by is
\* alive for as long as the request awaits the database or Janus, because the two
\* awaits together are shorter than a session (user_service.cpp 32-74).
THEOREM SessionOutlives == Spec => []SessionOutlivesRequest
<1>1. Init => LivesInv
    BY DEF Init, LivesInv, Lives, Timed
<1>2. Spec => []LivesInv
    BY <1>1, NextLivesInv, TypeInvHolds, PTL DEF Spec
<1> QED BY <1>2, TypeInvHolds, LivesOutlives, PTL

(***************************************************************************)
(* A meeting rests on a login                                              *)
(***************************************************************************)
Meetings == {"/create", "/list_participants"}

\* u has logged in, and was answered with t.
LoggedIn(t, u) == \E l \in Requests : Login(l, t) /\ request[l].name = u

\* What request r owes to a login, at each stage.
Rests(r) ==
    /\ status[r] = "ok" => stage[r] = "answered"
    /\ stage[r] = "db" /\ request[r].path = "/login" => username[r] = request[r].name
    /\ request[r].path \in Meetings
       /\ (stage[r] \in {"db", "janus"} \/ status[r] = "ok")
       => LoggedIn(request[r].token, username[r])

\* A live session is of a user who logged in and was answered with its token.
SessionsRest == \A t \in Tokens : left[t] > 0 => LoggedIn(t, owner[t])

RestInv ==
    /\ DOMAIN reply = Requests
    /\ \A r \in Requests : Rests(r)
    /\ SessionsRest

\* Only r moves, and it has not answered yet.
OnlyMoves(r) ==
    /\ stage[r] # "answered"
    /\ DOMAIN reply' = Requests
    /\ \A l \in Requests \ {r} :
          /\ stage'[l] = stage[l] /\ status'[l] = status[l] /\ reply'[l] = reply[l]
          /\ request'[l] = request[l] /\ username'[l] = username[l]

\* No session is issued: what lives has lived, with its owner.
NoneIssued == \A t \in Tokens : left'[t] > 0 => left[t] > 0 /\ owner'[t] = owner[t]

\* An answered login stays answered.
LEMMA LoggedInStable ==
    ASSUME RestInv, NEW r \in Requests, OnlyMoves(r), NEW t, NEW u, LoggedIn(t, u)
    PROVE  LoggedIn(t, u)'
BY DEF RestInv, Rests, OnlyMoves, LoggedIn, Login

LEMMA OneMoves ==
    ASSUME RestInv, NEW r \in Requests, OnlyMoves(r), NoneIssued, Rests(r)'
    PROVE  RestInv'
<1>1. ASSUME NEW x \in Requests \ {r} PROVE Rests(x)'
    <2>1. Rests(x)
        BY DEF RestInv
    <2>2. LoggedIn(request[x].token, username[x]) =>
             LoggedIn(request[x].token, username[x])'
        BY LoggedInStable DEF OnlyMoves, RestInv, Rests, LoggedIn, Login
    <2> QED BY <2>1, <2>2 DEF Rests, OnlyMoves, LoggedIn, Login
<1>2. SessionsRest'
    <2> SUFFICES ASSUME NEW t \in Tokens, left'[t] > 0 PROVE LoggedIn(t, owner[t])'
        BY DEF SessionsRest
    <2>1. LoggedIn(t, owner[t]) /\ owner'[t] = owner[t]
        BY DEF NoneIssued, RestInv, SessionsRest
    <2> QED BY <2>1 DEF RestInv, Rests, OnlyMoves, LoggedIn, Login
<1> QED BY <1>1, <1>2 DEF RestInv, OnlyMoves

LEMMA SameNoneIssued == ASSUME UNCHANGED <<left, owner>> PROVE NoneIssued
BY DEF NoneIssued

LEMMA ValidateNoneIssued ==
    ASSUME TypeInv, NEW r \in Requests, NEW t \in Tokens, Renewed(r, t)
    PROVE  NoneIssued
BY DEF NoneIssued, TypeInv, StoreType, Renewed, Sessions!Validate

\* A request that arrives with req, and leaves the other names and replies alone.
LEMMA ArrivesMoves ==
    ASSUME TypeInv, RestInv, NEW r \in Requests, NEW req, NEW s, Arrives(r, req),
           Await(r, s) \/ Respond(r, s),
           DOMAIN reply' = Requests,
           \A l \in Requests \ {r} : reply'[l] = reply[l] /\ username'[l] = username[l]
    PROVE  OnlyMoves(r) /\ request'[r] = req
BY DEF OnlyMoves, Arrives, Await, Respond, TypeInv, StageType, RequestType

\* A request that is answered or goes on to its next await.
LEMMA GoesOnMoves ==
    ASSUME TypeInv, RestInv, NEW r \in Requests, NEW s,
           Await(r, s) \/ Respond(r, s), stage[r] # "answered",
           UNCHANGED <<request, username>>, DOMAIN reply' = Requests,
           \A l \in Requests \ {r} : reply'[l] = reply[l]
    PROVE  OnlyMoves(r)
BY DEF OnlyMoves, Await, Respond, TypeInv, StageType

\* An error answers nothing that a login would have to back.
LEMMA ErrorRests ==
    ASSUME TypeInv, NEW r \in Requests, NEW s \in {"bad_request", "not_found"},
           Respond(r, s)
    PROVE  Rests(r)'
BY DEF Rests, Respond, TypeInv, StageType

LEMMA ErrorRestInv ==
    ASSUME TypeInv, RestInv, NEW r \in Requests, Respond(r, "bad_request"),
           stage[r] # "answered", UNCHANGED <<request, username, store>>
    PROVE  RestInv'
<1>1. OnlyMoves(r) /\ NoneIssued
    BY GoesOnMoves, SameNoneIssued DEF RestInv, store
<1> QED BY <1>1, ErrorRests, OneMoves

LEMMA NextRestInv == TypeInv /\ RestInv /\ [Next]_vars => RestInv'
<1> SUFFICES ASSUME TypeInv, RestInv, [Next]_vars PROVE RestInv'
    OBVIOUS
<1>1. ASSUME NEW r \in Requests, NotFound(r) \/ NoAuthorization(r) PROVE RestInv'
    <2>1. PICK s \in {"bad_request", "not_found"} : Respond(r, s)
        BY <1>1 DEF NotFound, NoAuthorization
    <2>2. PICK req : Arrives(r, req)
        BY <1>1 DEF NotFound, NoAuthorization
    <2>3. UNCHANGED <<username, issued, owner, left, reply>>
        BY <1>1 DEF NotFound, NoAuthorization, store
    <2>4. OnlyMoves(r)
        BY <2>1, <2>2, <2>3, ArrivesMoves DEF RestInv
    <2> QED BY <2>1, <2>3, <2>4, SameNoneIssued, ErrorRests, OneMoves
<1>2. ASSUME NEW r \in Requests, LoginUser(r) PROVE RestInv'
    <2>1. PICK n \in Names, b \in {"password", "wrong_password"} :
              /\ Arrives(r, [NoRequest EXCEPT !.path = "/login", !.name = n,
                                              !.body = b])
              /\ username' = [username EXCEPT ![r] = n]
        BY <1>2 DEF LoginUser
    <2>2. Await(r, "db") /\ UNCHANGED <<issued, owner, left, reply>>
        BY <1>2 DEF LoginUser, store
    <2>3. /\ OnlyMoves(r)
          /\ request'[r] = [NoRequest EXCEPT !.path = "/login", !.name = n, !.body = b]
        BY <2>1, <2>2, ArrivesMoves DEF RestInv, TypeInv, RequestType
    <2>4. Rests(r)'
        <3>1. request'[r].path = "/login" /\ request'[r].name = n
            BY <2>3 DEF NoRequest
        <3>2. username'[r] = n
            BY <2>1 DEF TypeInv, RequestType
        <3>3. status'[r] # "ok"
            BY <2>1, <2>2 DEF RestInv, Rests, Await, Arrives
        <3> QED BY <3>1, <3>2, <3>3 DEF Rests, Meetings
    <2> QED BY <2>2, <2>3, <2>4, SameNoneIssued, OneMoves
<1>3. ASSUME NEW r \in Requests, Authorized(r) PROVE RestInv'
    <2>1. PICK p \in Meetings, t \in Tokens, b \in {"malformed", "room", "other_room"} :
              /\ Arrives(r, [path |-> p, token |-> t, name |-> None, body |-> b])
              /\ Renewed(r, t)
              /\ IF Valid(t)
                 THEN username' = [username EXCEPT ![r] = owner[t]] /\ Await(r, "db")
                 ELSE UNCHANGED username /\ Respond(r, "bad_request")
        BY <1>3 DEF Authorized, Meetings
    <2>2. /\ DOMAIN reply' = Requests
          /\ \A l \in Requests \ {r} : reply'[l] = reply[l] /\ username'[l] = username[l]
        BY <2>1 DEF RestInv, Renewed, Sessions!Validate, TypeInv, RequestType
    <2>3. /\ OnlyMoves(r)
          /\ request'[r] = [path |-> p, token |-> t, name |-> None, body |-> b]
        BY <2>1, <2>2, ArrivesMoves
    <2>4. Rests(r)'
        <3>1. CASE Valid(t)
            <4>1. LoggedIn(t, owner[t])'
                <5>1. LoggedIn(t, owner[t])
                    BY <3>1 DEF Valid, RestInv, SessionsRest
                <5>2. owner' = owner
                    BY <2>1 DEF Renewed, Sessions!Validate
                <5> QED BY <2>3, <5>1, <5>2 DEF RestInv, Rests, OnlyMoves, LoggedIn, Login
            <4>2. username'[r] = owner[t] /\ owner' = owner
                BY <2>1, <3>1 DEF TypeInv, RequestType, Renewed, Sessions!Validate
            <4>3. status'[r] # "ok"
                BY <2>1, <3>1 DEF RestInv, Rests, Await, Arrives
            <4>4. request'[r].path # "/login" /\ request'[r].token = t
                BY <2>3 DEF Meetings
            <4> QED BY <4>1, <4>2, <4>3, <4>4 DEF Rests, LoggedIn, Login
        <3>2. CASE ~Valid(t)
            BY <2>1, <3>2, ErrorRests
        <3> QED BY <3>1, <3>2
    <2> QED BY <2>1, <2>3, <2>4, ValidateNoneIssued, OneMoves
<1>4. ASSUME NEW r \in Requests,
             \/ QueryFails(r) \/ WrongPassword(r) \/ JanusFails(r)
      PROVE  RestInv'
    BY <1>4, ErrorRestInv DEF QueryFails, WrongPassword, JanusFails
<1>5. ASSUME NEW r \in Requests, NoUser(r) PROVE RestInv'
    <2>1. CASE Respond(r, "bad_request")
        BY <1>5, <2>1, ErrorRestInv DEF NoUser
    <2>2. CASE stage' = [stage EXCEPT ![r] = "threw"] /\ UNCHANGED <<waited, status>>
        <3>1. UNCHANGED <<request, username, issued, owner, left, reply>>
            BY <1>5 DEF NoUser, store
        <3>2. OnlyMoves(r)
            BY <1>5, <2>2, <3>1 DEF NoUser, OnlyMoves, RestInv, TypeInv, StageType
        <3>3. Rests(r)'
            BY <1>5, <2>2 DEF NoUser, RestInv, Rests, TypeInv, StageType
        <3> QED BY <3>1, <3>2, <3>3, SameNoneIssued, OneMoves
    <2> QED BY <1>5, <2>1, <2>2 DEF NoUser
<1>6. ASSUME NEW r \in Requests, NewSession(r) PROVE RestInv'
    <2>1. /\ stage[r] = "db" /\ request[r].path = "/login"
          /\ request[r].body = "password" /\ UNCHANGED <<request, username>>
        BY <1>6 DEF NewSession, PasswordMatches
    <2>2. CASE Sessions!Refuse(r) /\ Respond(r, "bad_request")
        <3>1. OnlyMoves(r)
            BY <2>1, <2>2, GoesOnMoves DEF Sessions!Refuse, RestInv
        <3> QED BY <2>2, <3>1, SameNoneIssued, ErrorRests, OneMoves
                   DEF Sessions!Refuse
    <2>3. CASE Sessions!Issue(r, username[r]) /\ Respond(r, "ok")
        <3>1. PICK t \in Tokens :
                  /\ owner' = [owner EXCEPT ![t] = username[r]]
                  /\ left' = [left EXCEPT ![t] = MaxLife]
                  /\ reply' = [reply EXCEPT ![r] = t]
            BY <2>3 DEF Sessions!Issue
        <3>2. OnlyMoves(r)
            BY <2>1, <2>3, <3>1, GoesOnMoves DEF RestInv
        <3>3. ASSUME NEW x \in Requests PROVE Rests(x)'
            <4>1. CASE x = r
                BY <2>1, <2>3, <4>1 DEF Respond, Rests, Meetings, TypeInv, StageType
            <4>2. CASE x # r
                <5>1. LoggedIn(request[x].token, username[x]) =>
                          LoggedIn(request[x].token, username[x])'
                    BY <3>2, <4>2 DEF RestInv, Rests, OnlyMoves, LoggedIn, Login
                <5> QED BY <3>2, <4>2, <5>1 DEF RestInv, Rests, OnlyMoves, LoggedIn, Login
            <4> QED BY <4>1, <4>2
        <3>4. ASSUME NEW x \in Tokens, left'[x] > 0 PROVE LoggedIn(x, owner[x])'
            <4>1. CASE x = t
                <5>1. username[r] = request[r].name
                    BY <2>1 DEF RestInv, Rests
                <5>2. Login(r, t)'
                    BY <2>1, <2>3, <3>1 DEF Login, Respond, RestInv, TypeInv, StageType
                <5>3. owner'[t] = username[r]
                    BY <3>1 DEF TypeInv, StoreType
                <5> QED BY <2>1, <4>1, <5>1, <5>2, <5>3 DEF LoggedIn
            <4>2. CASE x # t
                <5>1. left'[x] = left[x] /\ owner'[x] = owner[x]
                    BY <3>1, <4>2 DEF TypeInv, StoreType
                <5>2. LoggedIn(x, owner[x])
                    BY <3>4, <5>1 DEF RestInv, SessionsRest
                <5> QED BY <3>2, <5>1, <5>2 DEF RestInv, Rests, OnlyMoves, LoggedIn, Login
            <4> QED BY <4>1, <4>2
        <3> QED BY <3>2, <3>3, <3>4 DEF RestInv, SessionsRest, OnlyMoves
    <2> QED BY <1>6, <2>2, <2>3 DEF NewSession
<1>7. ASSUME NEW r \in Requests, AskJanus(r) PROVE RestInv'
    <2>1. /\ stage[r] = "db" /\ request[r].path # "/login"
          /\ UNCHANGED <<request, username, issued, owner, left, reply>>
        BY <1>7 DEF AskJanus, store
    <2>2. CASE Respond(r, "bad_request")
        BY <2>1, <2>2, ErrorRestInv DEF store
    <2>3. CASE Await(r, "janus")
        <3>1. OnlyMoves(r)
            BY <2>1, <2>3, GoesOnMoves DEF RestInv
        <3>2. Rests(r)
            BY DEF RestInv
        <3>3. Rests(r)'
            BY <2>1, <2>3, <3>1, <3>2
               DEF RestInv, Rests, OnlyMoves, LoggedIn, Login, Await, TypeInv, StageType
        <3> QED BY <2>1, <3>1, <3>3, SameNoneIssued, OneMoves
    <2> QED BY <1>7, <2>2, <2>3 DEF AskJanus
<1>8. ASSUME NEW r \in Requests, JanusAnswers(r) PROVE RestInv'
    <2>1. /\ stage[r] = "janus"
          /\ UNCHANGED <<request, username, issued, owner, left, reply>>
        BY <1>8 DEF JanusAnswers, store
    <2>2. PICK s : Respond(r, s)
        BY <1>8 DEF JanusAnswers
    <2>3. OnlyMoves(r)
        BY <2>1, <2>2, GoesOnMoves DEF RestInv
    <2>4. Rests(r)
        BY DEF RestInv
    <2>5. Rests(r)'
        <3>1. stage'[r] = "answered"
            BY <2>2 DEF Respond, TypeInv, StageType
        <3>2. request[r].path \in Meetings =>
                  LoggedIn(request[r].token, username[r])'
            BY <2>1, <2>3, <2>4 DEF RestInv, Rests, OnlyMoves, LoggedIn, Login
        <3> QED BY <2>1, <3>1, <3>2 DEF Rests, LoggedIn, Login
    <2> QED BY <2>1, <2>3, <2>5, SameNoneIssued, OneMoves
<1>9. ASSUME \/ \E r \in Requests : JanusServes(r)
             \/ JanusStops
             \/ Elapse
             \/ UNCHANGED vars
      PROVE  RestInv'
    <2>1. UNCHANGED <<stage, status, request, username, reply>>
        BY <1>9 DEF JanusServes, JanusStops, Elapse, Sessions!Elapse, store, vars
    <2>2. NoneIssued
        <3>1. CASE Elapse
            BY <3>1, LimitsAssumption
               DEF Elapse, Sessions!Elapse, NoneIssued, TypeInv, StoreType
        <3>2. CASE ~Elapse
            BY <1>9, <3>2 DEF JanusServes, JanusStops, store, vars, NoneIssued
        <3> QED BY <3>1, <3>2
    <2> QED BY <2>1, <2>2 DEF RestInv, Rests, SessionsRest, NoneIssued, LoggedIn, Login
<1> QED BY <1>1, <1>2, <1>3, <1>4, <1>5, <1>6, <1>7, <1>8, <1>9 DEF Next, Begins, Queried, Asked

\* No meeting without a login: whoever is answered with a room, or with a list of its
\* participants, presented a token that a login with the right password was answered
\* with, and acts as the user of that login (user_service.cpp 3-30, 32-74).
THEOREM MeetingsRestOnLogins == Spec => []MeetingRestsOnLogin
<1>1. Init => RestInv
    BY DEF Init, Sessions!Init, RestInv, Rests, SessionsRest
<1>2. RestInv => MeetingRestsOnLogin
    BY DEF RestInv, Rests, Meetings, LoggedIn, MeetingRestsOnLogin
<1>3. Spec => []RestInv
    BY <1>1, NextRestInv, TypeInvHolds, PTL DEF Spec
<1> QED BY <1>2, <1>3, PTL

(***************************************************************************)
(* One creator                                                             *)
(***************************************************************************)
\* Janus has answered the meeting request r with a body its handler accepts.
Served(r) == answer[r] # None /\ request[r].path # "/login" /\ Accepts(r)

\* What r's response and Janus's answer to r say of each other and of the room.
RoomOf(r) ==
    /\ status[r] = "ok" => stage[r] = "answered"
                           /\ (request[r].path # "/login" => Served(r))
    /\ answer[r] # None => stage[r] \in {"janus", "answered"}
    /\ Served(r) => room

\* One create at most is served: the room is there from then on.
RoomInv ==
    /\ \A r \in Requests : RoomOf(r)
    /\ \A r, s \in Requests :
          /\ Served(r) /\ request[r].path = "/create"
          /\ Served(s) /\ request[s].path = "/create"
          => r = s

\* A step of r's coroutine: Janus and the other requests stay as they are.
LEMMA CoroutineRoom ==
    ASSUME RoomInv, NEW r \in Requests, UNCHANGED <<answer, room>>,
           \A l \in Requests \ {r} : /\ stage'[l] = stage[l] /\ status'[l] = status[l]
                                     /\ request'[l] = request[l],
           request'[r] = request[r] \/ answer[r] = None,
           answer[r] # None => stage'[r] \in {"janus", "answered"},
           status'[r] = "ok" => stage'[r] = "answered"
                                /\ (request[r].path # "/login" => Served(r))
                                /\ request'[r] = request[r]
    PROVE  RoomInv'
<1>1. \A l \in Requests : /\ Served(l)' <=> Served(l)
                          /\ Served(l) => request'[l] = request[l]
    BY DEF Served, Accepts
<1> QED BY <1>1 DEF RoomInv, RoomOf

LEMMA BeginsRoom ==
    ASSUME TypeInv, RoomInv, NEW r \in Requests, Begins(r)
    PROVE  RoomInv'
<1>1. PICK req : Arrives(r, req)
    BY DEF Begins, NotFound, LoginUser, NoAuthorization, Authorized
<1>2. stage[r] = "new" /\ answer[r] = None /\ status[r] # "ok"
    BY <1>1 DEF Arrives, RoomInv, RoomOf
<1>3. Await(r, "db") \/ Respond(r, "bad_request") \/ Respond(r, "not_found")
    BY DEF Begins, NotFound, LoginUser, NoAuthorization, Authorized
<1>4. /\ \A l \in Requests \ {r} : stage'[l] = stage[l] /\ status'[l] = status[l]
      /\ status'[r] # "ok"
    BY <1>2, <1>3 DEF Await, Respond, TypeInv, StageType
<1>5. \A l \in Requests \ {r} : request'[l] = request[l]
    BY <1>1 DEF Arrives, TypeInv, RequestType
<1>6. UNCHANGED <<answer, room>>
    BY <1>1 DEF Arrives
<1> QED BY <1>2, <1>4, <1>5, <1>6, CoroutineRoom

LEMMA GoesOnRoom ==
    ASSUME TypeInv, RoomInv, NEW r \in Requests, Queried(r) \/ Asked(r)
    PROVE  RoomInv'
<1>1. UNCHANGED <<request, answer, room>>
    BY DEF Queried, Asked, QueryFails, NoUser, WrongPassword, NewSession, AskJanus,
           JanusAnswers, JanusFails
<1>2. stage[r] \in {"db", "janus"} /\ status[r] # "ok" /\ (stage[r] = "db" => answer[r] = None)
    BY DEF Queried, Asked, QueryFails, NoUser, WrongPassword, NewSession, AskJanus,
           JanusAnswers, JanusFails, RoomInv, RoomOf
<1>3. CASE stage[r] = "db" /\ stage' = [stage EXCEPT ![r] = "threw"] /\ UNCHANGED status
    BY <1>1, <1>2, <1>3, CoroutineRoom DEF TypeInv, StageType
<1>4. CASE stage[r] = "db" /\ Await(r, "janus")
    BY <1>1, <1>2, <1>4, CoroutineRoom DEF Await, TypeInv, StageType
<1>5. CASE Respond(r, "bad_request")
    BY <1>1, <1>2, <1>5, CoroutineRoom DEF Respond, TypeInv, StageType
<1>6. CASE Respond(r, "ok") /\ (request[r].path # "/login" => Served(r))
    BY <1>1, <1>2, <1>6, CoroutineRoom DEF Respond, TypeInv, StageType
<1>7. CASE Queried(r)
    BY <1>3, <1>4, <1>5, <1>6, <1>7
       DEF Queried, QueryFails, NoUser, WrongPassword, NewSession, AskJanus
<1>8. CASE JanusAnswers(r)
    <2>1. CASE Accepts(r) /\ Respond(r, "ok")
        BY <1>6, <1>8, <2>1 DEF JanusAnswers, Served
    <2> QED BY <1>5, <1>8, <2>1 DEF JanusAnswers
<1>9. CASE JanusFails(r)
    BY <1>5, <1>9 DEF JanusFails
<1> QED BY <1>7, <1>8, <1>9 DEF Asked

\* Only a room that Janus names is accepted.
LEMMA Unaccepted ==
    /\ PluginError(RoomTx).room = None /\ Bare("error", RoomTx).room = None
    /\ ~CreateVideoAccepts(PluginError(RoomTx)) /\ ~ListParticipantsAccepts(PluginError(RoomTx))
    /\ ~CreateVideoAccepts(Bare("error", RoomTx))
    /\ ~ListParticipantsAccepts(Bare("error", RoomTx))
BY DEF PluginError, Bare, CreateVideoAccepts, ListParticipantsAccepts

\* Janus answers a create with the room when there is none, and a list when there is.
LEMMA ServesRoom ==
    ASSUME TypeInv, RoomInv, NEW r \in Requests, JanusServes(r)
    PROVE  RoomInv'
<1>1. /\ stage[r] = "janus" /\ answer[r] = None /\ status[r] # "ok"
      /\ UNCHANGED <<stage, status, request>>
    BY DEF JanusServes, RoomInv, RoomOf
<1>2. answer \in [Requests -> Body \union {None}]
    BY DEF TypeInv, JanusType
<1>3. \A l \in Requests \ {r} : answer'[l] = answer[l]
    BY <1>2 DEF JanusServes
<1>4. \A l \in Requests \ {r} : Served(l)' <=> Served(l)
    BY <1>1, <1>3 DEF Served, Accepts
<1>5. /\ room => room'
      /\ Served(r)' => room'
      /\ Served(r)' /\ request[r].path = "/create" => ~room
    <2>1. CASE /\ request[r].path = "/create" /\ room' = TRUE
               /\ answer' = [answer EXCEPT ![r] =
                     IF room THEN PluginError(RoomTx) ELSE WithRoom(RoomTx, Room)]
        <3>1. room => answer'[r] = PluginError(RoomTx)
            BY <1>2, <2>1
        <3> QED BY <1>1, <2>1, <3>1, Unaccepted DEF Served, Accepts
    <2>2. CASE /\ request[r].path = "/list_participants" /\ UNCHANGED room
               /\ answer' = [answer EXCEPT ![r] =
                     IF room /\ request[r].body = "room"
                     THEN WithRoom(RoomTx, Room) ELSE PluginError(RoomTx)]
        <3>1. ~room => answer'[r] = PluginError(RoomTx)
            BY <1>2, <2>2
        <3> QED BY <1>1, <2>2, <3>1, Unaccepted DEF Served, Accepts
    <2>3. CASE answer' = [answer EXCEPT ![r] = Bare("error", RoomTx)] /\ UNCHANGED room
        <3>1. answer'[r] = Bare("error", RoomTx)
            BY <1>2, <2>3
        <3> QED BY <1>1, <2>3, <3>1, Unaccepted DEF Served, Accepts
    <2> QED BY <2>1, <2>2, <2>3 DEF JanusServes
<1>6. ASSUME NEW l \in Requests PROVE RoomOf(l)'
    <2>1. CASE l = r
        BY <1>1, <1>5, <2>1 DEF RoomOf
    <2>2. CASE l # r
        BY <1>1, <1>3, <1>4, <1>5, <2>2 DEF RoomInv, RoomOf
    <2> QED BY <2>1, <2>2
<1>7. \A l \in Requests \ {r} : Served(l) => room
    BY DEF RoomInv, RoomOf
<1> QED BY <1>1, <1>4, <1>5, <1>6, <1>7 DEF RoomInv

LEMMA NextRoomInv == TypeInv /\ RoomInv /\ [Next]_vars => RoomInv'
<1> SUFFICES ASSUME TypeInv, RoomInv, [Next]_vars PROVE RoomInv'
    OBVIOUS
<1>1. ASSUME NEW r \in Requests, Begins(r) \/ Queried(r) \/ Asked(r) \/ JanusServes(r)
      PROVE  RoomInv'
    BY <1>1, BeginsRoom, GoesOnRoom, ServesRoom
<1>2. CASE JanusStops \/ Elapse \/ UNCHANGED vars
    <2>1. UNCHANGED <<stage, status, request, answer, room>>
        BY <1>2 DEF JanusStops, Elapse, vars
    <2> QED BY <2>1 DEF RoomInv, RoomOf, Served, Accepts
<1> QED BY <1>1, <1>2 DEF Next

\* However many clients create and however late they are answered, one at most is
\* answered with the room; and a list that is answered is of a room that is there.
THEOREM RoomsAreCreatedOnce == Spec => []OneCreator
<1>1. Init => RoomInv
    BY DEF Init, RoomInv, RoomOf, Served
<1>2. RoomInv => OneCreator
    <2> SUFFICES ASSUME RoomInv PROVE OneCreator
        OBVIOUS
    <2> DEFINE creators == {r \in Requests : request[r].path = "/create" /\ status[r] = "ok"}
    <2>1. \A r, s \in creators : r = s
        BY DEF RoomInv, RoomOf
    <2>2. creators = {} \/ \E r : creators = {r}
        BY <2>1
    <2> HIDE DEF creators
    <2>3. Cardinality(creators) <= 1
        <3>1. CASE creators = {}
            BY <3>1, FS_EmptySet
        <3>2. ASSUME NEW r, creators = {r} PROVE Cardinality(creators) <= 1
            BY <3>2, FS_Singleton
        <3> QED BY <2>2, <3>1, <3>2
    <2>4. \A r \in Requests : request[r].path # "/login" /\ status[r] = "ok" => room
        BY DEF RoomInv, RoomOf
    <2> QED BY <2>3, <2>4 DEF OneCreator, creators
<1>3. Spec => []RoomInv
    BY <1>1, NextRoomInv, TypeInvHolds, PTL DEF Spec
<1> QED BY <1>2, <1>3, PTL

(***************************************************************************)
(* The service is a caller of the session store                            *)
(***************************************************************************)
LEMMA StepIsStore ==
    TypeInv /\ [Next]_vars => [Sessions!Next]_(Sessions!vars)
<1> SUFFICES ASSUME TypeInv, [Next]_vars PROVE [Sessions!Next]_(Sessions!vars)
    OBVIOUS
<1>1. ASSUME NEW r \in Requests, Authorized(r)
      PROVE  Sessions!Next
    BY <1>1 DEF Authorized, Renewed, Sessions!Next
<1>2. ASSUME NEW r \in Requests, NewSession(r)
      PROVE  Sessions!Next
    BY <1>2 DEF NewSession, Sessions!Next, TypeInv, NamesInv
<1>3. ASSUME NEW r \in Requests,
             \/ NotFound(r) \/ LoginUser(r) \/ NoAuthorization(r) \/ QueryFails(r)
             \/ NoUser(r) \/ WrongPassword(r) \/ AskJanus(r) \/ Asked(r) \/ JanusServes(r)
      PROVE  UNCHANGED store
    BY <1>3 DEF NotFound, LoginUser, NoAuthorization, QueryFails, NoUser, WrongPassword,
                AskJanus, Asked, JanusAnswers, JanusFails, JanusServes
<1>4. CASE Elapse
    BY <1>4 DEF Elapse, Sessions!Next
<1>5. CASE JanusStops \/ UNCHANGED vars
    BY <1>5 DEF JanusStops, vars, store, Sessions!vars
<1> QED BY <1>1, <1>2, <1>3, <1>4, <1>5
        DEF Next, Begins, Queried, store, Sessions!vars

\* The handlers use the sessions only as SessionStore allows: they issue to names and
\* validate tokens, and between two awaits make one call that changes the store.
THEOREM ServiceUsesStore == Spec => Sessions!Spec
<1>1. Init => Sessions!Init
    BY DEF Init
<1> QED BY <1>1, StepIsStore, TypeInvHolds, PTL DEF Spec, Sessions!Spec
=============================================================================
