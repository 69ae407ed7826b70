---------------------------- MODULE UserService ----------------------------
(***************************************************************************)
(* The router, the user service and the two repositories: what happens to  *)
(* a request from the coroutine spawned for it to its response.  Coroutines *)
(* run on the one context thread and interleave where they await the       *)
(* database or Janus; between two awaits a coroutine is one action.        *)
(*                                                                         *)
(* The sessions are the abstract SessionStore, which SessionHandler        *)
(* implements.  The database and Janus answer, fail or time out.           *)
(***************************************************************************)
EXTENDS Naturals, FiniteSets, JanusMessages

CONSTANTS Requests,     \* the requests of the clients
          Names,        \* user names
          Rows,         \* what the users table holds for each name
          Tokens,       \* session tokens
          Room,         \* create_room_request::room_id, the same in each request
          RoomTx,       \* the transaction of the VideoRoom requests
          Nullopt,      \* std::nullopt
          MaxSessions,  \* the capacity of the session handler
          MaxLife,      \* the life of a session
          DbLimit,      \* the longest a query takes: three awaits of 5 s
          JanusLimit    \* the longest a Janus request takes: 4 of 5 s, one of 30

RowKind == {"absent", "null_column", "malformed", "usable"}

ASSUME ServiceAssumption ==
    /\ Rows \in [Names -> RowKind]
    /\ Room \in Ids /\ RoomTx \in Transactions
    /\ None \notin Tokens \union Names

ASSUME LimitsAssumption ==
    /\ {MaxSessions, MaxLife, DbLimit, JanusLimit} \subseteq Nat
    /\ DbLimit + JanusLimit < MaxLife

VARIABLES stage,        \* where each request is
          request,      \* what each request asks
          username,     \* the user name its coroutine looks up
          waited,       \* how long it has been in its await
          status,       \* the response: its HTTP status
          issued, owner, left, reply,   \* SessionStore
          janus,        \* is the Janus context running?
          room,         \* does Janus have the room?
          answer        \* what Janus has answered to each request

store == <<issued, owner, left, reply>>
vars == <<stage, request, username, waited, status, issued, owner, left, reply,
          janus, room, answer>>

Sessions == INSTANCE SessionStore WITH Callers <- Requests, Users <- Names

Path == {"/login", "/create", "/list_participants", "other"}
Content == {"none", "password", "wrong_password", "malformed", "room", "other_room"}
NoRequest == [path |-> "other", token |-> None, name |-> None, body |-> "none"]

Init ==
    /\ stage = [r \in Requests |-> "new"]
    /\ request = [r \in Requests |-> NoRequest]
    /\ username = [r \in Requests |-> None]
    /\ waited = [r \in Requests |-> 0]
    /\ status = [r \in Requests |-> "none"]
    /\ Sessions!Init
    /\ janus = "running" /\ room = FALSE
    /\ answer = [r \in Requests |-> None]

Respond(r, s) ==
    /\ stage' = [stage EXCEPT ![r] = "answered"]
    /\ status' = [status EXCEPT ![r] = s]
    /\ UNCHANGED waited

Await(r, s) ==
    /\ stage' = [stage EXCEPT ![r] = s]
    /\ waited' = [waited EXCEPT ![r] = 0]
    /\ UNCHANGED status

(***************************************************************************)
(* route_request, up to the first await                                    *)
(***************************************************************************)
Arrives(r, req) ==
    /\ stage[r] = "new"
    /\ request' = [request EXCEPT ![r] = req]
    /\ UNCHANGED <<janus, room, answer>>

NotFound(r) ==
    /\ Arrives(r, NoRequest)
    /\ Respond(r, "not_found")
    /\ UNCHANGED <<username, store>>

\* A body that is no user leaves the name empty: the query finds nothing.
LoginUser(r) ==
    /\ \E n \in Names, b \in {"password", "wrong_password"} :
          /\ Arrives(r, [NoRequest EXCEPT !.path = "/login", !.name = n, !.body = b])
          /\ username' = [username EXCEPT ![r] = n]
    /\ Await(r, "db")
    /\ UNCHANGED store

\* A missing authorization header throws, and the router answers.
NoAuthorization(r) ==
    /\ \E p \in {"/create", "/list_participants"} :
          Arrives(r, [NoRequest EXCEPT !.path = p])
    /\ Respond(r, "bad_request")
    /\ UNCHANGED <<username, store>>

\* Mutations of Renewed and Valid: a validation does not renew; any token will do.
NotRenewed(r, t) == Sessions!Lookup(r, t)
AnyToken(t) == TRUE

Renewed(r, t) == Sessions!Validate(r, t)
Valid(t) == left[t] > 0

\* create_meeting and list_participants validate, which renews the session, and
\* look the owner up; then they query the database.
Authorized(r) ==
    /\ \E p \in {"/create", "/list_participants"}, t \in Tokens,
          b \in {"malformed", "room", "other_room"} :
          /\ Arrives(r, [path |-> p, token |-> t, name |-> None, body |-> b])
          /\ p = "/create" => b = "room"
          /\ Renewed(r, t)
          /\ IF Valid(t)
             THEN username' = [username EXCEPT ![r] = owner[t]] /\ Await(r, "db")
             ELSE UNCHANGED username /\ Respond(r, "bad_request")

(***************************************************************************)
(* After find_user_by_username                                             *)
(***************************************************************************)
Row(r) == Rows[username[r]]

\* Mutation of QueryFails: a query has no time-out and no error.
QueryWaits(r) == FALSE

\* No connection, no statement, no execution, or five seconds without one.
QueryFails(r) ==
    /\ stage[r] = "db"
    /\ Respond(r, "bad_request")
    /\ UNCHANGED <<request, username, store, janus, room, answer>>

\* No row, or a row that is no user.  A NULL column throws out of the repository:
\* the meeting handlers catch it, login does not.
NoUser(r) ==
    /\ stage[r] = "db" /\ Row(r) # "usable"
    /\ IF Row(r) = "null_column" /\ request[r].path = "/login"
       THEN stage' = [stage EXCEPT ![r] = "threw"] /\ UNCHANGED <<waited, status>>
       ELSE Respond(r, "bad_request")
    /\ UNCHANGED <<request, username, store, janus, room, answer>>

\* Mutation of PasswordMatches: the user is enough.
PasswordIgnored(r) == TRUE

PasswordMatches(r) == request[r].body = "password"

WrongPassword(r) ==
    /\ stage[r] = "db" /\ Row(r) = "usable"
    /\ request[r].path = "/login" /\ ~PasswordMatches(r)
    /\ Respond(r, "bad_request")
    /\ UNCHANGED <<request, username, store, janus, room, answer>>

\* new_session for the user the row names.
NewSession(r) ==
    /\ stage[r] = "db" /\ Row(r) = "usable"
    /\ request[r].path = "/login" /\ PasswordMatches(r)
    /\ \/ Sessions!Issue(r, username[r]) /\ Respond(r, "ok")
       \/ Sessions!Refuse(r) /\ Respond(r, "bad_request")
    /\ UNCHANGED <<request, username, janus, room, answer>>

\* list_participants_request parses the body only now.
AskJanus(r) ==
    /\ stage[r] = "db" /\ Row(r) = "usable"
    /\ request[r].path # "/login"
    /\ IF request[r].body = "malformed" THEN Respond(r, "bad_request")
                                        ELSE Await(r, "janus")
    /\ UNCHANGED <<request, username, store, janus, room, answer>>

(***************************************************************************)
(* Janus (outside the program) and what becomes of its answer              *)
(***************************************************************************)
\* Janus serves the request; a room that exists is not created again, and an
\* incomplete path is an error.
JanusServes(r) ==
    /\ stage[r] = "janus" /\ answer[r] = None
    /\ \/ /\ request[r].path = "/create"
          /\ room' = TRUE
          /\ answer' = [answer EXCEPT ![r] =
                IF room THEN PluginError(RoomTx) ELSE WithRoom(RoomTx, Room)]
       \/ /\ request[r].path = "/list_participants"
          /\ answer' = [answer EXCEPT ![r] =
                IF room /\ request[r].body = "room"
                THEN WithRoom(RoomTx, Room) ELSE PluginError(RoomTx)]
          /\ UNCHANGED room
       \/ answer' = [answer EXCEPT ![r] = Bare("error", RoomTx)] /\ UNCHANGED room
    /\ UNCHANGED <<stage, request, username, waited, status, store, janus>>

\* The response class of the handler accepts the body or throws; the router
\* catches.
Accepts(r) == IF request[r].path = "/create" THEN CreateVideoAccepts(answer[r])
                                             ELSE ListParticipantsAccepts(answer[r])

JanusAnswers(r) ==
    /\ stage[r] = "janus" /\ janus = "running" /\ answer[r] # None
    /\ Respond(r, IF Accepts(r) THEN "ok" ELSE "bad_request")
    /\ UNCHANGED <<request, username, store, janus, room, answer>>

\* A step of the temporary connection fails, or no event comes.
JanusFails(r) ==
    /\ stage[r] = "janus" /\ janus = "running"
    /\ Respond(r, "bad_request")
    /\ UNCHANGED <<request, username, store, janus, room, answer>>

\* The start-up of the Janus client has failed: its calls do not return.
JanusStops ==
    /\ janus = "running" /\ janus' = "stopped"
    /\ UNCHANGED <<stage, request, username, waited, status, store, room, answer>>

(***************************************************************************)
(* Time                                                                    *)
(***************************************************************************)
Limit(r) == IF stage[r] = "db" THEN DbLimit ELSE JanusLimit

\* Does the timer of r's await run?
Timed(r) == stage[r] = "db" \/ (stage[r] = "janus" /\ janus = "running")

\* One tick for every session and every await; an await at its limit ends first.
Elapse ==
    /\ \A r \in Requests : Timed(r) => waited[r] < Limit(r)
    /\ waited' = [r \in Requests |-> IF Timed(r) THEN waited[r] + 1 ELSE waited[r]]
    /\ Sessions!Elapse
    /\ UNCHANGED <<stage, request, username, status, janus, room, answer>>

\* The steps of r's coroutine: to its first await, after the query, after Janus.
Begins(r) == NotFound(r) \/ LoginUser(r) \/ NoAuthorization(r) \/ Authorized(r)
Queried(r) == QueryFails(r) \/ NoUser(r) \/ WrongPassword(r) \/ NewSession(r)
              \/ AskJanus(r)
Asked(r) == JanusAnswers(r) \/ JanusFails(r)

Next ==
    \/ \E r \in Requests : Begins(r) \/ Queried(r) \/ Asked(r) \/ JanusServes(r)
    \/ JanusStops
    \/ Elapse

Spec == Init /\ [][Next]_vars

\* The timers of the database and, while its context runs, of Janus fire: neither
\* the database nor Janus need answer.
FairSpec ==
    /\ Spec
    /\ \A r \in Requests : WF_vars(QueryFails(r)) /\ WF_vars(JanusFails(r))

(***************************************************************************)
(* Properties                                                              *)
(***************************************************************************)
\* Types; a name is looked up only if there is one: no empty optional is read.
TypeOK ==
    /\ stage \in [Requests -> {"new", "db", "janus", "answered", "threw"}]
    /\ request \in [Requests -> [path : Path, token : Tokens \union {None},
                                 name : Names \union {None}, body : Content]]
    /\ username \in [Requests -> Names \union {None}]
    /\ waited \in [Requests -> Nat]
    /\ \A r \in Requests : Timed(r) => waited[r] <= Limit(r)
    /\ status \in [Requests -> {"none", "ok", "bad_request", "not_found"}]
    /\ issued \subseteq Tokens
    /\ owner \in [Tokens -> Names \union {Nullopt}]
    /\ left \in [Tokens -> 0..MaxLife]
    /\ janus \in {"running", "stopped"} /\ room \in BOOLEAN
    /\ answer \in [Requests -> Body \union {None}]

\* The session checked before the first await still lives when the request ends:
\* the handler never looks at it again, and the two awaits together are shorter
\* than a session (user_service.cpp 32-53 and 55-74).
SessionOutlivesRequest ==
    \A r \in Requests :
        Timed(r) /\ request[r].path # "/login" => left[request[r].token] > 0

\* A meeting is opened or listed only with a token that answered a login with the
\* right password, and for the user who logged in.
Login(r, t) == /\ request[r].path = "/login" /\ request[r].body = "password"
               /\ status[r] = "ok" /\ reply[r] = t

MeetingRestsOnLogin ==
    \A r \in Requests :
        request[r].path \in {"/create", "/list_participants"} /\ status[r] = "ok"
        => \E l \in Requests : Login(l, request[r].token) /\ request[l].name = username[r]

\* The room id is a constant, so one create at most is answered with it, however
\* many clients create and however their answers are delayed; and a list that is
\* answered is of a room that is there.
OneCreator ==
    /\ Cardinality({r \in Requests :
            request[r].path = "/create" /\ status[r] = "ok"}) <= 1
    /\ \A r \in Requests :
            request[r].path # "/login" /\ status[r] = "ok" => room

\* Every request is answered, "its result sent back to the originating client"
\* (README.md 346), with two exceptions: one that waits for a Janus client that has
\* stopped, and a login for a user with a NULL column (user_repo.cpp 49), which ends
\* with an exception and without a response.
RequestEnds ==
    \A r \in Requests :
        stage[r] = "db" ~>
            \/ stage[r] = "answered"
            \/ stage[r] = "threw" /\ request[r].path = "/login" /\ Row(r) = "null_column"
            \/ stage[r] = "janus" /\ janus = "stopped"
=============================================================================
