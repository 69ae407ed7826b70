--------------------------- MODULE JanusMessages ---------------------------
(***************************************************************************)
(* The requests the program builds, what Janus sends, and what the message *)
(* classes accept of it.  A body is abstracted to the fields the parsers   *)
(* look at; a field holds a value of the right JSON type, or None when it  *)
(* is absent (reading it throws).                                          *)
(***************************************************************************)
CONSTANTS None,         \* no such field
          Transactions, \* the strings of the field "transaction"
          Ids           \* the ids of sessions, plugin handles and rooms

\* The values of the field "janus".
Kinds == {"success", "ack", "event", "keepalive", "error"}

ASSUME NoneAssumption == None \notin Transactions \union Ids \union Kinds

\* json: the text parses to an object.  id: data.id.  room: plugindata.data.room.
\* videoroom: plugindata.data.videoroom is there.
Body == [json : BOOLEAN, janus : Kinds \union {None},
         transaction : Transactions \union {None},
         id : Ids \union {None}, room : Ids \union {None}, videoroom : BOOLEAN]

\* Mutations: any text is a message; a session needs no id, a room no number.
AnyText(b) == TRUE
SessionWithoutId(b) == b.json
RoomWithoutNumber(b) == b.json

(***************************************************************************)
(* The requests: the session and the plugin handle are parts of the path.  *)
(***************************************************************************)
Request == [kind : {"create", "attach", "create_room", "listparticipants"},
            transaction : Transactions, session : Ids \union {None},
            plugin : Ids \union {None}]

Post(kind, tx, session, plugin) ==
    [kind |-> kind, transaction |-> tx, session |-> session, plugin |-> plugin]

CreateSession(tx) == Post("create", tx, None, None)
AttachPlugin(tx, session) == Post("attach", tx, session, None)
CreateRoom(tx, session, plugin) == Post("create_room", tx, session, plugin)
ListParticipants(tx, session, plugin) == Post("listparticipants", tx, session, plugin)

(***************************************************************************)
(* The responses                                                           *)
(***************************************************************************)
\* Each of these constructors throws unless its predicate holds of the body.
KeepAliveAccepts(b) == b.json /\ b.janus # None
ResponseMessageAccepts(b) == b.json /\ b.janus # None
CreateSessionAccepts(b) ==
    b.json /\ b.janus # None /\ b.transaction # None /\ b.id # None
AttachPluginAccepts(b) ==
    b.json /\ b.janus # None /\ b.transaction # None /\ b.id # None
CreateVideoAccepts(b) ==
    b.json /\ b.janus # None /\ b.transaction # None /\ b.room # None
ListParticipantsAccepts(b) ==
    b.json /\ b.janus # None /\ b.transaction # None /\ b.room # None /\ b.videoroom

(***************************************************************************)
(* The bodies Janus sends (outside the program)                            *)
(***************************************************************************)
Bare(kind, tx) == [json |-> TRUE, janus |-> kind, transaction |-> tx,
                   id |-> None, room |-> None, videoroom |-> FALSE]
WithId(tx, i) == [Bare("success", tx) EXCEPT !.id = i]
WithRoom(tx, i) == [Bare("success", tx) EXCEPT !.room = i, !.videoroom = TRUE]
\* A plugin error (the room exists, or does not) is a success without a room.
PluginError(tx) == [Bare("success", tx) EXCEPT !.videoroom = TRUE]
NotJson == [Bare(None, None) EXCEPT !.json = FALSE]
=============================================================================
