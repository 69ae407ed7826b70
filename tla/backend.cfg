\* One client that may pipeline two requests, each of which may log in, create or
\* list.  An await takes no time of a session: SessionOutlivesRequest has that.
CONSTANTS
    a = a  t1 = t1  room_id = room_id  test123 = test123
    alice = alice  eve = eve
    Conns = {a}
    MaxRequests <- RequestsOf
    Names = {alice, eve}
    Rows <- RowOf
    Tokens = {t1}
    RoomIds = {room_id}
    Room = room_id
    Transactions = {test123}
    RoomTx = test123
    None = None
    Nullopt = Nullopt
    MaxSessions = 1
    MaxLife = 1
    DbLimit = 0
    JanusLimit = 0
SPECIFICATION BackendFairSpec
INVARIANT RoutedOnce
PROPERTIES CoroutinesEnd OnlyMeetingsHang
\* Nothing happens any more once every client has gone.
CHECK_DEADLOCK FALSE
