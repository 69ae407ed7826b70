\* Three requests that log in, create and list in any order and overlap.
CONSTANTS
    r1 = r1  r2 = r2  r3 = r3  t1 = t1  room_id = room_id  test123 = test123
    alice = alice  eve = eve 
    Requests = {r1, r2, r3}
    Names = {alice, eve}
    Rows <- RowOf
    Tokens = {t1}
    Ids = {room_id}
    Room = room_id
    Transactions = {test123}
    RoomTx = test123
    None = None
    Nullopt = Nullopt
    MaxSessions = 1
    MaxLife = 3
    DbLimit = 1
    JanusLimit = 1
SPECIFICATION FairSpec
INVARIANTS TypeOK SessionOutlivesRequest MeetingRestsOnLogin OneCreator
PROPERTY RequestEnds
\* Nothing happens any more once every request is answered and every session over.
CHECK_DEADLOCK FALSE
