\* An acknowledged request and its event.
CONSTANTS
    c1 = c1  c2 = c2  i1 = i1  i2 = i2  test123 = test123  fresh = fresh
    Calls = {c1, c2}
    Starter = Starter
    RoomTx = test123
    FreshTx = fresh
    Transactions = {test123, fresh}
    Ids = {i1, i2}
    None = None
    NoResult = NoResult
    Nullopt = Nullopt
SPECIFICATION Spec
PROPERTY EventReachesBuffer
\* Nothing happens any more once the Janus context has been stopped.
CHECK_DEADLOCK FALSE
