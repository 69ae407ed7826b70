\* The long poll, with bodies of every kind and a Janus that drops its connection.
CONSTANTS
    c1 = c1   i1 = i1  i2 = i2  test123 = test123  fresh = fresh
    Calls = {c1}
    Starter = Starter
    RoomTx = test123
    FreshTx = fresh
    Transactions = {test123, fresh}
    Ids = {i1, i2}
    None = None
    NoResult = NoResult
    Nullopt = Nullopt
SPECIFICATION FairSpec
PROPERTY ContinuouslyPolls
\* Nothing happens any more once the Janus context has been stopped.
CHECK_DEADLOCK FALSE
