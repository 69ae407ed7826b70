\* Two calls that share a transaction, one with its own.
CONSTANTS
    c1 = c1  c2 = c2  c3 = c3
    Calls = {c1, c2, c3}
    Transactions = {c1, c3}
    TxOf <- SomeShared
    Nobody = Nobody
    Nullopt = Nullopt
SPECIFICATION FairSpec
INVARIANTS TypeOK OwnTransaction NoDeadWaiter OutcomeInOnePlace
PROPERTIES WaitEnds ImplementsMailbox
\* Every call waits once.
CHECK_DEADLOCK FALSE
