\* A client that may pipeline two requests, and one that sends one.
CONSTANTS
    a = a  b = b
    Conns = {a, b}
    MaxRequests <- RequestsOf
SPECIFICATION FairSpec
INVARIANTS TypeOK EachRequestInOnePlace OneWriter HandlersOwnTheirConnection
           OnlyGoneClientsEndIt
PROPERTIES DispatchedIsSettled ImplementsExchange
\* The process ends when an exception leaves the context thread, and nothing
\* happens when the clients are gone.
CHECK_DEADLOCK FALSE
