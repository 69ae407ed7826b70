\* One client that may leave while its request is read.
CONSTANTS
    a = a  b = b
    Conns = {a}
    MaxRequests <- RequestsOf
SPECIFICATION Spec
PROPERTY ReadFailureOnlyCloses
\* The process ends when an exception leaves the context thread, and nothing
\* happens when the clients are gone.
CHECK_DEADLOCK FALSE
