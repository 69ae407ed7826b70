\* One caller, a vector of two, three logins.
CONSTANTS
    c1 = c1  c2 = c2  t1 = t1  t2 = t2  t3 = t3  alice = alice  bob = bob
    Callers = {c1}
    Tokens = {t1, t2, t3}
    Users = {alice, bob}
    Nullopt = Nullopt
    MaxSessions = 2
    MaxLife = 2
    Word = 16
    MaxTime = 3
    MaxStepBack = 0
SPECIFICATION Spec
SYMMETRY Symmetric
INVARIANT TypeOK
PROPERTY ImplementsStore
\* The destructor ends the handler.
CHECK_DEADLOCK FALSE
