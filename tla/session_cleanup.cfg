\* Two callers, a vector of one, a clock that may step back: refused logins race
\* with the clean-up thread.
CONSTANTS
    c1 = c1  c2 = c2  t1 = t1  t2 = t2  t3 = t3  alice = alice  bob = bob
    Callers = {c1, c2}
    Tokens = {t1}
    Users = {alice}
    Nullopt = Nullopt
    MaxSessions = 1
    MaxLife = 2
    Word = 16
    MaxTime = 3
    MaxStepBack = 1
SPECIFICATION FairSpec
INVARIANT RefusalRemembered
PROPERTIES RefusalSwept ExpiredErased JoinReturns
\* The destructor ends the handler.
CHECK_DEADLOCK FALSE
