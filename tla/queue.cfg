\* Two producers that push three items each, and the main thread.
CONSTANTS
    p1 = p1  p2 = p2
    Producers = {p1, p2}
    Main = Main
    Free = Free
    MaxPush = 3
SPECIFICATION FairSpec
INVARIANTS TypeOK NeverPopsEmpty LockOwners
PROPERTIES ImplementsChannel PushReturns PulledUnlessMissed
