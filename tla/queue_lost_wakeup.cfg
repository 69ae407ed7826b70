\* One producer, as in the server, and a single request.
CONSTANTS
    p1 = p1  p2 = p2
    Producers = {p1}
    Main = Main
    Free = Free
    MaxPush = 1
SPECIFICATION FairSpec
PROPERTY QueuedIsPulled
