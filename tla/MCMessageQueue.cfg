CONSTANTS
    Procs = {p1, p2, p3}
    Capacity = 2
    Oversized = TRUE
    Kills = TRUE
    MaxSent = 4
    MaxQueues = 3
SPECIFICATION FairSpec
CHECK_DEADLOCK FALSE
INVARIANTS TypeOK LostOnlyAfterRead
PROPERTIES ImplementsTransport StaleWaitersReturn
