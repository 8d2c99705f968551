CONSTANTS
    Senders = {p1, p2}
    Receivers = {p2, p3}
    Kills = TRUE
    MaxFifos = 2
SPECIFICATION FairSpec
CHECK_DEADLOCK FALSE
INVARIANTS TypeOK LostOnlyAfterRead
PROPERTIES ImplementsTransport ReadReturns
