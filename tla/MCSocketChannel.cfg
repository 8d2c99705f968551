CONSTANTS
    Procs = {p1, p2}
    Kills = TRUE
    MaxSockets = 3
    MaxFd = 2
SPECIFICATION FairSpec
CHECK_DEADLOCK FALSE
INVARIANTS TypeOK DescriptorsAreOwn StrandedOnlyByFailure
PROPERTIES ImplementsTransport CallsReturn
