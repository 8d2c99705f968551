CONSTANTS
    Names = {"new"}
    MaxSubjects = 4
    MaxTransfers = 1
    MaxPending = 2
SPECIFICATION FairSpec
CHECK_DEADLOCK FALSE
INVARIANTS TypeOK
PROPERTIES ConsentChanges ErasuresHappen
