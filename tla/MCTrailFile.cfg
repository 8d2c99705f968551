CONSTANTS
    Procs = {p1, p2}
    Subjects = {s1, s2}
    RetentionLimit = 1
    RetentionBatch = 1
    OpenOutcomes = {TRUE, FALSE}
    MaxRecords = 3
SYMMETRY MCSymmetry
SPECIFICATION Spec
CHECK_DEADLOCK FALSE
INVARIANTS TypeOK OwnErasedStaysOut SameOwnerInOrder AloneFileIsLog
PROPERTY LossesAreOthers
