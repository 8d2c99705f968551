CONSTANTS
    Procs = {p1, p2}
    Searches <- MCSearches
    Occurs <- MCOccurs
    RetentionLimit = 2
    RetentionBatch = 1
    OpenOutcomes = {TRUE}
    Entries = {"entry"}
    Texts <- MCTexts
    Details <- MCDetails
    Subjects <- MCSubjects
    Fields <- MCFields
    Values <- MCValues
    MaxCalls = 6
SYMMETRY MCSymmetry
SPECIFICATION Spec
CHECK_DEADLOCK FALSE
INVARIANTS TypeOK Identity ErasedFromMemory ErasedFromDisk DiskWithinMemory DiskCovers
PROPERTY RemovedByErasureOrAge
