CONSTANTS
    Procs = {p1, p2}
    Oversized = TRUE
    Kills = TRUE
    MaxSegments = 2
    MaxMessages = 2
SYMMETRY MCSymmetry
SPECIFICATION Spec
CHECK_DEADLOCK FALSE
INVARIANTS TypeOK UndisturbedReadIsWhole OnlyLateMessagesRemoved ReadsOnce
