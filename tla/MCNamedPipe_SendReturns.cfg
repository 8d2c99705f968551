CONSTANTS
    Senders = {p1}
    Receivers = {p2}
    Kills = FALSE
    MaxFifos = 3
SPECIFICATION FairSpec
CHECK_DEADLOCK FALSE
PROPERTY SendReturns
