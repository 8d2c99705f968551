CONSTANTS
    Procs = {p1, p2}
    Tokens <- MCTokens
    generate_sha256 <- MCDigest
    Subjects <- MCSubjects
    Emails = {"a@b"}
    Searches <- MCSubjects
    Occurs <- MCOccurs
    RetentionLimit = 1
    RetentionBatch = 1
    OpenOutcomes = {TRUE}
    Usernames <- MCUsernames
    Passwords <- MCPasswords
    Channels = {"NamedPipe"}
    Payloads <- MCPayloads
    Fields <- MCFields
    Values = {"v"}
    Damage = {}
    MaxCalls = 3
SYMMETRY MCSymmetry
SPECIFICATION Spec
CHECK_DEADLOCK FALSE
INVARIANTS NobodyReachesMenu
