CONSTANTS
    Procs = {p1, p2}
    Tokens <- MCTokens
    generate_sha256 <- MCDigestOfKey
    Subjects <- MCSubjects
    Emails = {"a@b"}
    Searches <- MCSubjects
    Occurs <- MCOccurs
    RetentionLimit = 2
    RetentionBatch = 2
    OpenOutcomes = {TRUE}
    Usernames <- MCUsernames
    Passwords = {"user@001"}
    Channels = {"NamedPipe"}
    Payloads <- MCPayloads
    Fields <- MCFields
    Values = {"v"}
    Damage <- MCDamage
    MaxCalls = 4
SYMMETRY MCSymmetry
SPECIFICATION Spec
CHECK_DEADLOCK FALSE
INVARIANTS TypeOK ClaimedTransfersHappened OnlyAdminsSendRaw WrittenIsLogged DecisionsBindTransfers
