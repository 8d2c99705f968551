CONSTANTS
    Procs = {p1}
    Tokens <- MCTokens
    generate_sha256 <- MCDigest
    Subjects <- MCSubjects
    Emails = {"a@b"}
    Searches <- MCSubjects
    Occurs <- MCOccurs
    RetentionLimit = 1
    RetentionBatch = 1
    OpenOutcomes = {TRUE}
    Usernames <- MCUsernames
    Passwords <- MCPasswords
    Channels = {"NamedPipe"}
    Payloads <- MCPayloads
    Fields <- MCFields
    Values = {"v"}
    Damage = {}
    MaxCalls = 4
SPECIFICATION Spec
CHECK_DEADLOCK FALSE
INVARIANT WalkthroughLogsIn
