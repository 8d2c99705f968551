CONSTANTS
    Bytes <- MCBytes
    XorChar <- MCXor
    Payloads <- MCPayloads
    full_key <- MCKey
    full_iv <- MCIv
    SHM_SIZE = 50
SPECIFICATION CipherSpec
CHECK_DEADLOCK FALSE
INVARIANTS RoundTrip CutShowsPrefix
