SPECIFICATION FairSpec
CONSTANTS
    v1 = v1
    v2 = v2
    part = part
    Hashes = {v1, part}
    Roots = {v1, part}
    Order <- MCNested
    SentLimit = 1
    RevealLimit = 1
    MaxRequests = 3
    Pauses = TRUE
INVARIANTS
    TypeOK
    OneWriter
    OfferedIsLive
    SentIsWritten
    WrittenOnce
    OkIsComplete
PROPERTIES
    RequestEnds
CHECK_DEADLOCK FALSE
