SPECIFICATION Spec
CONSTANTS
    v1 = v1
    v2 = v2
    part = part
    Hashes = {v1, v2, part}
    Roots = {v1, v2}
    Order <- MCShared
    SentLimit = 3
    RevealLimit = 2
    MaxRequests = 3
    Pauses = FALSE
INVARIANTS
    ReturnedIsWritten
CHECK_DEADLOCK FALSE
