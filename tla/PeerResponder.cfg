SPECIFICATION LiveSpec
CONSTANTS
    a = a
    b = b
    c = c
    NoHash = NoHash
    Hashes <- MCHashes
    PageOrder <- MCPageOrder
    Frames <- MCFrames
    Burst = 1
    MaxStreams = 2
    RecordCap = 2
    HighMark = 2
    LowMark = 1
    MaxSid = 3
    MaxGrant = 1
    MaxSessions = 1
    Crossing = FALSE
INVARIANTS
    TypeOK
    StreamsAreAsked
    StreamsAreComplete
    RecordIsSent
PROPERTIES
    StreamsEnd
CHECK_DEADLOCK FALSE
