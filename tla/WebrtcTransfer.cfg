SPECIFICATION FairSpec
CONSTANTS
    o = o
    a = a
    b = b
    NoPeer = NoPeer
    Peers = {o, a, b}
    Asks <- MCAsks
    MaxPending = 2
    Candidates <- MCCandidates
    Frames = 2
    High = 1
INVARIANTS
    TypeOK
    NoMismatch
    EmptyRoomIsFresh
    PresenceIsKnown
    SignalsAreOfPartner
    SignalsAreInOrder
PROPERTIES
    PairSucceeds
    EveryoneEnds
CHECK_DEADLOCK FALSE
