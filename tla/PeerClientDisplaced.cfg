SPECIFICATION Spec
CONSTANTS
    p1 = p1
    p2 = p2
    v1 = v1
    v2 = v2
    NoPeer = NoPeer
    NoValue = NoValue
    Peers = {p1, p2}
    Values = {v1, v2}
    Honest = {}
    Copies = {"honest", "misrooted"}
    Partials = TRUE
    MaxReopened = 0
    MaxSid = 2
    Refills = FALSE
    Burst = 1
    MaxFaults = 0
SYMMETRY Symmetry
INVARIANTS
    DoneStaysStored
CHECK_DEADLOCK FALSE
