SPECIFICATION Spec
CONSTANTS
    p1 = p1
    p2 = p2
    v1 = v1
    v2 = v2
    NoPeer = NoPeer
    NoValue = NoValue
    Peers = {p1, p2}
    Values = {v1, v2}
    Honest = {}
    Copies = {"honest", "miscounted", "misrooted"}
    Partials = TRUE
    MaxReopened = 1
    MaxSid = 2
    Refills = FALSE
    Burst = 1
    MaxFaults = 0
SYMMETRY Symmetry
INVARIANTS
    UncheckedIsTracked
    HaveIsChecked
    DispatchOnce
    StreamsMatchWants
PROPERTIES
    VerifiedIsStored
    DoneIsVerified
    VerifiedStays
CHECK_DEADLOCK FALSE
