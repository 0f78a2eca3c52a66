SPECIFICATION LiveSpec
CONSTANTS
    p1 = p1
    p2 = p2
    v1 = v1
    NoPeer = NoPeer
    NoValue = NoValue
    Peers = {p1, p2}
    Values = {v1}
    Honest = {p1}
    Copies = {"honest", "miscounted"}
    Partials = TRUE
    MaxReopened = 1
    MaxSid = 1
    Refills = TRUE
    Burst = 1
    MaxFaults = 1
INVARIANTS
    TypeOK
PROPERTIES
    WantedGetsDone
CHECK_DEADLOCK FALSE
