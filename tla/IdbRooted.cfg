SPECIFICATION Spec
CONSTANTS
    a = a
    b = b
    r = r
    q = q
    Swaps = {a, b}
    Resets = {r, q}
    ResetTo <- MCApart
    MaxReloads = 1
INVARIANTS
    AppliedOnce
    QuietIsDurable
    AckedSurvives
    RootIsStored
CHECK_DEADLOCK FALSE
