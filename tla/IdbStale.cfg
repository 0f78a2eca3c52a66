SPECIFICATION Spec
CONSTANTS
    a = a
    b = b
    r = r
    q = q
    Swaps = {a}
    Resets = {r, q}
    ResetTo <- MCSame
    MaxReloads = 0
INVARIANTS
    QuietIsDurable
CHECK_DEADLOCK FALSE
