SPECIFICATION Spec
CONSTANTS
    a = a
    b = b
    c = c
    y = y
    z = z
    NoRoot = NoRoot
    w1 = w1
    w2 = w2
    Nodes <- MCNodes
    Children <- MCChildren
    Roots <- MCRoots
    Literal <- MCLiteral
    Writers = {w1, w2}
    Blind = FALSE
    FileCell = FALSE
    Collects = "never"
    MaxInstalls = 3
    MaxFaults = 0
INVARIANTS
    RootIsStored
CHECK_DEADLOCK FALSE
