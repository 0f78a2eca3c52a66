SPECIFICATION Spec
CONSTANTS
    a = a
    b = b
    c = c
    y = y
    z = z
    NoRoot = NoRoot
    w1 = w1
    Nodes <- MCNodes
    Children <- MCChildren
    Roots <- MCRoots
    Literal <- MCLiteral
    Writers = {w1}
    Blind = FALSE
    FileCell = FALSE
    Collects = "untilFault"
    MaxInstalls = 3
    MaxFaults = 1
INVARIANTS
    TypeOK
    RootIsStored
    RootIsReadable
    AckedSurvives
PROPERTIES
    ImplementsDurableRoot
CHECK_DEADLOCK FALSE
