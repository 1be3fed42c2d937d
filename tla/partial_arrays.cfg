\* Grid { cells: [c0: Cell { x, y0 }, c1], name }: strict mode, in memory the
\* caller lends.
CONSTANTS
    root = root
    inner = inner
    x = x
    y = y
    name = name
    opt = opt
    cells = cells
    c0 = c0
    c1 = c1
    y0 = y0
    Nodes <- ArrNodes
    Root <- root
    Kind <- ArrKind
    Fields <- ArrFields
    Below <- ArrBelow
    FieldDefault <- NoNodes
    SelfDefault <- NoNodes
    NoChild = NoChild
    RootOwnership = "External"
    Usage <- StrictOnly
SPECIFICATION Spec
CHECK_DEADLOCK FALSE
INVARIANTS
    NoInvalidDrop
    NoLeak
    SoleAuthority
