\* Array elements in deferred mode.
CONSTANTS
    root = root
    inner = inner
    x = x
    y = y
    name = name
    opt = opt
    cells = cells
    c0 = c0
    c1 = c1
    y0 = y0
    Nodes <- ArrNodes
    Root <- root
    Kind <- ArrKind
    Fields <- ArrFields
    Below <- ArrBelow
    FieldDefault <- NoNodes
    SelfDefault <- NoNodes
    NoChild = NoChild
    RootOwnership = "Owned"
    Usage <- Deferring
SPECIFICATION Spec
CHECK_DEADLOCK FALSE
INVARIANTS
    NoInvalidDrop
