\* A struct is replaced as a whole while frames of its fields are stored.
CONSTANTS
    root = root
    inner = inner
    x = x
    y = y
    name = name
    opt = opt
    cells = cells
    c0 = c0
    c1 = c1
    y0 = y0
    Nodes <- MCNodes
    Root <- root
    Kind <- MCKind
    Fields <- MCFields
    Below <- MCBelow
    FieldDefault <- MCDefault
    SelfDefault <- MCSelfDefault
    NoChild = NoChild
    RootOwnership = "Owned"
    Usage <- Overwriting
SPECIFICATION Spec
CHECK_DEADLOCK FALSE
INVARIANTS
    NoInvalidDrop
