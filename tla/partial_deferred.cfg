\* Config { inner: Inner { x, y }, name, opt }: strict and deferred mode.
CONSTANTS
    root = root
    inner = inner
    x = x
    y = y
    name = name
    opt = opt
    cells = cells
    c0 = c0
    c1 = c1
    y0 = y0
    Nodes <- MCNodes
    Root <- root
    Kind <- MCKind
    Fields <- MCFields
    Below <- MCBelow
    FieldDefault <- MCDefault
    SelfDefault <- MCSelfDefault
    NoChild = NoChild
    RootOwnership = "Owned"
    Usage <- Deferring
SPECIFICATION FairSpec
CHECK_DEADLOCK FALSE
INVARIANTS
    TypeOK
    NoInvalidDrop
    NoLeak
    BuiltComplete
    SoleAuthority
    OwnershipInv
PROPERTIES
    SetSurvives
    FinishRefusesOnlyGaps
    CallsReturn
    KeepsPromise
