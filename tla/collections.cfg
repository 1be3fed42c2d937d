\* Lists, maps and sets of lists, maps and sets, up to two elements each.
CONSTANTS
    Types <- AllTypes
    MaxItems = 2
    MaxSets = 4
    Usage <- Never
SPECIFICATION Spec
CHECK_DEADLOCK FALSE
INVARIANTS
    TypeOK
    OnlyInitialized
    NothingLost
    OneAuthority
    AsDescribed
PROPERTIES
    RefusesOnlyGaps
