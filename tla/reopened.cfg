\* Elements are begun, in deferred mode, in a collection that has some.
CONSTANTS
    Types <- ListsOnly
    MaxItems = 3
    MaxSets = 3
    Usage <- Reopening
SPECIFICATION Spec
CHECK_DEADLOCK FALSE
INVARIANTS
    OnlyInitialized
