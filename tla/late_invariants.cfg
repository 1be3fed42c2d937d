\* A recursive type whose checked part comes after its recursive one.
CONSTANTS
    Shape <- MCShape
    Roots <- LateRoots
    Formats <- MCFormats
    Usage <- Never
    MaxCalls = 9
    MaxFrames = 6
    MaxPartials = 2
    LookupThreshold = 2
    ShortPrefix = 1
    LongPrefix = 2
SPECIFICATION Spec
CHECK_DEADLOCK FALSE
INVARIANTS
    RefusesExactlyTheUnsound
