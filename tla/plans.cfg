\* Recursive types, shared types, types with proxies; two Partials in a row.
CONSTANTS
    Shape <- MCShape
    Roots <- MCRoots
    Formats <- MCFormats
    Usage <- Never
    MaxCalls = 9
    MaxFrames = 6
    MaxPartials = 2
    LookupThreshold = 2
    ShortPrefix = 1
    LongPrefix = 2
SPECIFICATION Spec
CHECK_DEADLOCK FALSE
INVARIANTS
    TypeOK
    OnePerType
    PlanFollowsShape
    OwnProxies
    NeverPanics
    RefusesExactlyTheUnsound
    TablesAgree
PROPERTIES
    PlansEnd
