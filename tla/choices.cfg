\* Options and an enum; a word of an ISet has as many bits as Two has fields.
CONSTANTS
    WordBits = 2
    Types <- AllTypes
    Usage <- Never
SPECIFICATION Spec
CHECK_DEADLOCK FALSE
INVARIANTS
    TypeOK
    NoInvalidDrop
    NothingLost
    BuiltWhole
    AsChosen
PROPERTIES
    RefusesOnlyGaps
