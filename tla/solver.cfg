SPECIFICATION Spec
CONSTANTS
    Nothing = Nothing
    NoShape = Nothing
    Schemas <- MCSchemas
    ShapeIn <- ShapeAt
    Types <- MCTypes
    Usage = {}
INVARIANTS
    TypeOK
    NarrowingIsOrderFree
    OneShotAgrees
    TruthSurvives
    ForksAreTheChoices
PROPERTIES
    NeverReopened
CHECK_DEADLOCK FALSE
