SPECIFICATION Spec
CONSTANTS
    Nothing = Nothing
    NoShape = Nothing
    Types <- MCTypes
    Schemas <- MCSchemas
    ShapeIn <- ShapeAt
    Usage = {"satisfy_nested"}
INVARIANTS
    TruthSurvives
CHECK_DEADLOCK FALSE
