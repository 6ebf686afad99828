CONSTANTS
    FieldTypes <- Fields
    OtherTypes <- Unlisted
    Messages <- Structs
    Anys = {1, 2}
    Contents = {c1, c2}
    MaxBlocks = 3
    Moved = {"integer", "string", "object"}
    Nothing = Nothing
    MaxInitializes = 2
SPECIFICATION Spec
INVARIANT GetReturnsAssigned
CHECK_DEADLOCK FALSE
