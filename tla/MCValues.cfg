CONSTANTS
    FieldTypes <- Fields
    OtherTypes <- Unlisted
    Messages <- Structs
    Anys = {1, 2}
    Contents = {c1, c2}
    MaxBlocks = 3
    Moved = {"integer"}
    Nothing = Nothing
    MaxInitializes = 2
SPECIFICATION Spec
INVARIANTS
    RoundTrip
    ConformingIsKept
    RequiredIsChecked
    GetReturnsAssigned
    NothingIsLost
    InfosOutliveValues
\* A message that was sent back, and a program that has exited, do nothing more.
CHECK_DEADLOCK FALSE
