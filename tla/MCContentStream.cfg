SPECIFICATION Spec
CONSTANTS
    Name <- MCName
    Separator <- MCSeparator
    Bodies <- MCBodies
    Junks <- MCJunks
    ChunkSize = 3
    SizeMod = 16
    MaxItems = 3
INVARIANTS
    ReceivedInOrder
    NothingAfterInvalidData
PROPERTIES
    MessagesArrive
CHECK_DEADLOCK FALSE
