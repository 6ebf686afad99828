SPECIFICATION DebuggerSpec
CONSTANTS
    NumSourceLines = 3
    Requests <- MCRequests
    MaxRequests = 3
INVARIANTS
    LogFollowsStdout
    UsesLiveLocals
PROPERTIES
    ContinueStopsAtNearest
    AllAnswered
CHECK_DEADLOCK FALSE
