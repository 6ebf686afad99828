SPECIFICATION Spec
CONSTANTS
    Pipes = {"requests", "answers"}
    Readers = {"session", "peer"}
    Callers = {c1, c2}
    Waiters = {c1, c2}
    Promises <- MCPromises
    NoValue = NoValue
    SendError = SendError
    Rounds = 2
    Sends = 2
INVARIANTS
    NobodySleepsInVain
    ReadsWhole
    OwnAnswer
PROPERTIES
    BlockedCallsEnd
CHECK_DEADLOCK FALSE
