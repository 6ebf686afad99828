SPECIFICATION Spec
CONSTANTS
    ReqCalls = {c1}
    EvtCalls = {}
    PeerRequests = {r1}
    PeerEvents = {}
    Commands = {n1}
    EventNames = {}
    HasFields = {n1}
    SeqMod = 8
    Transports = {"pipe", "socket"}
    InvalidDataModes = {"kClose"}
    None = None
    NotSent = NotSent
    Bodies = {"ok"}
    Forms = {"ok"}
    MaxAnswers = 1
    MaxGarbage = 1
    MaxUnread = 3
INVARIANTS
    SentHandlerAfterResponse
    QuietWhenDead
PROPERTIES
    DestructorReturns
    QueuedIsDispatched
    ClosedIsReported
    AnswerReachesFuture
CHECK_DEADLOCK FALSE
