SPECIFICATION SafeSpec
CONSTANTS
    ReqCalls = {c1, c2}
    EvtCalls = {e1}
    PeerRequests = {}
    PeerEvents = {p1}
    Commands = {}
    EventNames = {n2}
    HasFields = {}
    SeqMod = 3
    Transports = {"pipe"}
    InvalidDataModes = {}
    None = None
    NotSent = NotSent
    Bodies = {"ok"}
    Forms = {"ok"}
    MaxAnswers = 2
    MaxGarbage = 0
    MaxUnread = 2
SYMMETRY CallSymmetry
INVARIANTS
    FramesIntact
    ResponseMatched
    HandlerWaits
    PromiseSetOnce
CHECK_DEADLOCK FALSE
