SPECIFICATION CooperativeSpec
CONSTANTS
    ReqCalls = {c1}
    EvtCalls = {}
    PeerRequests = {}
    PeerEvents = {}
    Commands = {}
    EventNames = {}
    HasFields = {}
    SeqMod = 8
    Transports = {"pipe"}
    InvalidDataModes = {}
    None = None
    NotSent = NotSent
    Bodies = {}
    Forms = {"ok", "bad"}
    MaxAnswers = 1
    MaxGarbage = 0
    MaxUnread = 1
PROPERTY
    FutureIsAssigned
CHECK_DEADLOCK FALSE
