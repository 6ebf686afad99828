SPECIFICATION Spec
CONSTANTS
    Threads = {t1, t2, acceptor}
    Fds = {1, 2}
    InvalidSocket = InvalidSocket
    WriteSize = 2
    MaxArrivals = 1
    Room = 1
    Acceptor = acceptor
    None = None
    Timeouts = {0, 3, 5}
    MilliMicros = 4
    SecondMicros = 8
    UintMod = 16
    MaxCalls = 3
INVARIANTS
    OwnDescriptor
    NothingLeaks
    TimeoutIsExact
    QuietAfterStop
PROPERTIES
    NothingAfterTruncation
    NoErrorFromStop
    CallsReturn
CHECK_DEADLOCK FALSE
