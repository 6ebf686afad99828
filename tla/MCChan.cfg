SPECIFICATION ChanSpec
CONSTANTS
    Threads = {t1, t2, t3}
    Values = {a, b}
    MaxQueue = 3
INVARIANTS
    TakersAreWoken
PROPERTIES
    CloseReleasesTakers
    ImplementsChannel
