SPECIFICATION Spec
CONSTANTS
    Locks = {l1, l2, l3, l4}
    None = None
INVARIANTS
    NoLostWakeup
PROPERTIES
    WritersProceed
    ImplementsRWLock
