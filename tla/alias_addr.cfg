CONSTANTS
    px = px
    py = py
    da = da
    t1 = t1
    t2 = t2
    t3 = t3
    Threads <- ThreeThreads
    MaxReaders = 2
    Paths = {px, py}
    Addrs = {da}
    Calls <- SharedCalls
    None = None
SPECIFICATION Spec
INVARIANTS
    StateIsHolders
    NobodyForgotten
    MapsInverse
PROPERTIES
    ImplementsRWLock
    ImplementsAddressBook
    QueuedWriterGetsIn
CHECK_DEADLOCK FALSE
