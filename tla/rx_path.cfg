SPECIFICATION RxSpec
CONSTANTS
    Rcv = Rcv
    o = o
    l1 = l1
    n0 = n0
    n1 = n1
    Producers <- TwoProducers
    Loopers <- OneLooper
    InitLoopers <- OneLooper
    Lpr = l1
    RunImmediately <- Never
    MaxJobs = 2
    JobsMayThrow = TRUE
    NoJob = NoJob
    NoLooper = NoLooper
    Names <- TwoNames
    FirstName = n0
    HandlersMayThrow = TRUE
    NoName = NoName
INVARIANTS
    DeliveredInOrder
    OneName
    CleanEnd
    ChainsComeBack
PROPERTIES
    ImplementsPeerSession
    MessageReachesApp
CHECK_DEADLOCK FALSE
