\* Every protocol of the library, and chains of two, on both transports.
CONSTANTS
    Peers = {p}
    Chains <- AllChains
    Transports = {"stream", "datagram"}
    Sizes = {0, 3}
    SegBytes = 4
    BufSize = 5
    MaxInstances = 2
    MaxSends = 2
    MaxDatagrams = 3
    Nobody = Nobody
SPECIFICATION Spec
INVARIANTS
    TypeOK
    RoundTrip
    ShownOnce
    ChainsCounted
CHECK_DEADLOCK FALSE
