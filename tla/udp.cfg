\* Two application threads against the receiver.
CONSTANTS
    p = p
    c = c
    pp = pp
    cc = cc
    x = x
    Addrs <- TwoAddrs
    Paths <- ThreePaths
    AddrOf <- AddrOfPath
    OwnName <- OwnNames
    KnownPaths <- FilePaths
    Nameless = {n}
    Apps = {a, b}
    Receiver = rcv
    HandlerMayThrow = TRUE
    NoPath = NoPath
SPECIFICATION Spec
INVARIANTS
    TypeOK
    NamesAgree
    EveryChangeTold
CHECK_DEADLOCK FALSE
