\* A client: two application threads, the one socket, under fairness.
CONSTANTS
    Peers = {p, q}
    Apps = {a, b}
    Acceptor = acc
    Receivers = {r1}
    Conns = {c1, c2}
    Fds = {f1}
    KnownPeers = {p, q}
    Nameless = {}
    ClientMode = TRUE
    SelfFd = f1
    Uds = FALSE
    ThreadsMayFail = TRUE
    HandlersMayThrow = TRUE
    NoPeer = NoPeer
    NoFd = NoFd
    NoConn = NoConn
    NoRcv = NoRcv
SPECIFICATION FairSpec
PROPERTY EndIsNoticed
CHECK_DEADLOCK FALSE
