\* Unix sockets: a nameless peer, bind and std::thread may fail.
CONSTANTS
    Peers = {p, n}
    Apps = {a}
    Acceptor = acc
    Receivers = {r1, r2}
    Conns = {c1, c2}
    Fds = {f1, f2}
    KnownPeers = {p}
    Nameless = {n}
    ClientMode = FALSE
    SelfFd = f1
    Uds = TRUE
    ThreadsMayFail = TRUE
    HandlersMayThrow = TRUE
    NoPeer = NoPeer
    NoFd = NoFd
    NoConn = NoConn
    NoRcv = NoRcv
SPECIFICATION Spec
SYMMETRY Symmetry
INVARIANTS
    MapsAgree
    OneReceiverPerPeer
    ToldInTurn
    ListedIsServed
    EntryIsOpen
    InsertFailsOnlyOnReuse
CHECK_DEADLOCK FALSE
