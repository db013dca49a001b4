SPECIFICATION FairSpec
CONSTANTS
    MaxRuns = 3
    Users = {u}
    Kinds = {"tcp_server", "tcp_client", "udp", "uds_udp"}
    StartMayFail = TRUE
INVARIANTS
    ToldMeansUsable
    FirstQuitWaits
PROPERTIES
    InitAnswers
    QuitReturns
CHECK_DEADLOCK FALSE
