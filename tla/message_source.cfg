\* Two connections of a server, each with its receiver; the configured protocol.
CONSTANTS
    Peers = {p, q}
    Chains <- OneChain
    Transports = {"stream"}
    Sizes = {2}
    SegBytes = 5
    BufSize = 6
    MaxInstances = 1
    MaxSends = 1
    MaxDatagrams = 1
    Nobody = Nobody
SPECIFICATION Spec
SYMMETRY Symmetry
INVARIANTS
    SourceIsSender
CHECK_DEADLOCK FALSE
