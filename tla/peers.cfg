CONSTANTS
    t1 = t1
    t2 = t2
    Peers <- TwoPeers
    Mine <- TwoProviders
    Apps <- AllApps
    AppOf <- AppOfPath
    Threads <- TwoThreads
    Owner <- Owners
    Files <- AllFiles
    FilePaths <- AllWritten
    NoPath = NoPath
    Places <- AllPlaces
    MaxDepth = 2
SPECIFICATION TableSpec
INVARIANTS
    KeyHasEntry
    ListedOnce
    LoadedWhole
    ConfiguredStays
PROPERTY
    ImplementsConnections
CHECK_DEADLOCK FALSE
