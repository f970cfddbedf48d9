SPECIFICATION MCSpec
CONSTANTS
    Nodes = {"s", "a", "d"}
    e1 = e1
    e2 = e2
    e3 = e3
    e4 = e4
    Epochs = {e1, e2, e3, e4}
    Graph <- MCGraph
    Paths <- MCPaths
    PathIds = {1}
    MaxRelayHops = 2
    Grace = 1
    MaxRetained = 2
    FirstEpoch = e3
    MaxSequence = 1
    MaxTime = 1
    MaxUpdates <- MCMaxUpdates
    Capacity = 1
    Words = 1
    WordBits = 2
    Peers = {"p", "q"}
    Pinnable = {"p"}
    c1 = c1
    c2 = c2
    c3 = c3
    Cidrs = {c1, c2, c3}
    RouteOwner <- MCOwner
    Maps <- MCMaps
    NoMap = NoMap
    MigrationGrace = 1
    MaxTopologies = 1
    IdleTimeout = 1
    MaxRoutes = 1
    MaxNodeRoutes = 1
SYMMETRY Interchangeable
INVARIANTS
    EveryEdgeValidated
    NothingAcceptedTwice
    GraceHonoured
    ReplayStateBounded
    LeasesBounded
    LeasesOfCurrentRouting
    SnapshotCoherent
CHECK_DEADLOCK FALSE
