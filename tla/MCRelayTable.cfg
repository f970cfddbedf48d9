SPECIFICATION TableSpec
CONSTANTS
    Nodes = {n1, n2}
    Addrs <- MCAddrs
    Indices = {1, 2, 3}
    PayloadLens = {1}
    SessionTtl = 2
    Second = 1
    RateLimit = 1
    MaxIndices = 2
    NoSession = NoSession
    NoIndex = NoIndex
    NoSide = NoSide
    NoRoute = NoRoute
    MaxTime = 2
    MaxTokens = 2
INVARIANTS
    RateBound
    RoutesMirrorIndices
    AddressProvenance
    CredentialsHonoured
SYMMETRY Symmetry
CHECK_DEADLOCK FALSE
