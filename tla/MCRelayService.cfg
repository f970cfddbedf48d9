SPECIFICATION ServiceSpec
CONSTANTS
    Nodes = {n1, n2, n3, n4}
    Addrs <- MCAddrs
    Indices = {}
    PayloadLens = {}
    SessionTtl = 2
    Second = 1
    RateLimit = 0
    MaxIndices = 1
    NoSession = NoSession
    NoIndex = NoIndex
    NoSide = NoSide
    NoRoute = NoRoute
    MaxTime = 2
    MaxTokens = 4
    Calls = {c1, c2}
    Eligible = TRUE
    MaxSessions = 3
    NodeLimit = 2
    AttemptLimit = 2
    AttemptWindow = 1
    MaxAttempts = 4
INVARIANTS
    NodeLimitRespected
    AdmissionRateBound
    CapacityRespected
    ReportedLoadCovers
SYMMETRY Symmetry
CONSTRAINT AddressesFixed
