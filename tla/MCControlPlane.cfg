SPECIFICATION Spec
CONSTANTS
    p1 = p1
    p2 = p2
    x = x
    y = y
    NoPolicy = NoPolicy
    NoSnapshot = NoSnapshot
    NoRoutes = NoRoutes
    NoNode = NoNode
    Requests <- MCRequests
    Workloads <- MCWorkloads
    Planes = {p1, p2}
    Hosts = 2
    UniqueIndex = TRUE
    DefaultPolicy <- Open
    MaxScopes = 1
    JoinTries = 3
    PolicyTries = 3
    SparseAttempts = 1
INVARIANTS
    LeasesDistinct
    RoutesWithinScopes
    RoutesAuthorised
PROPERTIES
    CatalogWithinLimit
    SignaturesAdvance
    RevocationFinal
    AnswersConsistent
CHECK_DEADLOCK FALSE
