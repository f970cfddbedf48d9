SPECIFICATION Spec
CONSTANTS
    MaxSends = 2
    Peers = {"d"}
    Paths <- MCPaths
    AckTimeout = 1
    MaxTimeoutHops = 1
    Backoff = 1
    MaxPending = 1
    MaxInFlight = 2
    MaxPrimary = 1
    QueueCapacity = 1
    MaxU64 = 3
    FirstSequences = {0}
    MaxRestarts = 1
    MaxUpdates = 1
INVARIANTS
    SuccessMeansInjected
PROPERTIES
    CapacityRefusalsGenuine
    SendsComplete
CHECK_DEADLOCK FALSE
