SPECIFICATION Spec
CONSTANTS
    Nodes = {"s", "a", "d"}
    e1 = e1
    e2 = e2
    e3 = e3
    e4 = e4
    Epochs = {e1, e2, e3, e4}
    Graph <- MCGraph
    Paths <- MCPaths
    PathIds = {1}
    MaxRelayHops = 2
    Grace = 1
    MaxRetained = 2
    FirstEpoch = e3
    MaxSequence = 1
    MaxTime = 1
    MaxUpdates <- MCMaxUpdates
    Capacity = 1
    Words = 1
    WordBits = 2
INVARIANTS
    OnePreviousGraph
CHECK_DEADLOCK FALSE
