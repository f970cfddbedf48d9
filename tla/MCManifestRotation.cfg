SPECIFICATION Spec
CONSTANTS
    h1 = h1
    h2 = h2
    l1 = l1
    r1 = r1
    r2 = r2
    r3 = r3
    NoTarget = NoTarget
    NoAnchor = NoAnchor
    NoRequest = NoRequest
    Manifests <- MCManifests
    RequestIds = {r1, r2, r3}
    Claims <- MCClaims
    Transitions <- MCTransitions
    Handlers = {h1, h2}
    LegacyHandlers = {l1}
    MaxTtl = 2
    Skew = 0
    Grace = 1
    MaxRecords = 1
    MaxTime = 3
SYMMETRY Symmetry
INVARIANTS OneManifestChain LegacyClosedAfterActivation
PROPERTIES SupersededNeverConsumed
