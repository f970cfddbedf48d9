SPECIFICATION Spec
CONSTANTS
    h1 = h1
    h2 = h2
    r1 = r1
    r2 = r2
    r3 = r3
    NoTarget = NoTarget
    NoAnchor = NoAnchor
    NoRequest = NoRequest
    Manifests <- MCManifests
    RequestIds = {r1, r2, r3}
    Claims <- MCClaims
    Transitions = {}
    Handlers = {h1, h2}
    LegacyHandlers = {}
    MaxTtl = 2
    Skew = 1
    Grace = 4
    MaxRecords = 3
    MaxTime = 7
SYMMETRY Symmetry
INVARIANTS ExecutedAtMostOnce
PROPERTIES RevocationEffective
