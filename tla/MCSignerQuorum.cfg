SPECIFICATION SignerSpec
CONSTANTS
    a = a
    b = b
    c = c
    r1 = r1
    r2 = r2
    NoTarget = NoTarget
    Nodes = {a, b, c}
    Manifests <- MCManifests
    Roster <- MCRoster
    RotationAnchor <- MCAnchor
    RequestIds = {r1, r2}
    Claims <- MCClaims
    Transitions <- MCTransitions
    MaxTtl = 2
    Skew = 1
    PendingTtl = 2
    MaxPending = 1
    MaxNonces = 3
    MaxTime = 3
INVARIANTS NonceSignsOnce MajorityApproved
PROPERTIES ImplementsIssuance
