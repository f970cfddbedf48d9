SPECIFICATION MCSpec
CONSTANTS
    ReplayKeys <- MCKeys
    Capacity = 2
    Words = 2
    WordBits = 2
    MaxSequence = 4
    Sources = {"n1", "n2"}
    Frames <- MCFrames
    Damaged <- MCDamaged
    FragmentBytes = 2
    DatagramBytes = 3
    FrameBytes = 5
    MaxFrames = 2
    Timeout = 1
    Slots = {o1, o2, o3}
    Scopes = {s1, s2, s3}
    Objects = {1, 2, 3, 4, 5, 6}
    Maximum = 2
    Permits = 2
    Idle = 1
    Lifetime = 2
    ObservedFor = 2
SYMMETRY SymmetricTunnels
INVARIANTS
    WindowExact
    RecencyTracksKeys
    ReassemblyFaithful
    ReservationExact
    HubWithinLimits
    ObservationOwned
PROPERTIES
    ImplementsReplayCache
CHECK_DEADLOCK FALSE
