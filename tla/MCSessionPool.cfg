SPECIFICATION Spec
CONSTANTS
    Peer = {p1, p2}
    Sess = {s1, s2}
    Addr = {a1, a2}
    None = None
    Stranger = Stranger
    MaxPeers = 1
    RetryInitial = 1
    RetryMax = 2
    DialTimeout = 1
    IdleTimeout = 2
    MaxStep = 1
SYMMETRY Interchange
INVARIANTS
    TypeOK
    NoSessionLeaked
    OwnedAsDialed
    ReadyIsAuthentic
    NeverSpins
    SleepsSafely
PROPERTIES
    OnlyOwnClosed
    EstablishedKept
    DialsOnlyAlive
