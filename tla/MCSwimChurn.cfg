SPECIFICATION Spec
CONSTANTS
    n1 = n1
    n2 = n2
    n3 = n3
    Node = {n1, n2, n3}
    None = None
    Prober = {n1}
    FirstNonce <- SameNonces
    Fanout = 1
    RelayCap = 1
    RingCap = 2
    PiggybackMax = 1
    Prompt = FALSE
    NonceSpan = 1
    RecycleNonce = FALSE
    MaxInc = 2
    MaxInFlight = 3
    MaxLoss = 0
    MaxCrash = 1
    MaxRestart = 1
SYMMETRY BystanderSymmetry
INVARIANTS
    TypeOK
    NeverOwnMember
    GossipHeldTrue
PROPERTIES
    TablesOnlyRise
    ConfirmNeedsSuspicion
