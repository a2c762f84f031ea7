SPECIFICATION FairSpec
CONSTANTS
    n1 = n1
    n2 = n2
    n3 = n3
    Node = {n1, n2, n3}
    None = None
    Prober = {n1}
    FirstNonce <- SameNonces
    Fanout = 1
    RelayCap = 1
    RingCap = 1
    PiggybackMax = 1
    Prompt = TRUE
    NonceSpan = 1
    RecycleNonce = TRUE
    MaxInc = 4
    MaxInFlight = 2
    MaxLoss = 1
    MaxCrash = 1
    MaxRestart = 0
PROPERTIES
    LivePeersHeldAlive
    DownPeersHeldDead
