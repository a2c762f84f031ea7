SPECIFICATION Spec
CONSTANTS
    n1 = n1
    n2 = n2
    n3 = n3
    Node = {n1, n2, n3}
    None = None
    Prober = {n1, n2, n3}
    FirstNonce <- SameNonces
    Fanout = 1
    RelayCap = 1
    RingCap = 2
    PiggybackMax = 1
    Prompt = TRUE
    NonceSpan = 2
    RecycleNonce = FALSE
    MaxInc = 1
    MaxInFlight = 5
    MaxLoss = 1
    MaxCrash = 0
    MaxRestart = 0
PROPERTIES
    EvidenceGenuine
