SPECIFICATION Spec
CONSTANTS
    n1 = n1
    n2 = n2
    n3 = n3
    Node = {n1, n2, n3}
    None = None
    Prober = {n1, n2}
    FirstNonce <- SameNonces
    Fanout = 1
    RelayCap = 1
    RingCap = 2
    PiggybackMax = 1
    Prompt = TRUE
    NonceSpan = 3
    RecycleNonce = FALSE
    MaxInc = 0
    MaxInFlight = 5
    MaxLoss = 1
    MaxCrash = 0
    MaxRestart = 0
PROPERTIES
    LossNeverSuspects
    OwnEvidenceGenuine
