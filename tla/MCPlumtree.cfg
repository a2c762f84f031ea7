SPECIFICATION FairSpec
CONSTANTS
    Node = {n1, n2, n3}
    n1 = n1
    n2 = n2
    n3 = n3
    SeenSize = 2
    CacheSize = 2
    MaxMissing = 1
    MaxAsked = 1
    MaxPending = 2
    MaxIds = 1
    Publisher = {n1}
    MaxPublish = 2
    MaxFaults = 2
INVARIANTS
    TypeOK
PROPERTIES
    BroadcastPromise
    Repaired
