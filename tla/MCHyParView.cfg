SPECIFICATION FairSpec
CONSTANTS
    Node = {n1, n2, n3}
    n1 = n1
    n2 = n2
    n3 = n3
    Seed = n1
    ActiveMax <- RoomOf
    ActiveMin = 1
    PassiveMax = 1
    MaxProposals = 1
    Ttl = 1
    SampleSize = 2
    MaxAttempts = 1
    MaxHaste = 2
    MaxFaults = 1
INVARIANTS
    TypeOK
    Backed
PROPERTIES
    Heals
