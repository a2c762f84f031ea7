SPECIFICATION FairSpec
CONSTANTS
    Lower = low
    Higher = high
    Conn = {c1, c2, c3}
    None = None
    MaxFaults = 2
CHECK_DEADLOCK FALSE
INVARIANTS
    OnePerPair
    NodeInformed
PROPERTIES
    Meets
