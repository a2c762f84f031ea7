SPECIFICATION Spec
CONSTANTS
    Peer = {p, q}
    Addr = {a, b}
    NoAddr = NoAddr
    MaxMembers = 1
    MaxInc = 2
SYMMETRY Symmetry
INVARIANTS
    RowIsStrongestClaim
    ContactSound
    WithinCapacity
PROPERTIES
    KnowledgeOnlyGrows
    AddressKept
    AuthenticatedStands
