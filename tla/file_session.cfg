SPECIFICATION SessionsSpec
CONSTANTS
    Clients = {c1, c2}
    Stagers = {s1}
    Handles = {h1, h2}
    LeaseTTL = 1
    DirectLimit = 0
    MaxTime = 2
    MaxFlush = 1
    MaxSeq = 2
    None = None
    Chunk = {k1, k2}
    Hashable = {k1}
    Proc = {p1, p2, p3}
SYMMETRY Symmetry
INVARIANTS SessionInv BackendInv
PROPERTY ImplementsContract
CHECK_DEADLOCK FALSE
