SPECIFICATION FairSpec
CONSTANTS
    Obj <- Chain
    Chunk = {}
    Child <- ChainChild
    Home <- ChainHome
    Bucket = {"b1", "b2"}
    Owner = {"w"}
    Inode = {}
    Tag = {1}
    BatchSize = 2
    Roots = {"root"}
    MCScope = {"recursive"}
    MCLife = {"forever"}
    MaxOps = 3
    MaxFaults = 2
    Removals = FALSE
INVARIANTS LedgerInv QuietProtected
PROPERTIES NeverEvictHeld OutboxDrains
CHECK_DEADLOCK FALSE
