SPECIFICATION MCSpec
CONSTANTS
    Obj <- Dag
    Chunk = {}
    Child <- DagChild
    Home <- DagHome
    Bucket = {"b1"}
    Owner = {"w"}
    Inode = {1}
    Tag = {1}
    BatchSize = 3
    Roots = {"left", "right"}
    MCScope = {"skeleton"}
    MCLife = {"forever"}
    MaxOps = 4
    MaxFaults = 0
    Removals = FALSE
INVARIANTS TreeProtected NoLeak
CHECK_DEADLOCK FALSE
