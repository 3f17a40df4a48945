SPECIFICATION MCSpec
CONSTANTS
    Obj <- Files
    Chunk = {"chunk"}
    Child <- FilesChild
    Home <- FilesHome
    Bucket = {"b1"}
    Owner = {"w1", "w2"}
    Inode = {1}
    Tag = {1, 2}
    BatchSize = 2
    Roots = {"file"}
    MCScope = {"recursive", "skeleton", "lease"}
    MCLife = {"forever", "ttl"}
    MaxOps = 4
    MaxFaults = 0
    Removals = TRUE
INVARIANTS TypeOK RootsInv CascadesExact
CHECK_DEADLOCK FALSE
