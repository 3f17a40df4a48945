SPECIFICATION Spec
CONSTANTS
    Names <- MCNames
    MaxInode = 6
    Clients = {c1, c2}
    Movers = {c1, c2}
    Calls = {}
    Files <- MCFiles
    BaseDir <- MCBaseDir
    Paths <- DeepPaths
    InitTrees <- MCTwoDirs
    MaxOps = 2
CHECK_DEADLOCK FALSE
INVARIANT Acyclic
