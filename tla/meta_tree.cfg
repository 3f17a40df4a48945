SPECIFICATION Spec
CONSTANTS
    Names <- MCNames
    MaxInode = 6
    Clients = {c1, c2}
    Movers = {c1}
    Calls <- MCCalls
    Files <- MCFiles
    BaseDir <- MCBaseDir
    Paths <- MCPaths
    InitTrees <- MCInitTrees
    MaxOps = 3
INVARIANTS RecordsAgree Acyclic MoveSeesItsPlan
CHECK_DEADLOCK FALSE
