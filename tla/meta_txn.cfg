SPECIFICATION TxnSpec
CONSTANTS
    CacheNames <- MCNames
    CacheInodes <- MCInodes
    MaxDepth = 2
    MaxEntries = 2
    Txns = {t1, t2}
    Ops = {o1, o2}
    Resolvers = {r1}
    Targets <- MCTargets
    InitRows <- MCRows
    ResolvePaths <- MCPaths
    Budgets <- MCBudgets
INVARIANTS BooksKept Isolated CacheFresh
PROPERTIES LockFreed
CHECK_DEADLOCK FALSE
