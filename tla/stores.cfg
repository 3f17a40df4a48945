SPECIFICATION StoresSpec
CONSTANTS
    Chunk = {c1}
    Proc = {p1, p2, p3}
    Slots = 5
    Stores = {"s1", "s2"}
    Objs = {"c", "l", "b", "f", "d"}
    Handled = {"c", "f"}
    Holders = {"h"}
    MaxVersions = 2
    MaxCache = 2
    MaxEpoch = 2
    MaxMgrOps = 4
    Kind <- MCKind
    Refs <- MCRefs
    SameAs <- MCSameAs
    Embeds <- MCEmbeds
    Paths <- MCPaths
    Offset <- MCOffset
    Skip <- MCSkip
    Slot <- MCSlot
    Configs <- MCConfigs
INVARIANTS RowHasBlob AckedRecorded MgrInv Found GoneStays StoredMeansAll
CHECK_DEADLOCK FALSE
