SPECIFICATION GatewaysSpec
CONSTANTS
    Callers = {"a", "b"}
    ChunkSize = 2
    Buf = 1
    MaxCalls = 0
    MaxTrouble = 1
    Uploads <- MCUploads
    Quota = 2
    Patches = {1, 2}
    MaxSessions = 2
    MaxPatches = 3
    MaxFaults = 0
    Clients = {c1}
    Stagers = {}
    Handles = {h1, h2}
    LeaseTTL = 1
    DirectLimit = 0
    MaxTime = 1
    MaxFlush = 0
    MaxSeq = 2
    None = None
INVARIANT NoPanic
CHECK_DEADLOCK FALSE
