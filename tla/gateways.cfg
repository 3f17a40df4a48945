SPECIFICATION GatewaysSpec
CONSTANTS
    Callers = {"a", "b"}
    ChunkSize = 2
    Buf = 1
    MaxCalls = 2
    MaxTrouble = 1
    Uploads <- MCUploads
    Quota = 2
    Patches = {1, 2}
    MaxSessions = 2
    MaxPatches = 2
    MaxFaults = 1
    Clients = {c1, c2}
    Stagers = {}
    Handles = {h1, h2}
    LeaseTTL = 1
    DirectLimit = 0
    MaxTime = 3
    MaxFlush = 0
    MaxSeq = 2
    None = None
INVARIANTS RemoteTrue CompleteExact UploadBooks
PROPERTIES CallEnds StuckClears LeaseLapses
CHECK_DEADLOCK FALSE
