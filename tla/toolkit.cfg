SPECIFICATION ToolkitSpec
CONSTANTS
    Files = {"F", "G"}
    Lists = {"L"}
    MaxPulls = 2
    MaxMishaps = 2
    Content <- MCContent
    Members <- MCMembers
    Plain = {"p"}
    Inside = {"i"}
    Contents = {"x", "y", "z", "s"}
    Writes = {"x", "y", "s"}
    InitFiles <- MCFiles
    MaxEdits = 2
    MaxDirFaults = 1
    Quick <- MCQuick
    Bytes <- MCBytes
    Mix <- MCMix
INVARIANTS PulledExact  ServedTrue 
PROPERTIES Settles
CHECK_DEADLOCK FALSE
