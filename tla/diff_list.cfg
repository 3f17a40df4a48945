SPECIFICATION DiffSpec
CONSTANTS
    Bases <- MCBases
    Fixed = {0, 2}
    MaxWrites = 4
    MaxLen = 3
    MaxPolls = 4
INVARIANTS WriterSound ReopenSafe ReaderExact
CHECK_DEADLOCK FALSE
