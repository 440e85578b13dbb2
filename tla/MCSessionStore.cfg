SPECIFICATION FairSpec
CONSTANTS
    Runtimes = {r1, r2}
    MaxMessages = 3
    Calls = {2}
    MaxRewrites = 1
    MaxDepth = 1
    MaxFaults = 1
    Faulty = {r2}
    Nothing = Nothing
PROPERTY SavesConverge
INVARIANTS
    SavesAreKept
    NoResurrection
    ConflictIsForeign
CHECK_DEADLOCK FALSE
