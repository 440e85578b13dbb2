CONSTANTS
    Files = {f1}
    Foreground = {t1}
    Background = {}
    RetainN = 1
    BlobQuota = 2
    MaxTurns = 3
    MaxWrites = 2
    MaxEdits = 1
    MaxFaults = 0
    MaxCrashes = 0
SPECIFICATION Spec
INVARIANTS RewindIsExact CompleteIsComplete PayloadsKept
CHECK_DEADLOCK FALSE
