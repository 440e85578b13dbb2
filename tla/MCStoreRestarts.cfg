CONSTANTS
    Files = {f1}
    Foreground = {t1}
    Background = {b1}
    RetainN = 2
    BlobQuota = 9
    MaxTurns = 2
    MaxWrites = 1
    MaxEdits = 1
    MaxFaults = 1
    MaxCrashes = 1
SPECIFICATION Spec
INVARIANTS RevertSeesManualEdits NumbersAreFresh
CHECK_DEADLOCK FALSE
