SPECIFICATION FairSpec
CONSTANTS
    NFiles = 2
    Contents = {a, b}
    Absent = Absent
    MaxTx = 1
    MaxTurns = 1
    MaxReopens = 1
    MaxCrashes = 1
    MaxFaults = 1
    MaxEdits = 1
PROPERTIES
    AllOrNothing
    OperationsEnd
CHECK_DEADLOCK FALSE
