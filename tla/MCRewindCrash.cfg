SPECIFICATION Spec
CONSTANTS
    NFiles = 2
    Contents = {a, b}
    Absent = Absent
    MaxTx = 2
    MaxTurns = 2
    MaxReopens = 0
    MaxCrashes = 1
    MaxFaults = 0
    MaxEdits = 0
SYMMETRY Symmetry
INVARIANTS
    ManifestsAreSound
PROPERTIES
    AllOrNothing
    RecoverySettles
CHECK_DEADLOCK FALSE
