SPECIFICATION Spec
CONSTANTS
    NFiles = 2
    Contents = {a, b}
    Absent = Absent
    MaxTx = 2
    MaxTurns = 2
    MaxReopens = 0
    MaxCrashes = 0
    MaxFaults = 1
    MaxEdits = 0
SYMMETRY Symmetry
INVARIANTS
    UndoIsCurrent
PROPERTIES
    ImplementsAtomicRewind
CHECK_DEADLOCK FALSE
