SPECIFICATION Spec
CONSTANTS
    config = config
    tabs = tabs
    Targets = {config, tabs}
    Invokers = {p1}
    Plans <- MCPlans
    Good = Good
    Nothing = Nothing
    MaxOps = 3
    MaxEdits = 2
    MaxFaults = 1
    MaxCrashes = 1
INVARIANTS
    NothingLost
    BackupsAreSound
    JournalSettles
PROPERTY UndoRestores
CHECK_DEADLOCK FALSE
