SPECIFICATION FairSpec
CONSTANTS
    MaxJobs = 2
    MaxManagers = 3
    MaxSessions = 2
    Callers = {c1, c2}
    Limit = 1
    Scales <- MCScales
    None = None
INVARIANTS
    EvidenceIsReviewed
    TableIsTrue
    NotesAreTrue
PROPERTIES
    DestroyEnds
CHECK_DEADLOCK FALSE
