SPECIFICATION FairSpec
CONSTANTS
    Tools = {t1}
    Subs = {s1, s2}
    Rewinders = {r1, r2}
    MaxNest = 2
    MaxVersion = 1
    MaxStarts = 4
INVARIANTS
    MutualExclusion
    WritersCounted
    CommitIsFresh
PROPERTY WritersEnter
CHECK_DEADLOCK FALSE
