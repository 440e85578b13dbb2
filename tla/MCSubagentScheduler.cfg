SPECIFICATION FairSpec
CONSTANTS
    a1 = a1
    a2 = a2
    a3 = a3
    n1 = n1
    Agents = {a1, a2, a3, n1}
    Writes = {w1}
    Paths = {p1, p2}
    NoAgent = NoAgent
    Requester <- MCRequester
    MaxTotal = 2
    MaxWriters = 2
INVARIANTS
    AccountsAgree
    WritersApart
    NothingCouldStart
PROPERTIES
    QueueDrains
CHECK_DEADLOCK FALSE
