SPECIFICATION FairSpec
CONSTANTS
    Sends = {1, 2}
    Syncs = {3}
    Steers = {s1}
    Prompts = {p1, p2}
    Asks = {p1}
    Rotators = {x1}
    Stops = {c1}
    Closer = closer
    MaxRuns = 1
    None = None
INVARIANTS TurnsAreOrderly SteersAreTaken PromptsUnblock
PROPERTIES TurnsBeginInOrder TurnsMoveOn
CHECK_DEADLOCK FALSE
