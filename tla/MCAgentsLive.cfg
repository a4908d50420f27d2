SPECIFICATION FairSpec
CONSTANTS
    Names = {n, m}
    Asks = {c}
    Hooks = {}
    Posts = {p}
    None = None
    MaxInc = 2
    MaxBox = 1
    MaxRenames = 1
    MaxTurns = 2
INVARIANTS
    QueuedHeld
PROPERTIES
    AsksEnd
CHECK_DEADLOCK FALSE
