SPECIFICATION FairSpec
CONSTANTS
    Ids = {a, b}
    None = None
    MaxChanges = 3
    MaxBreaks = 1
    MaxWire = 2
PROPERTIES
    Converges
CHECK_DEADLOCK FALSE
