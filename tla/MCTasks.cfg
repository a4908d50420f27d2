SPECIFICATION FairSpec
CONSTANTS
    Ids = {a, b}
    Triggers = {t}
    Tick = Tick
    MaxRuns = 2
INVARIANTS
    TasksTypeOK
    CountsRuns
    DisabledStops
PROPERTIES
    GoneStaysGone
    DueFires
