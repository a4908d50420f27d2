SPECIFICATION RepliesSpec
CONSTANTS
    Home = here
    Peers = {}
    Ids = {a, b}
    Calls = {c, d}
    MaxMsg = 3
    Disorder = {}
SYMMETRY Symmetry
INVARIANTS
    Kept
    StaysSettled
PROPERTIES
    ReminderKept
CHECK_DEADLOCK FALSE
