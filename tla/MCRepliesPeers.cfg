SPECIFICATION RepliesSpec
CONSTANTS
    Home = here
    Peers = {peer}
    Ids = {a, b}
    Calls = {c}
    MaxMsg = 2
    Disorder = {}
SYMMETRY Symmetry
INVARIANTS
    RepliesTypeOK
    Kept
    NoPhantom
CHECK_DEADLOCK FALSE
