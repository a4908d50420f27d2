SPECIFICATION Spec
CONSTANTS
    Names = {n, m}
    Asks = {c, d}
    Hooks = {h, g}
    Posts = {}
    None = None
    MaxInc = 2
    MaxBox = 2
    MaxRenames = 1
    MaxTurns = 0
SYMMETRY Symmetry
INVARIANTS
    SaidOnce
CHECK_DEADLOCK FALSE
