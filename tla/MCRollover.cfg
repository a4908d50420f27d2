SPECIFICATION Spec
CONSTANTS
    Runs = {r1, r2}
    Tokens = {t, u}
    None = None
    TTL = 1
    MaxInc = 3
    MaxTime = 2
SYMMETRY Symmetry
INVARIANTS
    AdoptedOnce
    TokenKept
CHECK_DEADLOCK FALSE
