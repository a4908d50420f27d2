SPECIFICATION RecheckedSpec
CONSTANTS
    Ids = {a}
    Panes = {p, q, r}
    Sids = {s, t}
    Dirs = {d}
    Workers = {v, w}
    None = None
    MaxInc = 3
SYMMETRY Symmetry
INVARIANTS
    NoLeakedLease
    RowMatchesPane
    NoStrandedBackend
CHECK_DEADLOCK FALSE
