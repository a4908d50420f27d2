SPECIFICATION ExactSpec
CONSTANTS
    Ids = {a}
    Panes = {p, q}
    Sids = {s, t}
    Dirs = {d}
    Workers = {v, w}
    None = None
    MaxInc = 3
SYMMETRY Symmetry
INVARIANTS
    NoLeakedLease
    RowMatchesPane
    NoStrandedBackend
PROPERTIES
    NoForeignKill
    StopMeansDead
    RegistryRefined
CHECK_DEADLOCK FALSE
