SPECIFICATION FairSpec
CONSTANTS
    Ids = {a}
    Panes = {p, q}
    Sids = {s, t}
    Dirs = {d}
    Workers = {v, w}
    None = None
    MaxInc = 2
PROPERTIES
    FlowsEnd
CHECK_DEADLOCK FALSE
