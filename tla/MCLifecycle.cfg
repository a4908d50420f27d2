SPECIFICATION Spec
CONSTANTS
    Ids = {a, b}
    Panes = {p, q}
    Sids = {s, t}
    Dirs = {d}
    None = None
    MaxInc = 3
INVARIANTS
    TypeOK
    LifecycleAuthority
    TokensDistinct
    PaneExclusive
    DormantNotLive
PROPERTIES
    NoTokenReuse
    StoppingFrozen
    LeaseNeverStolen
    PairsStayDistinct
SYMMETRY Symmetry
