SPECIFICATION FairContext
CONSTANTS
    Limit = 2
    Tasks = {t, u}
    MaxTime = 3
    MaxInc = 2
    MaxTurn = 2
    MaxBox = 2
INVARIANTS
    ContextTypeOK
    NoticeOnce
PROPERTIES
    Metered
    NoticeComes
CHECK_DEADLOCK FALSE
