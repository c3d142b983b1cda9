SPECIFICATION FairSpec
CONSTANTS
    MaxId = 3
    Clients = {c1}
    DefaultLimit = 1
    MaxLimit = 2
    Limits = {0, 9}
    Filters = {"any", "pending"}
    MaxWrites = 2
INVARIANTS
    TypeOK
    WalkMissesNothing
    HasMoreIsExact
PROPERTIES
    PagesDescend
    WalkEnds
CHECK_DEADLOCK FALSE
