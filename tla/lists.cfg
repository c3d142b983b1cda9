SPECIFICATION FairSpec
CONSTANTS
    Ids = {t1}
    Procs = {p1, p2}
    Ops = {"update", "list"}
    MaxVer = 2
    MaxGens = 2
    RedisFails = TRUE
    Resends = FALSE
    LockEvictable = TRUE
INVARIANTS
    TypeOK
    
    ListInv
PROPERTIES
    
    CachesConverge
