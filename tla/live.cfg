SPECIFICATION FairSpec
CONSTANTS
    Ids = {t1}
    Procs = {p1, p2}
    Ops = {"delete", "get", "count"}
    MaxVer = 2
    MaxGens = 0
    RedisFails = FALSE
    Resends = TRUE
    LockEvictable = TRUE
PROPERTIES
    EveryCallReturns
    CachesConverge
