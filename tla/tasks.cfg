SPECIFICATION Spec
CONSTANTS
    Ids = {t1}
    Procs = {p1, p2}
    Ops = {"get", "update", "delete", "count"}
    MaxVer = 2
    MaxGens = 0
    RedisFails = TRUE
    Resends = TRUE
    LockEvictable = FALSE
SYMMETRY ProcSymmetry
INVARIANTS
    StaleTaskWasStoredLate

    
