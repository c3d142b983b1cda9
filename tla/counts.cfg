SPECIFICATION Spec
CONSTANTS
    Ids = {t1}
    Procs = {p1, p2}
    Ops = {"create", "delete", "count"}
    MaxVer = 3
    MaxGens = 0
    RedisFails = TRUE
    Resends = TRUE
    LockEvictable = FALSE
SYMMETRY ProcSymmetry
INVARIANTS
    
    OneCounterAtATime
