SPECIFICATION Spec
CONSTANTS
    Ids = {t1}
    Procs = {p1, p2}
    Ops = {"delete", "get"}
    MaxVer = 2
    MaxGens = 0
    RedisFails = FALSE
    Resends = FALSE
    LockEvictable = FALSE
SYMMETRY ProcSymmetry
INVARIANT
    DeletedTaskIsMissing
