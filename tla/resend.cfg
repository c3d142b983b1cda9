SPECIFICATION Spec
CONSTANTS
    Ids = {t1}
    Procs = {p1, p2}
    Ops = {"update", "list"}
    MaxVer = 3
    MaxGens = 0
    RedisFails = FALSE
    Resends = TRUE
    LockEvictable = FALSE
SYMMETRY ProcSymmetry
PROPERTY
    NoLaterReadUsesPreviousToken
