SPECIFICATION Spec
CONSTANTS
    Refreshers = {r1}
    Writers = {w1}
    LockTTL = 2
    CountTTL = 3
    CountTimeout = 1
    InvalidationTimeout = 3
    Interval = 3
    MaxDelay = 1
    MaxWrites = 1
INVARIANTS
    TypeOK
    LockOutlivesCount
    LockedCountIsCurrent
    GaugeLagsByAnInterval
    GaugeLagsByTTL
