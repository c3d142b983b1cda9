SPECIFICATION FairSpec
CONSTANT
    Requests = {r1, r2}
INVARIANTS
    TypeOK
    CleanExitServedAll
    FailureIsReported
    StaleOnlyPastDeadline
    
    EveryKeyExpires
PROPERTY
    RunEnds
CHECK_DEADLOCK FALSE
