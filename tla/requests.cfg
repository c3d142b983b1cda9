SPECIFICATION Spec
CONSTANTS
    Requests = {r1, r2}
    Ids = {1}
SYMMETRY Symmetry
INVARIANTS
    TypeOK
    StatusTellsWhatHappened
    
    RowsAreValid
    
PROPERTY
    DeletedForGood
CHECK_DEADLOCK FALSE
