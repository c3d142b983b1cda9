SPECIFICATION Spec
CONSTANTS
    Operators = {o1, o2}
    Last = 2
INVARIANTS
    TypeOK
    CleanSchemaIsTrue
    DownUndoesOne
    QuietReportIsTrue
PROPERTY
    FailedMigrationStopsTheRest
