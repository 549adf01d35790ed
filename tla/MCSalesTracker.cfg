SPECIFICATION Spec
CONSTANTS
    Rows <- MCRows
    Queries <- MCQueries
    None = None
    csvPageSize = 2
    defaultLimit = 2
    MaxId = 4
    MaxDrift = 3
INVARIANTS
    TypeOK
    PagesMakeTheResult
    DriftExplainsPages
    ExportAddsUp
CHECK_DEADLOCK FALSE
