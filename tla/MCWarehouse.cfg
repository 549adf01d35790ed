SPECIFICATION Spec
CONSTANTS
    Requests = {q1, q2}
    Tokens <- MCTokens
    Skus = {a, b}
    None = None
    MaxItems = 2
    MaxChanges = 4
    MaxTime = 1
SYMMETRY Symmetry
INVARIANTS
    TypeOK
    SkusAreUnique
    HistoryExplainsTable
    ShownInOrder
    NobodyIsStuck
PROPERTY AuditedSpec
CHECK_DEADLOCK FALSE
