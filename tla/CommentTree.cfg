SPECIFICATION Spec
CONSTANTS
    MaxId = 4
    MaxWalkId = 3
    MaxTime = 2
    MaxLimit = 2
    DefaultDepth = 2
INVARIANTS
    TypeOK
    RepliesHaveParents
    SubtreeIsExact
    PagesWhileGrowing
CHECK_DEADLOCK FALSE
