SPECIFICATION Spec
CONSTANTS
    MaxId = 2
    MaxWalkId = 1
    MaxTime = 2
    MaxLimit = 1
    DefaultDepth = 3
INVARIANT
    CommentsAreTrees
CHECK_DEADLOCK FALSE
