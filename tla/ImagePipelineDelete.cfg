SPECIFICATION FairSpec
CONSTANTS
    Images = {i1}
    Corrupt = {}
    Thumbs = {}
    Sized = {}
    Deletes = {d1}
    Workers = {w1}
    MaxCrashes = 0
    MaxErrors = 0
    i1 = i1
    i2 = i2
    d1 = d1
    w1 = w1
    w2 = w2
CHECK_DEADLOCK FALSE
INVARIANT
    DeletedLeavesNoFile
