SPECIFICATION FairSpec
CONSTANTS
    Images = {i1, i2}
    Corrupt = {i2}
    Thumbs = {i1}
    Sized = {i1}
    Deletes = {}
    Workers = {w1, w2}
    MaxCrashes = 2
    MaxErrors = 0
    i1 = i1
    i2 = i2
    w1 = w1
    w2 = w2
PROPERTY
    AcceptedIsSettled
CHECK_DEADLOCK FALSE
