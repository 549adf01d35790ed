SPECIFICATION Spec
CONSTANTS
    Ids = {n1}
    Millisecond = 1
    MaxDelay = 0
    Backoff = 1
    MaxTries = 1
    MaxLosses = 0
    MaxCrashes = 0
    n1 = n1
PROPERTY
    CanceledIsNotSent
