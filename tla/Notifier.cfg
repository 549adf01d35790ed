SPECIFICATION FairSpec
CONSTANTS
    Ids = {n1, n2}
    Millisecond = 2
    MaxDelay = 3
    Backoff = 2
    MaxTries = 2
    MaxLosses = 1
    MaxCrashes = 1
    n1 = n1
    n2 = n2
INVARIANTS
    TypeOK
    ExactlyOnePlace
    AtMostOncePerLoss
PROPERTIES
    NeverEarlyByAMillisecond
    QuietCancelHolds
    AcceptedIsResolved
