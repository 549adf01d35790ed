SPECIFICATION Spec
CONSTANTS
    Images = {i1, i2}
    Corrupt = {}
    Thumbs = {i1, i2}
    Sized = {i1}
    Deletes = {d1, d2}
    Workers = {w1, w2}
    MaxCrashes = 1
    MaxErrors = 1
CONSTRAINT OneFault
SYMMETRY Symmetry
INVARIANTS
    TypeOK
    CommittedIsSettled
    OriginalKeptWhileNeeded
    ReadyHasResult
    FailedForCause
    QuietDeleteLeavesNoFile
PROPERTY AnswersMoveForward
CHECK_DEADLOCK FALSE
