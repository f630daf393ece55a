SPECIFICATION Spec
CONSTANTS
    MaxCalls = 3
    ExitCopies = 1
    HalfSeq = 6
    FirstSeq = 11
    Lossy = TRUE
    MaxRetries = 1
    Window = 1
    DedupMax = 3
    MaxTries = 1
    MaxLoss = 0
    NetDups = TRUE
    Ops = {"simple", "push", "pull"}
INVARIANT TypeOK
INVARIANT SyscallInv
INVARIANT ReplayAnswers
PROPERTY KeepsPromise
CHECK_DEADLOCK FALSE
