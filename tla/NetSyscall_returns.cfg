SPECIFICATION FairSpec
CONSTANTS
    MaxCalls = 1
    ExitCopies = 1
    HalfSeq = 6
    FirstSeq = 11
    Lossy = TRUE
    MaxRetries = 1
    Window = 0
    DedupMax = 3
    MaxTries = 2
    MaxLoss = 2
    NetDups = FALSE
    Ops = {"simple", "push", "pull"}
PROPERTY EveryCallReturns
CHECK_DEADLOCK FALSE
