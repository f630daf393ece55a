SPECIFICATION PipeSpec
CONSTANTS
    Ring = 4
    Wrap = 8
    MaxPkt = 2
    Word = 2
    Block = 3
    MaxService = 4
    StallRetries = 3
    Talks = {"upload", "run", "update"}
    MaxTalks = 2
    MaxAttempts = 2
    MaxTroubles = 1
    MaxStalls = 1
    MayFail = TRUE
INVARIANT PipeInv
INVARIANT InOrder
PROPERTY Enumerates
PROPERTY TalksEnd
CHECK_DEADLOCK FALSE
