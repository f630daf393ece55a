SPECIFICATION FairSpec
CONSTANTS
    Base <- BaseGrowing
    Size <- SizeGrowing
    Win = 2
    Rams = {1, 2}
    AddrMod = 8
    MaxTries = 2
    Ordered = TRUE
    Cap = 5
    Room = 2
    MaxLoss = 3
INVARIANT UploadInv
PROPERTY UploadEnds
CHECK_DEADLOCK FALSE
