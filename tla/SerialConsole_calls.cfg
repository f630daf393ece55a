SPECIFICATION FairSpec
CONSTANTS
    Calls <- AllCalls
    HostBlock = 2
    GuestBlock = 2
    MinCompress = 2
    MaxSize = 4
    MaxPath = 3
    MaxDirs = 1
    GdbMax = 2
    WordMod = 16
    MaxCalls = 2
    MayDie = TRUE
INVARIANT SerialInv
PROPERTY CallsReturn
PROPERTY ConsoleEnds
CHECK_DEADLOCK FALSE
