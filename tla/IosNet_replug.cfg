SPECIFICATION IosSpec
CONSTANTS
    Ifaces = {"wired", "wifi"}
    NcdTries = 2
    IpTries = 2
    MaxErrors = 1
    MaxSlow = 1
    FollowOdd = FALSE
    MaxPlugs = 2
    MaxPackets = 2
INVARIANT IosInv
PROPERTY LoopTurns
PROPERTY SocketReturns
CHECK_DEADLOCK FALSE
