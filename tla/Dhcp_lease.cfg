SPECIFICATION FairSpec
CONSTANTS
    Pool = {1, 2}
    Leases = {4}
    Xids = {1, 2, 3, 4}
    MaxAttempts = 2
    MaxNaks = 2
    Floor = 2
    MaxLoss = 1
    MaxLate = 1
    MaxRefusals = 2
    MaxRuns = 1
    MaxLinks = 1
INVARIANT LeaseInv
INVARIANT Agreed
PROPERTY RenewPaced
PROPERTY Recovers
CHECK_DEADLOCK FALSE
