SPECIFICATION FairSpec
CONSTANTS
    Addr <- AddrApart
    Size <- SizeApart
    Chunk = 2
    MaxRerequests = 2
    Checked = TRUE
    Ordered = FALSE
    Cap = 3
    MaxLoss = 2
INVARIANT DownloadInv
INVARIANT WrittenIsFresh
PROPERTY TransfersEnd
CHECK_DEADLOCK FALSE
