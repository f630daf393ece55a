SPECIFICATION Spec
CONSTANTS
    RxSlots = 3
    TxSlots = 2
    Watermark = 2
    Batch = 2
    Fifo = 1
    StallLimit = 2
    Kinds = {"ok", "error"}
    MaxRx = 4
    MaxTx = 3
    MaxFrames = 4
    MaxFaults = 1
INVARIANT RingsInv
INVARIANT ReadsInOrder
PROPERTY TxRingKept
PROPERTY SlotsFreed
PROPERTY FramesRead
CHECK_DEADLOCK FALSE
