SPECIFICATION Spec
CONSTANTS
    Clients = {1, 2, 3}
    None = none
    Blocks = {1, 2}
    Slots = {1, 2}
    MaxAllocs = 1
    MaxPending = 2
    MaxCalls = 4
    MaxNotes = 1
    MaxFaults = 1
    MaxCrashes = 1
    SyncAlone = TRUE
 
INVARIANT OwnCompletion
INVARIANT ReadsOwn
PROPERTY Completes
PROPERTY CallsReturn
CHECK_DEADLOCK FALSE
