SPECIFICATION Spec
CONSTANTS
    Drivers = {"nvnet", "rtl", "lan", "bba", "enc", "w5500"}
    Drives = {"rtl", "lan", "bba", "enc", "w5500"}
    Slots = 4
    MaxFrames = 5
INVARIANT NicInv
INVARIANT Orderly
PROPERTY NoneStranded
CHECK_DEADLOCK FALSE
