SPECIFICATION FairSpec
CONSTANTS
    Jobs = {"run_legacy", "run_found", "load", "reset", "update_run", "flash"}
    Loaders = {"dcload", "old"}
    MaxRuns = 2
    MaxTries = 2
    MaxReopens = 1
    MaxCalls = 1
    MaxLoss = 2
    MaxLate = 1
    MaxKills = 1
    Short = FALSE
INVARIANT SessionInv
INVARIANT UndisturbedWorks
PROPERTY ToolEnds
CHECK_DEADLOCK FALSE
