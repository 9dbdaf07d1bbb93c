SPECIFICATION FairSpec
CONSTANTS
    a1 = a1
    a2 = a2
    Accounts = {a1, a2}
    Scripts = {0}
    Kinds = {}
    MaxCount = 2
    MaxUndone = 3
    MaxRetry = 0
    SendMarked = TRUE
    MaxVer = 1
    MaxTasks = 4
    MaxTxs = 4
    MaxReqs = 3
    MaxForeign = 0
    MaxSpends = 0
    MaxCrash = 0
PROPERTIES
    RecordsSettle
    ChainTasksConfirm
CHECK_DEADLOCK FALSE
