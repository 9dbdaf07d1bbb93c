SPECIFICATION FairSpec
CONSTANTS
    a1 = a1
    a2 = a2
    Accounts = {a1}
    Scripts = {0}
    Kinds = {}
    MaxCount = 2
    MaxUndone = 0
    MaxRetry = 0
    SendMarked = TRUE
    MaxVer = 2
    MaxTasks = 5
    MaxTxs = 5
    MaxReqs = 3
    MaxForeign = 0
    MaxSpends = 0
    MaxCrash = 0
PROPERTY
    WaitingIsDistributed
CHECK_DEADLOCK FALSE
