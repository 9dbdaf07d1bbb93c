SPECIFICATION FairSpec
CONSTANTS
    a1 = a1
    a2 = a2
    Accounts = {a1}
    Scripts = {0}
    Kinds = {"profit"}
    MaxCount = 2
    MaxUndone = 3
    MaxRetry = 1
    SendMarked = TRUE
    MaxVer = 2
    MaxTasks = 4
    MaxTxs = 4
    MaxReqs = 1
    MaxForeign = 0
    MaxSpends = 1
    MaxCrash = 0
PROPERTY
    RejectedNormalCloses
CHECK_DEADLOCK FALSE
