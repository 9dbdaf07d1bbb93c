SPECIFICATION Spec
CONSTANTS
    a1 = a1
    a2 = a2
    Accounts = {a1}
    Scripts = {0}
    Kinds = {}
    MaxCount = 2
    MaxUndone = 3
    MaxRetry = 1
    SendMarked = TRUE
    MaxVer = 2
    MaxTasks = 4
    MaxTxs = 5
    MaxReqs = 1
    MaxForeign = 1
    MaxSpends = 0
    MaxCrash = 0
INVARIANT
    SmtFollowsChain
CHECK_DEADLOCK FALSE
