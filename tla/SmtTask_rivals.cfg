SPECIFICATION Spec
CONSTANTS
    a1 = a1
    a2 = a2
    Accounts = {a1, a2}
    Scripts = {0}
    Kinds = {"profit", "channel"}
    MaxCount = 1
    MaxUndone = 3
    MaxRetry = 0
    SendMarked = TRUE
    MaxVer = 2
    MaxTasks = 5
    MaxTxs = 5
    MaxReqs = 1
    MaxForeign = 1
    MaxSpends = 1
    MaxCrash = 1
INVARIANTS
    LockMutex
    ParsedIsRecorded
PROPERTY
    EndIsFinal
CHECK_DEADLOCK FALSE
