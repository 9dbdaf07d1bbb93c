SPECIFICATION Spec
CONSTANTS
    a1 = a1
    a2 = a2
    Accounts = {a1, a2}
    Scripts = {0, 1}
    Kinds = {"config"}
    MaxCount = 2
    MaxUndone = 3
    MaxRetry = 1
    SendMarked = TRUE
    MaxVer = 2
    MaxTasks = 5
    MaxTxs = 5
    MaxReqs = 2
    MaxForeign = 0
    MaxSpends = 1
    MaxCrash = 0
SYMMETRY Symmetry
INVARIANTS
    TypeOK
    OneInFlight
    SmtFollowsChain
    GivenUpNotOnChain
    NoRecordForgotten
    WorkHasRecords
PROPERTY
    Implements
CHECK_DEADLOCK FALSE
