SPECIFICATION BoundedSpec
CONSTANTS
    Start = 1
    ConfirmNum = 0
    ConcurrencyNum = 2
    Kept = 2
    MaxDepth = 3
    ForkNoticed = TRUE
    MaxBlocks = 5
    MaxFaults = 1
    Price = Price
    Preserved = Preserved
    Saved = TRUE
    MaxTx = 4
    MaxSigning = 1
    MaxCalls = 2
INVARIANTS
    TypeOK
    RowsFollowChain
    WhitelistServed
    NoRuleRevived
    PaidOnce
PROPERTY
    CaughtUp
CHECK_DEADLOCK FALSE
