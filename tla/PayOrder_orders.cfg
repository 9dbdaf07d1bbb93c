SPECIFICATION Spec
CONSTANTS
    a1 = a1
    d1 = d1
    d2 = d2
    h1 = h1
    h2 = h2
    c1 = c1
    NoHash = NoHash
    NoCoupon = NoCoupon
    Accounts = {a1}
    Addrs = {d1}
    Hashes = {h1, h2}
    Coupons = {}
    ActionTypes = {"Mint", "Renew"}
    RefundSwitch = FALSE
    CheckLimit = 2
    Expired = {a1}
    OldOrders = FALSE
    MaxOrders = 2
    MaxOthers = 1
    MaxVer = 2
    MaxCrash = 0
SYMMETRY Symmetry
INVARIANTS
    TypeOK
    ServedOnce
    RefundedNotServed
    SuccessIsOnChain
    PaidIsBacked
CHECK_DEADLOCK FALSE
