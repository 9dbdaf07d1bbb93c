SPECIFICATION LiveSpec
CONSTANTS
    a1 = a1
    d1 = d1
    d2 = d2
    h1 = h1
    h2 = h2
    c1 = c1
    NoHash = NoHash
    NoCoupon = NoCoupon
    Accounts = {a1}
    Addrs = {d1}
    Hashes = {h1, h2}
    Coupons = {}
    ActionTypes = {"Mint", "Renew"}
    RefundSwitch = TRUE
    CheckLimit = 1
    Expired = {a1}
    OldOrders = FALSE
    MaxOrders = 2
    MaxOthers = 1
    MaxVer = 2
    MaxCrash = 0
PROPERTIES
    ReportedIsConfirmed
    PaidSettles
    RefundCompletes
CHECK_DEADLOCK FALSE
