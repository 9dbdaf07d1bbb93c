SPECIFICATION Spec
CONSTANTS
    a1 = a1
    d1 = d1
    d2 = d2
    h1 = h1
    h2 = h2
    c1 = c1
    NoHash = NoHash
    NoCoupon = NoCoupon
    Accounts = {a1}
    Addrs = {d1, d2}
    Hashes = {h1}
    Coupons = {c1}
    ActionTypes = {"Mint", "Renew", "CouponCreate"}
    RefundSwitch = TRUE
    CheckLimit = 2
    Expired = {}
    OldOrders = TRUE
    MaxOrders = 2
    MaxOthers = 0
    MaxVer = 1
    MaxCrash = 1
INVARIANTS
    CouponUsedOnce
    CodesMadeOnce
    ConfirmedIsPaid
CHECK_DEADLOCK FALSE
