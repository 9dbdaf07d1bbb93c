SPECIFICATION Spec
CONSTANTS
    a = a
    b = b
    o1 = o1
    o2 = o2
    m1 = m1
    m2 = m2
    Nobody = Nobody
    Accounts = {a, b}
    Fresh = {b}
    People = {o1, o2}
    Managers = {m1, m2}
    Year = 2
    Grace = 1
    Week = 1
    Month = 2
    Protect = 1
    MaxDelay = 1
    Prompt = TRUE
    MaxDay = 4
    MaxSigns = 2
    MaxParent = 1
    MaxNonce = 3
SYMMETRY Symmetry
INVARIANTS
    TypeOK
    NoGap
    WaitingAllowed
    WaitingEntitled
PROPERTY
    MintWhole
CHECK_DEADLOCK FALSE
