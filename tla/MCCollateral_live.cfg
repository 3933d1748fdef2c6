SPECIFICATION FairSpec
CONSTANTS
    None = None
    d1 = d1
    d2 = d2
    w1 = w1
    w2 = w2
    settlement = settlement
    social = social
    icp = icp
    User = {u1}
    DepositId = {d1, d2}
    WithdrawalId = {w1}
    Domain = {settlement}
    Asset = {icp}
    Enabled = {icp}
    CallId = {c1, c2}
    Allowed <- AllowedEverywhere
    Price <- UnitPrice
    Intent <- SmallIntent
    InitWallet = 3
    Fee = 0
    Window = 2
    MaxClock = 2
    MaxBalance = 9
    MaxMargin = 1
    Discipline = {"serial", "within_balance", "distinct_times"}
    Faults = {"lost", "upgrade"}
PROPERTIES
    MovedIsCredited
    ReservationEnds
CHECK_DEADLOCK FALSE
