SPECIFICATION Spec
CONSTANTS
    None = None
    d1 = d1
    d2 = d2
    w1 = w1
    w2 = w2
    settlement = settlement
    social = social
    icp = icp
    User = {u1}
    DepositId = {d1, d2}
    WithdrawalId = {w1}
    Domain = {settlement}
    Asset = {icp}
    Enabled = {icp}
    CallId = {c1, c2}
    Allowed <- AllowedEverywhere
    Price <- UnitPrice
    Intent <- FixedIntent
    InitWallet = 5
    Fee = 1
    Window = 3
    MaxClock = 3
    MaxBalance = 9
    MaxMargin = 1
    Discipline = {"serial", "within_balance", "distinct_times"}
    Faults = {}
INVARIANTS
    CustodyCoversBalances
CHECK_DEADLOCK FALSE
