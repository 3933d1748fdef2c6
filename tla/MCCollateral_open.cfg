SPECIFICATION Spec
CONSTANTS
    None = None
    d1 = d1
    d2 = d2
    w1 = w1
    w2 = w2
    settlement = settlement
    social = social
    icp = icp
    User = {u1}
    DepositId = {d1}
    WithdrawalId = {w1}
    Domain = {settlement, social}
    Asset = {icp}
    Enabled = {icp}
    CallId = {c1, c2}
    Allowed <- AllowedEverywhere
    Price <- UnitPrice
    Intent <- OpenIntent
    InitWallet = 2
    Fee = 0
    Window = 0
    MaxClock = 1
    MaxBalance = 2
    MaxMargin = 1
    Discipline = {}
    Faults = {"lost", "unavailable", "upgrade"}
INVARIANTS
    TypeOK
    FinalisedHasBlock
    MarginCovered
SYMMETRY CallSymmetry
CHECK_DEADLOCK FALSE
