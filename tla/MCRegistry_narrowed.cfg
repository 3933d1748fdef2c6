SPECIFICATION Spec
CONSTANTS
    ctrl = ctrl
    ann = ann
    bob = bob
    mgmt = mgmt
    price = price
    Nobody = Nobody
    Principal = {ctrl, ann, bob}
    Controller = {ctrl}
    Management = mgmt
    FlatCreators = {bob}
    Market <- MCMarket
    Hash <- MCHash
    LegacyName = "Legacy"
    Limits <- MCLimits
    HOUR = 1
    MaxForks = 2
    None = Nobody
    Clients <- CirclingClients
    MaxTime = 2
    MaxSeries = 4
    MaxGroups = 2
    MaxEngines = 2
    Discipline = {"known_groups"}
    CallId = {1, 2}
INVARIANTS AccessKept
CHECK_DEADLOCK FALSE
