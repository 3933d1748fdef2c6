SPECIFICATION Spec
CONSTANTS
    ctrl = ctrl
    ann = ann
    bob = bob
    mgmt = mgmt
    price = price
    Nobody = Nobody
    Principal = {ctrl, ann, bob}
    Controller = {ctrl}
    Management = mgmt
    FlatCreators = {bob}
    Market <- MCMarket
    Hash <- MCHash
    LegacyName = "Legacy"
    Limits <- MCLimits
    HOUR = 1
    MaxForks = 2
    None = Nobody
    Clients <- MCClients
    MaxTime = 2
    MaxSeries = 4
    MaxGroups = 2
    MaxEngines = 2
    Discipline = {"known_groups", "stays_open"}
    CallId = {1, 2}
INVARIANTS StoreOK PagesOnce AccessKept
PROPERTIES LimitsHeld
CHECK_DEADLOCK FALSE
