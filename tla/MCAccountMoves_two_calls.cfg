SPECIFICATION Spec
CONSTANTS
    None = None
    Nobody = Nobody
    p = p
    q = q
    m = m
    near = near
    far = far
    gold = gold
    iron = iron
    s1 = s1
    s2 = s2
    o1 = o1
    d1 = d1
    w1 = w1
    Principal = {p, q, m}
    Domain = {near, far}
    Asset = {gold, iron}
    Icrc = {gold, iron}
    SeriesId = {s1}
    SeriesDomain <- Domains
    Social = {far}
    OrderId = {o1}
    DepositId = {d1}
    WithdrawalId = {w1}
    UserCallId = {c1}
    AdminCallId = {c2, c3}
    Fee = 1
    Request <- CommonRequests
    Move <- ThereAndBack
    Migrations <- CommonMigrations
    Opening <- TwoAssets
    OpeningDomain = near
    MaxQty = 1
    Discipline = {"in_order", "flat", "no_migrated_fills", "within_balance", "own_order_ids", "rested_matches"}
    Faults = {"lost", "upgrade"}
INVARIANTS
    LockedWhilePending
CHECK_DEADLOCK FALSE
