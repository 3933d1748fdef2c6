SPECIFICATION Spec
CONSTANTS
    None = None
    NoStrike = NoStrike
    NoOutcome = NoOutcome
    USD_DECIMALS = 1
    u1 = u1
    u2 = u2
    u3 = u3
    bin = bin
    cat = cat
    past = past
    yes = yes
    no = no
    draw = draw
    o1 = o1
    o2 = o2
    t1 = t1
    t2 = t2
    t3 = t3
    t4 = t4
    x1 = x1
    User = {u1}
    SeriesId = {bin}
    OrderId = {o1}
    OutcomeId = {yes, no, draw}
    TradeId = {t1}
    TransferId = {x1}
    CallId = {c1, c2}
    Listing <- OpenListing
    Collateral <- Rich
    Request <- AcceptRequests
    Inputs <- SoundInputs
    LegacyPlans <- NoLegacy
    Cached = {}
    Batch = 1
    INSURANCE_BPS = 1000
    PROTOCOL_BPS = 2000
PROPERTIES
    AcceptedOnce
