SPECIFICATION Spec
CONSTANTS
    vusd = vusd
    ckusdc = ckusdc
    ledgerV = ledgerV
    ledgerC = ledgerC
    evm = evm
    near = near
    far = far
    w1 = w1
    r1 = r1
    r2 = r2
    c1 = c1
    c2 = c2
    Nobody = Nobody
    AssetId <- MCAssetId
    Internal = vusd
    Ledger <- MCLedger
    InternalLedger = ledgerV
    Evm = evm
    Domain <- MCDomain
    Price <- MCPrice
    Fees <- MCFees
    PaymentId = {w1}
    RequestId = {r1}
    CallId = {c1, c2}
    None = Nobody
    Request <- AllRequests
    MaxPlans = 2
    MaxPayments = 1
    Earnings <- MCEarnings
    Opening <- MCOpening
    Discipline = {"one_per_asset", "same_terms", "settled_cancel", "steady_fee"}
    Faults = {"refused", "lost", "upgrade", "fee_change"}
SYMMETRY Symmetry
INVARIANTS FundsSound PaidOnce
PROPERTIES AnswersUndoNothing
CHECK_DEADLOCK FALSE
