SPECIFICATION Spec
CONSTANTS
    NoStrike = NoStrike
    NoOutcome = NoOutcome
    yes = yes
    no = no
    USD_DECIMALS = 1
    MaxQty = 3
    MaxValue = 12
    MaxDecimals = 2
INVARIANTS
    PairsShareUnit
    MarginsAddUp
    RoundingFavoursSystem
CHECK_DEADLOCK FALSE
