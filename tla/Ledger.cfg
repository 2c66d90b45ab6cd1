SPECIFICATION Spec
CONSTANTS
    v1 = v1
    v2 = v2
    btc = btc
    Versions = {v1, v2}
    Symbols = {btc}
    Prices = {97, 110}
    Stops = {90}
    Start = 1000
    Lot = 10
    RiskPct <- FivePercent
    RiskCap = 5
    TotalCap = 8
    DayCap = 4
    WeekCap = 8
    DrawdownCap = 10
    FeeBps = 100
    SlipBps = 100
    MaxOrders = 2
    MaxFills = 4
    MaxDays = 1
    MaxFaults = 1
SYMMETRY Alike
INVARIANTS
    LedgerBalances
PROPERTIES
    SnapshotAddsUp
    LossLimitsHold
