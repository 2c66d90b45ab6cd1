\* Sunday first; one fault.
CONSTANTS
    Feeds <- MCFeeds
    Pairs <- MCPairs
    FirstDay = 6
    BarTicks = 1
    DayTicks = 1
    Margin = 1
    Limit = 4
    BackfillLimit = 5
    PageSize = 1
    Lookback = 3
    Threshold = 2
    MaxRetries = 2
    MaxTime = 5
    MaxAlerts = 3
    MaxOthers = 1
    MaxHoles = 1
    MaxFaults = 1
SPECIFICATION Spec
INVARIANTS
    NoFormingBar
    StreakAlerted
PROPERTIES
    BackfillHeals
    AlertsReachOperator
CHECK_DEADLOCK FALSE
