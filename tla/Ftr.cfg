SPECIFICATION Spec
CONSTANTS
    Books = {"btc"}
    HourTicks = 2
    MaxId = 3
    MaxTick = 3
    MaxRuns = 2
    MaxQueue = 2
    MaxFaults = 1
    Outages <- MCOutages
    PageLimit = 4
    FirstNow = 6
    MaxNow = 11
    MaxFetches = 3
    TrainBars = 3
    ValBars = 1
    EmbargoBars = 2
    TestBars = 3
    StepBars = 2
    MinFolds = 1
    WarmupRows = 0
    MinTrainRows = 1
    MinOtherRows = 1
    Horizons = {2}
    ShortHorizons = {1}
    HoldMultiple = 2
    Prices = {1, 2}
    TrailGap = 1
    Moves = {1, 2}
    MaxDefer = 2
    PMins = {1, 2}
    Sharpes = {0, 2}
    Profiles = {"binance", "kraken"}
    Reference = "binance"
    Feasible = {"kraken"}
    Cost <- MCCost
    Coins <- MCCoins
    Days = 4
    DayBars = 2
    HoldoutDay = 4
    MonthDay = 2
    RankDays = 1
    Closes <- MCCloses
    Volumes <- MCVolumes
    Cooldown = 1
    Files <- MCFiles
    MaxMinute = 2
    MaxStamps = 1
    MaxBoots = 2
    Desks = {"record", "research", "ml", "trend"}
INVARIANTS
    RecordingsReplay
    LeaksOnlyAcrossHoles
    EnginesAgree
    TrendCausal
    DeployedPassedGauntlet
CHECK_DEADLOCK FALSE
