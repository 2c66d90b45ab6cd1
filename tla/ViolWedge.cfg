SPECIFICATION FairSpec
CONSTANTS
    v1 = v1
    v2 = v2
    btc = btc
    Versions = {v1}
    Symbols = {btc}
    Timeframes = {"1h"}
    BarLen <- OneTick
    Stateful = {}
    Tier3 = {}
    Lows = {1, 2}
    Stops = {1}
    FeedGaps = FALSE
    MaxTime = 3
    MaxFaults = 0
PROPERTIES
    BreachedStopCloses
