SPECIFICATION FairSpec
CONSTANTS
    v1 = v1
    v2 = v2
    btc = btc
    Versions = {v2}
    Symbols = {btc}
    Timeframes = {"1h"}
    BarLen <- OneTick
    Stateful = {v2}
    Tier3 = {v2}
    Lows = {1, 2}
    Stops = {1}
    FeedGaps = TRUE
    MaxTime = 4
    MaxFaults = 1
PROPERTIES
    SignalsDecided
    StatefulDecidesOnce
