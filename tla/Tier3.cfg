\* Five-bar histories; live cycles may end at any bar.
CONSTANTS
    N = 5
    Bars <- MCBars
    Strategies <- MCStrategies
    Scale = 20
    Slippage = 1
    Commission = 1
    WarmupBars = 2
    NONE = NONE
SPECIFICATION SimSpec
INVARIANTS
    LiveMatchesBacktest
    PhantomMatchesTrade
    StopsFillAtPastLevel
CHECK_DEADLOCK FALSE
