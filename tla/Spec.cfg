\* Seven bars; windows of four candles.
CONSTANTS
    N = 7
    Levels = {1, 2, 3}
    Specs <- MCSpecs
    FilterBars = 2
    DayBars = 3
    Week = 2
    MinBars = 3
    Window = 4
    MaxGap = 2
    NAN = NAN
    NONE = NONE
SPECIFICATION Spec
INVARIANTS
    SeededMatchesHistory
    NoSignalLooksAhead
CHECK_DEADLOCK FALSE
