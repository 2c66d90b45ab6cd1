SPECIFICATION FairSpec
CONSTANTS
    Kinds = {"main", "summary", "stale"}
    Phases <- TwoPhases
    Every <- EveryTwo
    Grid = 2
    StaleAfter = 3
    Threshold = 2
    MaxRuns = 2
    MaxStall = 1
    MaxFaults = 2
INVARIANTS
    OneRunningRun
    ChainsUnbroken
PROPERTIES
    DetectorAccurate
    DeadRunSettled
    CycleGoesOn
