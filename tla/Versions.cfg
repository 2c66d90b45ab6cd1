SPECIFICATION Spec
CONSTANTS
  Extractions <- MCExtractions
  Kind <- MCKind
  Every <- MCEvery
  Warm <- MCWarm
  Ranges = {48}
  Timeframes = {"4h"}
  Names = {"n"}
  Seeders = {s1, s2}
  NWindows = 2
  WindowTicks = 10
  MinPaperTrades = 5
  Drawdowns = {0, 20}
  MaxDay = 12
  ResearchDays = 1
  FlagDays = {1, 2}
  MaxFailed = 2
  MaxRows = 3
  MaxVersions = 2
CHECK_DEADLOCK FALSE
INVARIANTS
  VersionsBacked
  TransferKeepsChains
  DriftVerdicts
SYMMETRY Symmetric
