\* Three requests, one fault.
CONSTANTS
    Sources <- MCSources
    Databases <- MCDatabases
    Windows <- MCWindows
    Listing = 1
    Outage = {3}
    PageLimit = 2
    QuotaLimit = 1
    CapCents = 3
    CallMills = 15
    DayTicks = 1
    Handlers = {h1, h2}
    StartTime = 5
    MaxTime = 6
    MaxRequests = 3
    MaxFaults = 1
SPECIFICATION Spec
INVARIANTS
    WorkDoneOnce
    FinishedJobsUsable
    SpendAccounted
    CacheContiguous
CHECK_DEADLOCK FALSE
