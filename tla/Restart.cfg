CONSTANTS
    CountedIDs = {1, 2}
    MaxTraffic = 3
    MaxAge = 2
    Tolerance = 1
    Quarantine = 2
    Latency = 1
    MaxDrift = 1
    MaxLag = 2
    ClockMayReset = TRUE
    Start = 12
    MaxNow = 19
    MaxGen = 3
SPECIFICATION RestartSpec
INVARIANTS
    NeverOvercounts
    NothingUndercounted
PROPERTIES
    RestoredIsRecent
