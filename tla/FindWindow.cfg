CONSTANTS
    MaxAge = 2
    Tolerance = 1
    Quarantine = 2
    Latency = 1
    MaxDrift = 0
    MaxLag = 0
    ClockMayReset = FALSE
    Start = 12
    MaxNow = 18
    MaxGen = 3
SPECIFICATION Spec
PROPERTY BootNeverMisroutes
