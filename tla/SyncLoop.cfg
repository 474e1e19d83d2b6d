CONSTANTS
    Interval = 5
    RequestTimeout = 4
    ApplyTime = 2
    MaxChanges = 4
SPECIFICATION LoopSpec
INVARIANT NoTightLoop
PROPERTIES
    KeepsPolling
    StopsWhenAsked
CHECK_DEADLOCK FALSE
