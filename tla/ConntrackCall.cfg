CONSTANTS
    Flows = {f1, f2, f3}
    MaxTimeouts = 2
SPECIFICATION CallSpec
INVARIANTS
    NoStrayWorker
    SuccessIsProof
PROPERTIES
    CallReturns
    EventuallyCleared
