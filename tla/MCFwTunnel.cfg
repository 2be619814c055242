CONSTANTS
    LISTENERS = 3
    Workers = {w1, w2}
    None = None
    MAX_RESTARTS = 1
SPECIFICATION Spec
INVARIANTS
    OneWorkerPerSocket
    OwnConnection
PROPERTIES
    WaitingServed
    ClaimReturns
CHECK_DEADLOCK FALSE
