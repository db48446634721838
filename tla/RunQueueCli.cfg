SPECIFICATION Spec
CONSTANTS
    d1 = d1
    w1 = w1
    Domains = {d1}
    Workers = {w1}
    MaxRequests = 1
    Kinds = {"cli"}
    MaxCrashes = 0
    MaxDeletes = 0
    LockFaults = FALSE
    RecordMayFail = FALSE
PROPERTY RunMovesForward
CHECK_DEADLOCK FALSE
