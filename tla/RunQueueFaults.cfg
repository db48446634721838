SPECIFICATION Spec
CONSTANTS
    d1 = d1
    w1 = w1
    w2 = w2
    Domains = {d1}
    Workers = {w1, w2}
    MaxRequests = 2
    Kinds = {"scheduled", "cli"}
    MaxCrashes = 0
    MaxDeletes = 1
    LockFaults = TRUE
    RecordMayFail = TRUE
SYMMETRY WorkerSymmetry
INVARIANTS SingleFlight ClaimedOnce CompleteHasSnapshot MailedOnce
CHECK_DEADLOCK FALSE
