SPECIFICATION Spec
CONSTANTS
    d1 = d1
    w1 = w1
    Domains = {d1}
    Workers = {w1}
    MaxRequests = 2
    Kinds = {"web", "scheduled"}
    MaxCrashes = 0
    MaxDeletes = 0
    LockFaults = FALSE
    RecordMayFail = FALSE
INVARIANT ScheduledRunMails
CHECK_DEADLOCK FALSE
