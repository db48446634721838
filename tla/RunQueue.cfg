SPECIFICATION FairSpec
CONSTANTS
    d1 = d1
    w1 = w1
    w2 = w2
    Domains = {d1}
    Workers = {w1, w2}
    MaxRequests = 3
    Kinds = {"scheduled"}
    MaxCrashes = 2
    MaxDeletes = 1
    LockFaults = FALSE
    RecordMayFail = FALSE
INVARIANTS TypeOK ExecutedIsRunning NoOrphanWhileServing OneSnapshot 
PROPERTIES AcceptedEnds LifecycleRefined
CHECK_DEADLOCK FALSE
