SPECIFICATION Spec
CONSTANTS
    p1 = p1
    p2 = p2
    c1 = c1
    None = None
    Procs = {p1, p2}
    Clients = {c1}
    MaxCrashes = 0
    MaxSignals = 0
    MaxRuns = 1
    MaxFaults = 0
    IdleShutdown = TRUE
PROPERTY QueuedIsServed
CHECK_DEADLOCK FALSE
