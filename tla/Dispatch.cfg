SPECIFICATION Spec
CONSTANTS
    p1 = p1
    p2 = p2
    c1 = c1
    None = None
    Procs = {p1, p2}
    Clients = {c1}
    MaxCrashes = 1
    MaxSignals = 1
    MaxRuns = 1
    MaxFaults = 1
    IdleShutdown = TRUE
PROPERTIES AskersAreServed KeepsControl
CHECK_DEADLOCK FALSE
