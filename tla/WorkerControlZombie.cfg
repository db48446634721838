SPECIFICATION ControlSpec
CONSTANTS
    p1 = p1
    p2 = p2
    c1 = c1
    None = None
    Procs = {p1, p2}
    Clients = {c1}
    MaxCrashes = 1
    MaxSignals = 1
CHECK_DEADLOCK FALSE
INVARIANT KilledIsNotReported
