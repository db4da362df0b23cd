CONSTANTS
    None = None
    Servers = {w1, w2}
    Callers = {meta}
    Requests = 2
    Window = 3
    MaxTime = 5
    MaxArrivals = 6
    MaxFaults = 1
    MaxCrashes = 1
SPECIFICATION Spec
SYMMETRY Symmetry
CHECK_DEADLOCK FALSE
INVARIANTS LimitHolds RefusalsEarned
