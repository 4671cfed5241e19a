\* An agent run by hand beside an active socket unit, and cw agent install after
\* it (InstallMakesReachable).
SPECIFICATION Spec
CONSTANTS
    Activated = {s1}
    ByHand = {h1}
    Doctor = {d1}
    Caller = {}
    Preset = {TRUE}
    MaxStops = 0
    MaxFaults = 0
    MaxJobs = 1
    None = None
INVARIANT SocketStaysReachable
\* PROPERTY InstallMakesReachable
\* Every process may have ended.
CHECK_DEADLOCK FALSE
