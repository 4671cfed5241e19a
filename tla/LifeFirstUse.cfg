\* A shim runs with the units installed and no agent.
SPECIFICATION Spec
CONSTANTS
    Activated = {s1}
    ByHand = {}
    Doctor = {}
    Caller = {c1}
    Preset = {TRUE}
    MaxStops = 0
    MaxFaults = 0
    MaxJobs = 0
    None = None
INVARIANT FirstUseStarts
\* Every process may have ended.
CHECK_DEADLOCK FALSE
