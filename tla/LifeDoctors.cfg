\* Two cw doctor, the second while the first one's agent starts, or beside cw
\* agent stop (WokenByFreshAgent).
SPECIFICATION Spec
CONSTANTS
    Activated = {s1, s2}
    ByHand = {}
    Doctor = {d1, d2}
    Caller = {}
    Preset = {TRUE}
    MaxStops = 1
    MaxFaults = 0
    MaxJobs = 0
    None = None
INVARIANT DoctorBringsItUp
\* PROPERTY WokenByFreshAgent
\* Every process may have ended.
CHECK_DEADLOCK FALSE
