\* One walk from a caller with up to three ancestors, two of which it may visit,
\* and three events before, during or after it.
SPECIFICATION Spec
CONSTANTS
    Walk = {w1}
    Pid = {0, 1, 2, 3}
    ReaperPid = 0
    CallerPid = 3
    Program <- Programs
    Systemd = "systemd"
    Cw = "cw"
    MaxDepth = 2
    MaxEvents = 3
    MayReuse = FALSE
    Top = Top
    None = None
INVARIANT ResolvesAnAncestor
PROPERTY FailsForCause
\* The walk may have ended and no event be left.
CHECK_DEADLOCK FALSE
