\* A pid comes round again during one walk.
SPECIFICATION Spec
CONSTANTS
    Walk = {w1}
    Pid = {0, 1, 2, 3}
    ReaperPid = 0
    CallerPid = 3
    Program <- Programs
    Systemd = "systemd"
    Cw = "cw"
    MaxDepth = 2
    MaxEvents = 3
    MayReuse = TRUE
    Top = Top
    None = None
INVARIANT ResolvesAnAncestor
\* The walk may have ended and no event be left.
CHECK_DEADLOCK FALSE
