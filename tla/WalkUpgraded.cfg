\* A binary is upgraded under a running ancestor. Three more of what LauncherWalk
\* says is not so can take the place of FindsLauncher.
SPECIFICATION Spec
CONSTANTS
    Walk = {w1}
    Pid = {0, 1, 2, 3}
    ReaperPid = 0
    CallerPid = 3
    Program <- Programs
    Systemd = "systemd"
    Cw = "cw"
    MaxDepth = 2
    MaxEvents = 3
    MayReuse = FALSE
    Top = Top
    None = None
PROPERTY FindsLauncher
\* INVARIANT FirstAncestor
\* INVARIANT NeverAShell
\* INVARIANT HashOfWhatRuns
\* The walk may have ended and no event be left.
CHECK_DEADLOCK FALSE
