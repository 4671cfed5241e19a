\* Three commands in a row of any kind, with two faults, a kill and an upgrade by
\* pacman or mise anywhere, with or without the Path pins an older cw left.
SPECIFICATION Spec
CONSTANTS
    Cw = {w1, w2, w3}
    JobRange = {"harden", "unharden", "install", "uninstall"}
    Overlap = {"upgrade"}
    PacmanPlace = {p1}
    MisePlace = {m1, m2}
    MaxVersion = 2
    MaxFaults = 2
    MaxKills = 1
    LegacyPins = {TRUE, FALSE}
    OtherPins = {TRUE, FALSE}
    ShimDirOnPath = TRUE
    None = None
    Shim = Shim
    Cut = Cut
    ScriptPath = ScriptPath
INVARIANTS ShimHasBinary NoDriftIsGated ToolStaysOnPath
PROPERTIES HardenDelivers BootstrapFollowsPins
SYMMETRY CwSymmetry
\* Every command may have ended.
CHECK_DEADLOCK FALSE
