\* harden after a mise upgrade, or after a pacman upgrade (UpgradeKept).
SPECIFICATION Spec
CONSTANTS
    Cw = {w1, w2}
    JobRange = {"harden"}
    Overlap = {}
    PacmanPlace = {p1}
    MisePlace = {m1, m2}
    MaxVersion = 2
    MaxFaults = 0
    MaxKills = 0
    LegacyPins = {FALSE}
    OtherPins = {FALSE}
    ShimDirOnPath = FALSE
    None = None
    Shim = Shim
    Cut = Cut
    ScriptPath = ScriptPath
INVARIANT HardenCanRerun
\* INVARIANT UpgradeKept
SYMMETRY CwSymmetry
\* Every command may have ended.
CHECK_DEADLOCK FALSE
