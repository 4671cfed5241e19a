\* Two cw at once.
SPECIFICATION Spec
CONSTANTS
    Cw = {w1, w2}
    JobRange = {"install"}
    Overlap = {"cw"}
    PacmanPlace = {p1}
    MisePlace = {}
    MaxVersion = 1
    MaxFaults = 0
    MaxKills = 0
    LegacyPins = {FALSE}
    OtherPins = {FALSE}
    ShimDirOnPath = FALSE
    None = None
    Shim = Shim
    Cut = Cut
    ScriptPath = ScriptPath
INVARIANT ShimsReachBinaries
SYMMETRY CwSymmetry
\* Every command may have ended.
CHECK_DEADLOCK FALSE
