\* unharden after a harden that could not save its pin.
SPECIFICATION Spec
CONSTANTS
    Cw = {w1, w2}
    JobRange = {"harden", "unharden"}
    Overlap = {}
    PacmanPlace = {p1}
    MisePlace = {}
    MaxVersion = 1
    MaxFaults = 1
    MaxKills = 0
    LegacyPins = {FALSE}
    OtherPins = {FALSE}
    ShimDirOnPath = FALSE
    None = None
    Shim = Shim
    Cut = Cut
    ScriptPath = ScriptPath
PROPERTY UnhardenRestores
SYMMETRY CwSymmetry
\* Every command may have ended.
CHECK_DEADLOCK FALSE
