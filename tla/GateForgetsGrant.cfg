\* Two session grants to one launcher.
SPECIFICATION Spec
CONSTANTS
    Call = {c1, c2}
    Pid = {0}
    ReaperPid = 0
    Command <- MixedCommands
    MaxStart = 0
    MaxPress = 1
    MayStop = FALSE
    None = None
SYMMETRY CallSymmetry
PROPERTY GrantPersists
CHECK_DEADLOCK FALSE
