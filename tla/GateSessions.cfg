\* Two calls of a launcher whose pid may be reused once, of its orphans or of
\* systemd: writes, secrets and unknown commands.
SPECIFICATION Spec
CONSTANTS
    Call = {c1, c2}
    Pid = {0, 1}
    ReaperPid = 0
    Command <- MixedCommands
    MaxStart = 1
    MaxPress = 1
    MayStop = FALSE
    None = None
SYMMETRY CallSymmetry
INVARIANTS TypeOK SessionAllowBacked SecretNeedsAnAnswer
PROPERTY KeepsPromise
\* Every call may have returned and every launcher exited.
CHECK_DEADLOCK FALSE
