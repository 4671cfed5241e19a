\* Two calls of one launcher whose policy is changed once on the way.
SPECIFICATION Spec
CONSTANTS
    Call = {c1, c2}
    Pid = {0}
    ReaperPid = 0
    Command <- Secrets
    MaxStart = 0
    MaxPress = 1
    MayStop = FALSE
    None = None
    IdentityKey = {0}
    Program <- OnePerPid
    EntryRange <- ReadOrFull
    MaxChanges = 1
SYMMETRY CallSymmetry
INVARIANTS Authorized RowTellsWhoDecided LoggedBeforeEffect SecretsAskEachTime DenyNeverAsks
\* Every call may have ended.
CHECK_DEADLOCK FALSE
