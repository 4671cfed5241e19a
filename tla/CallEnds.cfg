\* Liveness of a call: an agent that may stop and stay down, windows that
\* nobody answers.
SPECIFICATION FairSpec
CONSTANTS
    Call = {c1}
    Pid = {0, 1}
    ReaperPid = 0
    Command <- Secrets
    MaxStart = 1
    MaxPress = 1
    MayStop = TRUE
    None = None
    IdentityKey = {0, 1}
    Program <- OnePerPid
    EntryRange <- ReadOrFull
    MaxChanges = 1
PROPERTY EveryCallEnds
CHECK_DEADLOCK FALSE
