\* A session grant whose audit row could not be written.
SPECIFICATION Spec
CONSTANTS
    Call = {c1, c2}
    Pid = {0}
    ReaperPid = 0
    Command <- Writes
    MaxStart = 0
    MaxPress = 1
    MayStop = FALSE
    None = None
    IdentityKey = {0}
    Program <- OnePerPid
    EntryRange <- DenyOrRead
    MaxChanges = 0
INVARIANT GrantIsLogged
SYMMETRY CallSymmetry
CHECK_DEADLOCK FALSE
