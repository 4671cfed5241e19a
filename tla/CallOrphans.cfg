\* A harness whose shell exits, or executes a program of its own, while a
\* command below it is being gated.
SPECIFICATION Spec
CONSTANTS
    Call = {c1, c2}
    Pid = {0, 1}
    ReaperPid = 0
    Command <- Writes
    MaxStart = 1
    MaxPress = 1
    MayStop = FALSE
    None = None
    IdentityKey = {0, 1}
    Program <- OnePerPid
    EntryRange <- DenyOrRead
    MaxChanges = 0
SYMMETRY CallSymmetry
INVARIANT GrantKeepsIdentity
\* INVARIANT OnlyTheReaperInherits
CHECK_DEADLOCK FALSE
