\* An answer accepted while its request times out.
SPECIFICATION Spec
CONSTANTS
    Call = {c1}
    Pid = {0}
    ReaperPid = 0
    Command <- OneCommand
    MaxStart = 0
    MaxPress = 1
    MayStop = FALSE
    None = None
INVARIANT AcceptedAnswerActedOn
CHECK_DEADLOCK FALSE
