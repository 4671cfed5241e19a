\* One request with two answers (the double click the comment in
\* SubmitGateDecision names); nobody need answer, the agent may stop.
SPECIFICATION FairSpec
CONSTANTS
    Call = {c1}
    Pid = {0}
    ReaperPid = 0
    Command <- WriteOrSecret
    MaxStart = 0
    MaxPress = 2
    MayStop = TRUE
    None = None
INVARIANT HumanDecides
PROPERTIES LateAnswerRefused EveryRequestEnds
