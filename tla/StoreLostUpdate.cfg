\* cw policy unenroll of one launcher beside cw policy set of another.
SPECIFICATION Spec
CONSTANTS
    Op = {"o1", "o2"}
    Process = {"o1", "o2"}
    ProcessOf <- ProcessEach
    IdentityKey = {1, 2}
    RequestsOf <- ChangesEach
    Before <- BothEnrolled
    MaxLosses = 0
    None = None
    Torn = Torn
INVARIANT UnenrollRemoves
\* Every operation may have returned.
CHECK_DEADLOCK FALSE
