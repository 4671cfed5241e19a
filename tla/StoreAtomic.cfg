\* Two calls in one cw process and a shim's lookup, killed or cut by a power loss
\* anywhere.
SPECIFICATION FairSpec
CONSTANTS
    Op = {"o1", "o2", "shim"}
    Process = {"cw", "shim"}
    ProcessOf <- OneProcessAndShim
    IdentityKey = {1, 2}
    RequestsOf <- ChangesAndShim
    Before <- OneEnrolled
    MaxLosses = 1
    None = None
    Torn = Torn
INVARIANTS AlwaysReadable EnrollmentIsExplicit
PROPERTIES ActsAtomically EveryOperationReturns
\* Every operation may have returned.
CHECK_DEADLOCK FALSE
