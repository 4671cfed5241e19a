\* Every command line of up to three words.
SPECIFICATION LineSpec
CONSTANTS
    Flag <- Flags
    Operand <- Operands
    MaxArgs = 3
INVARIANT DeployKeyOverridden
\* By hand, and refuted: gh run view --log=true prints the log and is read.
\* INVARIANT LogHowever
\* A command line may be as long as MaxArgs allows.
CHECK_DEADLOCK FALSE
