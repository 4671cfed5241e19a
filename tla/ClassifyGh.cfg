\* Every command line of up to four words.
SPECIFICATION LineSpec
CONSTANTS
    Flag <- Flags
    Operand <- Operands
    MaxArgs = 4
INVARIANT UnaskedIsHarmless
PROPERTIES ClassOnlyRises FlagEndsThePath
\* A command line may be as long as MaxArgs allows.
CHECK_DEADLOCK FALSE
