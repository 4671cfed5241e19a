\* Two shims log and two prunes run over an old and a fresh row while cw audit
\* --follow watches, through kills and a power loss.
SPECIFICATION Spec
CONSTANTS
    Writer = {w1, w2}
    Pruner = {p1, p2}
    Follower = {f1}
    Past <- OldAndFresh
    Old = {1}
    MaxLosses = 1
    None = None
INVARIANTS RowsKept FollowNeverRepeats
SYMMETRY Processes
\* What neither a step nor these two properties depend on is left out.
VIEW Present
\* Every process may have ended.
CHECK_DEADLOCK FALSE
