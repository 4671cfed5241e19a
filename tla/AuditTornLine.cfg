\* Two shims, the first of which cannot write all of its row.
SPECIFICATION Spec
CONSTANTS
    Writer = {w1, w2}
    Pruner = {}
    Follower = {}
    Past <- OldAndFresh
    Old = {1}
    MaxLosses = 0
    None = None
INVARIANT RowIsALine
\* Every process may have ended.
CHECK_DEADLOCK FALSE
