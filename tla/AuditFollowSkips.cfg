\* A prune shortens the log under cw audit --follow, then a shim logs; or a shim
\* logs while cw audit --follow starts (FollowMissesNothing), or while the log is
\* pruned (PruneKeepsNewer), or a copy fails and is taken up from its beginning
\* (FollowWritesOnce).
SPECIFICATION Spec
CONSTANTS
    Writer = {w1}
    Pruner = {p1}
    Follower = {f1}
    Past <- OldAndFresh
    Old = {1}
    MaxLosses = 0
    None = None
INVARIANT FollowShowsNew
\* INVARIANT FollowMissesNothing
\* INVARIANT PruneKeepsNewer
\* PROPERTY FollowWritesOnce
\* Every process may have ended.
CHECK_DEADLOCK FALSE
