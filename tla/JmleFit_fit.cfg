\* Two restarts of each optimizer, with three iterations.
SPECIFICATION FitSpec
CONSTANTS
    Points = {p1, p2, p3}
    Levels = 3
    MaxIter = 3
    Restarts = 2
INVARIANTS
    EndsAtUsablePoint
    BestOfRestarts
CHECK_DEADLOCK FALSE
