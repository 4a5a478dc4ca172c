\* Two restarts of each optimizer, with four iterations.
SPECIFICATION FitSpec
CONSTANTS
    Points = {p1, p2}
    Levels = 2
    MaxIter = 4
    Restarts = 2
INVARIANTS
    FindsValidFit
CHECK_DEADLOCK FALSE
