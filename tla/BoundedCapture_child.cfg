\* A descendant that may have left the process group.
SPECIFICATION FairSpec
CONSTANTS
    Leader = leader
    Descendants = {child}
    Limit = 1
    PipeCapacity = 2
    MaxWritten = 2
INVARIANTS
    ResultIsWhole
    NothingLeftBehind
    VerdictTruthful
PROPERTIES
    CaptureReturns
CHECK_DEADLOCK FALSE
