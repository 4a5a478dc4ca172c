\* One call of each procedure on a small bank.
SPECIFICATION MCSpec
CONSTANTS
    Requested = 7
    BatchSize = 2
    Jobs = 2
    Stopping = TRUE
    Bank = {1, 2, 3, 4, 5, 6}
    Dimension <- MCDimension
    MaxRounds = 2
    ItemsPerDim = 2
    FlagsToRemove = 2
    Columns = {1, 2, 3}
    FocalGroups = 2
    MaxSweeps = 3
    Pool = {1, 2, 3, 4, 5}
    Labels = {"a", "b", "c"}
    Content <- MCContent
    Orders <- MCOrders
    FlexItems = 9
INVARIANTS
    EndsTruthfully
    FinalFitIsOfWhatIsKept
    TrustedAnchorsHold
    RefusesOnlyTheImpossible
    FollowsLordsRule
CHECK_DEADLOCK FALSE
