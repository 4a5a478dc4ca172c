\* Two criteria with three categories, two questions at a time.
SPECIFICATION FairThresholdSpec
CONSTANTS
    Criteria = 2
    Boundaries = 2
    LocalConcurrency = 2
    Sizes = {1, 2}
    MaxText = 5
INVARIANTS
    VerdictFollowsAnswers
PROPERTIES
    JudgeReturns
CHECK_DEADLOCK FALSE
