\* Two versions, two runs in one output directory.
SPECIFICATION Spec
CONSTANTS
    Versions = {1, 2}
    Options <- MCOptions
    MaxRuns = 2
    MaxMoves = 1
INVARIANTS
    EvidenceOfThisRun
    BuyerGetsWhatWasIndexed
    ManifestTells
    AcceptedIsWhole
CHECK_DEADLOCK FALSE
