\* Up to four cases, three boundaries each, a gateway that admits two calls.
SPECIFICATION FairSpec
CONSTANTS
    Submitted <- MCSubmitted
    CategoryRows = {"low", "high"}
    NoRow = "none"
    BoundaryCalls = 3
    AdmittedCalls = 2
INVARIANTS
    CallsWithinLimit
    ReportFollowsCases
PROPERTIES
    CalibrationReturns
CHECK_DEADLOCK FALSE
