\* Three items that may be piloted, on two terms, and up to four responses.
SPECIFICATION PilotSpec
SYMMETRY Symmetric
CONSTANTS
    Rubric <- MCRubric
    Blueprint <- MCBlueprint
    Source <- MCSource
    Answer <- MCAnswer
    Normal <- MCNormal
    Trait <- MCTrait
    Policy = {"audit 1.0.0", "audit 0.9.0"}
    CurrentPolicy = "audit 1.0.0"
    MaxFindings = 3
    Terms <- MCTerms
    Respondent = {p1, p2}
    Rater = {r1, r2}
    Category = {1}
    Unobserved = {"missing"}
    Grouping <- MCGrouping
    CellBudget = 6
    MaxGathered = 4
INVARIANTS
    ItemsAreSound
    ItemsAreGrounded
    MatrixIsUnambiguous
CHECK_DEADLOCK FALSE
