\* Two respondents or issues, two task revisions, three engines, up to four results.
SPECIFICATION Spec
CONSTANTS
    Rubric <- MCRubric
    Draft <- MCDraft
    Engine <- MCEngine
    Submission <- MCSubmissions
    Ask <- MCAsk
    Outcomes <- MCOutcomes
    Terminal = {"abstained", "failed"}
    Abstained = "abstained"
    Prompt <- MCPrompt
    Essay <- MCEssay
    NoEssay <- None
    Source <- MCSource
    Issue <- MCIssue
    Packets <- MCPackets
    Proposals <- MCProposals
    Whole = "whole"
    CellBudget = 12
    MaxResults = 4
INVARIANTS
    CellsTraceable
    OneTextPerCell
    FitsAreLinked
    NoCriterionLeftOut
    ReviewIsNotLost
    ScoresRestOnEvidence
CHECK_DEADLOCK FALSE
