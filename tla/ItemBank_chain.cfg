\* One record held at a time: long lineages, every packet.
SPECIFICATION Spec
CONSTANTS
    Ids <- SmallIds
    Artifacts <- SmallArtifacts
    Uses = {u1, u2}
    Packets <- AllPackets
    MaxEvidence = 14
    MaxLineage = 9
    MaxHeld = 1
INVARIANTS
    UseRestsOnEvidence
    ApprovalsNeverReused
    ConcernsAnsweredAfresh
    ExitsOpenBelowLimit
PROPERTIES
    ImplementsGovernance
CHECK_DEADLOCK FALSE
