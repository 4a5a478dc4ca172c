-------------------------- MODULE ItemBankRefinement --------------------------
(***************************************************************************)
(* The item bank implements ItemGovernance.  The signatures of a decision  *)
(* are the artifacts of the approvals newly supplied with it, and its open *)
(* concerns are those bound by the record.                                 *)
(***************************************************************************)
EXTENDS ItemBank

DecisionAt(l, i) ==
    [state      |-> l[i].state,
     scope      |-> l[i].uses,
     open       |-> l[i].concerns,
     signatures |-> IF i > 1 /\ Authorises(l, i)
                    THEN ArtifactsOf(OfKind(Added(l, i), {"approval"}))
                    ELSE {}]

History(l) == [i \in 1..Len(l) |-> DecisionAt(l, i)]

Governance == INSTANCE ItemGovernance
    WITH Signatures <- Artifacts, Scopes <- Uses, ConcernNames <- Concerns,
         histories <- {History(l) : l \in held}

\* Every step of the item bank is a decision ItemGovernance permits, or no
\* decision at all.
ImplementsGovernance == Governance!Spec
=============================================================================
