--------------------------- MODULE ScoringServices ---------------------------
(***************************************************************************)
(* The shared scoring contracts with the two adapters on top of them.      *)
(* Essays are scored, reported one by one and calibrated together; issues  *)
(* are extracted, scored and calibrated.  The adapters share the contracts *)
(* and no state, and a design never mixes their assessments, so a          *)
(* behaviour serves one of them.                                           *)
(***************************************************************************)
EXTENDS EssayScoring, IssueScoring

VARIABLE service    \* which adapter this behaviour is about

vars == <<collected, bundle, fits, scoreReport, extracted, service>>

Init ==
    /\ ScoringInit /\ EssayInit /\ IssueInit
    /\ service \in {"texts", "issues"}

TextRatings == {records \in Projections : \A r \in records : r.request \in TextRequests}

\* A caller that has asked for a report is not followed any further.
Texts ==
    /\ service = "texts"
    /\ \/ IssueReport
       \/ scoreReport = NoReport /\ Collect(TextRatings) /\ UNCHANGED scoreReport
    /\ UNCHANGED <<extracted, service>>

Issues ==
    /\ service = "issues"
    /\ \/ Extract
       \/ Collect(IssueRatings) /\ UNCHANGED extracted
       \/ FitReports
    /\ UNCHANGED <<scoreReport, service>>

Calibrate ==
    /\ \/ \E required \in BOOLEAN : Bundle(required)
       \/ \E c \in DOMAIN bundle : FitDesign(c)
       \/ FitBundle
    /\ UNCHANGED <<scoreReport, extracted, service>>

Next == Texts \/ Issues \/ Calibrate

Spec == Init /\ [][Next]_vars
=============================================================================
