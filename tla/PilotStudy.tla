----------------------------- MODULE PilotStudy -----------------------------
(***************************************************************************)
(* Pilot data of generated items on their way to the estimators            *)
(* (python/fast_mlsirm/rubric: pilot_observations, gtheory_pilot,          *)
(* dif_pilot, bifactor_pilot, testlet_pilot).  A caller binds responses to *)
(* the pilot records of items, gathers them, and asks for designs.  The    *)
(* item's name is whatever the provider called it, so two candidates may   *)
(* share one; a candidate may be piloted on several terms.                 *)
(***************************************************************************)
EXTENDS ItemGeneration

CONSTANTS
    Terms,          \* terms of a pilot: [study, testlet, occasion]
    Respondent, Rater,
    Category,       \* categories a rater may give
    Unobserved,     \* response states other than observed, which carry no category
    Grouping,       \* group assignments a caller may give: respondent |-> group
    CellBudget,     \* MAX_FACETS_PILOT_CELLS and MAX_MIRT_PILOT_CELLS
    MaxGathered     \* bound on the observations a caller gathers

ASSUME StudyAssumption == Category \subseteq Nat /\ CellBudget \in Nat /\ MaxGathered \in Nat

\* build_pilot_candidate_record: generator family and judge policy, which are
\* terms like the others, are left out.
Pilots == [candidate : Pilotable, terms : Terms]

\* build_pilot_observation_record
Observations ==
    [pilot : Pilots, respondent : Respondent, rater : Rater, state : {"observed"}, category : Category]
    \cup [pilot : Pilots, respondent : Respondent, rater : Rater, state : Unobserved]

Item(o) == Given(o.pilot.candidate).item
Seen(R) == {o \in R : o.state = "observed"}
Rows(R)    == {o.respondent : o \in R}
Columns(R) == {Item(o) : o \in R}
Raters(R)  == {o.rater : o \in R}
Testlets(R) == {o.pilot.terms.testlet : o \in R}

OneStudy(R) == \A o, p \in R : o.pilot.terms.study = p.pilot.terms.study

\* (fault: an item is its name)
ItemsAgreeByTestlet(R) ==
    \A o, p \in R : Item(o) = Item(p) => o.pilot.terms.testlet = p.pilot.terms.testlet

\* One item identifier, one provenance.
ItemsAgree(R) == \A o, p \in R : Item(o) = Item(p) => o.pilot = p.pilot

\* build_facets_pilot_design.  A number of categories that the caller does not
\* declare is inferred, and must come to two at least.
FacetsAllowed(R, declared) ==
    /\ R # {} /\ OneStudy(R) /\ ItemsAgree(R)
    /\ \A o, p \in R : (o.respondent = p.respondent /\ Item(o) = Item(p) /\ o.rater = p.rater) => o = p
    /\ declared \/ \E o \in Seen(R) : o.category >= 1
    /\ Rows(Seen(R)) = Rows(R) /\ Columns(Seen(R)) = Columns(R) /\ Raters(Seen(R)) = Raters(R)
    /\ Cardinality(Rows(R)) * Cardinality(Columns(R)) * Cardinality(Raters(R)) <= CellBudget

CellsOnce(R) == \A o, p \in R : (o.respondent = p.respondent /\ Item(o) = Item(p)) => o = p

\* build_mirt_pilot_design
MirtAllowed(R) ==
    /\ R # {} /\ OneStudy(R) /\ ItemsAgree(R) /\ CellsOnce(R)
    /\ \A o \in Seen(R) : o.category \in {0, 1}
    /\ Rows(Seen(R)) = Rows(R) /\ Columns(Seen(R)) = Columns(R)
    /\ Cardinality(Rows(R)) * Cardinality(Columns(R)) <= CellBudget

\* Every cell of the matrix is observed; one that nobody recorded is missing.
Complete(R) == \A r \in Rows(R), i \in Columns(R) : \E o \in Seen(R) : o.respondent = r /\ Item(o) = i

\* build_gtheory_pi_pilot_design
GtheoryAllowed(R) ==
    /\ FacetsAllowed(R, FALSE)
    /\ Cardinality(Raters(R)) = 1
    /\ Cardinality({o.pilot.terms.occasion : o \in R}) = 1
    /\ Cardinality(Rows(R)) >= 2 /\ Cardinality(Columns(R)) >= 2
    /\ Complete(R)

\* build_dif_pilot_design, then to_observed_score_dif_kwargs
DifAllowed(R, groups) ==
    /\ MirtAllowed(R)
    /\ DOMAIN groups = Rows(R)
    /\ Range(groups) = {"reference", "focal"}
    /\ Complete(R)

\* build_testlet_pilot_design
TestletAllowed(R) ==
    /\ MirtAllowed(R)
    /\ \E t \in Testlets(R) : Cardinality({Item(o) : o \in {p \in R : p.pilot.terms.testlet = t}}) >= 2

-----------------------------------------------------------------------------
VARIABLES
    gathered,   \* the observations the caller has put together
    handoff     \* the arguments of the last fit: [to, data], and the groups of dif

pilotVars == <<gathered, handoff>>

NoHandoff == [to |-> "nobody", data |-> {}]

PilotInit == gathered = {} /\ handoff = NoHandoff

\* Bound: nothing is gathered once a design has been handed over, since a
\* larger set can be gathered from the start.
Gather(o) ==
    /\ handoff = NoHandoff /\ Cardinality(gathered) < MaxGathered
    /\ gathered' = gathered \cup {o}
    /\ UNCHANGED handoff

Hand(estimator) == handoff' = [to |-> estimator, data |-> gathered] /\ UNCHANGED gathered

HandToFacets   == (\E declared \in BOOLEAN : FacetsAllowed(gathered, declared)) /\ Hand("facets")
HandToMirt     == MirtAllowed(gathered) /\ Hand("mirt")
\* A bifactor design adds the name of the general factor.
HandToBifactor == MirtAllowed(gathered) /\ Hand("bifactor")
HandToTestlet  == TestletAllowed(gathered) /\ Hand("testlet")
HandToGtheory  == GtheoryAllowed(gathered) /\ Hand("gtheory")
HandToDif(groups) ==
    /\ DifAllowed(gathered, groups)
    /\ handoff' = [to |-> "dif", data |-> gathered, groups |-> groups]
    /\ UNCHANGED gathered

PilotNext ==
    \/ \E o \in Observations : Gather(o)
    \/ HandToFacets \/ HandToMirt \/ HandToBifactor \/ HandToTestlet \/ HandToGtheory
    \/ \E groups \in Grouping : HandToDif(groups)

PilotSpec == PilotInit /\ [][PilotNext]_pilotVars

-----------------------------------------------------------------------------
(* Properties of what the estimators are handed *)

Piloted == {o.pilot.candidate : o \in handoff.data}

\* Whatever its author, provider and audit report say, an item that was fitted
\* offers no two options that read alike, has evidence of its own for every
\* score, and says nothing that a judge could take for an instruction.
ItemsAreSound ==
    \A c \in Piloted :
        /\ \A texts \in {OptionTexts(c), EvidenceTexts(c)} :
               \A i, j \in DOMAIN texts : Normal[texts[i]] = Normal[texts[j]] => i = j
        /\ \A i \in DOMAIN AllTexts(c) : "override" \notin Trait[AllTexts(c)[i]]
        /\ Given(c).notes = 0

\* What an item claims to rest on occurs in a source that was given to the
\* provider that wrote it, and it uses as many of them as its blueprint says.
ItemsAreGrounded ==
    \A c \in Piloted :
        LET used == {d \in c.request.docs : \E a \in Spans(c) : a[1] = Source[d].id /\ a[2] \in Source[d].spans}
        IN  /\ {a[1] : a \in Spans(c)} = {Source[d].id : d \in used}
            /\ CASE Mode(c) = "closed_book" -> used = {}
                 [] Mode(c) = "single_source" -> Cardinality(used) = 1
                 [] Mode(c) = "multi_source" -> Cardinality(used) >= 2
                 [] OTHER -> used # {}

\* A column holds responses to one text, given on one occasion and in one
\* testlet, and the whole design is one study.  No estimator but the facets model,
\* which has a facet for them, gets several raters' answers for one cell: nothing
\* is averaged or overwritten.
MatrixIsUnambiguous ==
    /\ \A o, p \in handoff.data :
           /\ Item(o) = Item(p) => Given(o.pilot.candidate) = Given(p.pilot.candidate)
                                   /\ o.pilot.terms = p.pilot.terms
           /\ o.pilot.terms.study = p.pilot.terms.study
    /\ handoff.to # "facets" =>
           Cardinality(handoff.data) = Cardinality({<<o.respondent, Item(o)>> : o \in handoff.data})

=============================================================================
