--------------------------- MODULE GovernedScoring ---------------------------
(***************************************************************************)
(* From an assessment to a fitted facets model                             *)
(* (python/fast_mlsirm/scoring): requests are built for the responses of   *)
(* respondents, engines score them, results are projected to ratings, the  *)
(* ratings of several results are assembled into one design per criterion, *)
(* and the designs are fitted.                                             *)
(*                                                                         *)
(* Every artifact is sealed, immutable and named by the digest of its      *)
(* content, and every builder is a function of its arguments.  So the      *)
(* artifacts that can exist are sets defined by what the builders refuse,  *)
(* and the state is what a caller has put together of them.  The caller    *)
(* may hand any artifact it has to any builder: a result with the request  *)
(* of another response, observations of two engines, a second run of the   *)
(* same engine, texts of one respondent under two names.                   *)
(*                                                                         *)
(* Names stand for digests.  Metadata is opaque here: a request carries    *)
(* its notes, an observation what it cites and a stamp, which the essay    *)
(* and issue adapters write and read.  Left out: the form of identifiers,  *)
(* descriptors' model and prompt fields, the schema-1.0 migration (it ends *)
(* in build_scoring_request) and the estimator.                            *)
(* Replays compare an artifact with what its builder makes of its own      *)
(* fields, which a sealed artifact always equals.                          *)
(***************************************************************************)
EXTENDS Naturals, FiniteSets, Functions

CONSTANTS
    Rubric,         \* rubric |-> [id, construct, families, scale]
    Draft,          \* assessment |-> the arguments of build_assessment_spec
    Engine,         \* engine |-> [human]; the name is its engine_id
    Submission,     \* what a caller says of a response |-> [id, respondent, content,
                    \*     revision, task, family]
    Ask,            \* request |-> the arguments of build_scoring_request
    Outcomes,       \* service |-> what an engine may find in its requests:
                    \*     target |-> [score: a score or Terminal, cites, stamp]
    Terminal,       \* the statuses other than scored, which carry no score
    Whole,          \* the target of a holistic request
    CellBudget,     \* MAX_SCORING_FACETS_CELLS
    MaxResults      \* bound on the results a caller puts together

ASSUME ScoringAssumption ==
    /\ CellBudget \in Nat /\ MaxResults \in Nat
    /\ \A r \in DOMAIN Rubric : Rubric[r].scale \cap Terminal = {}
    /\ \A q \in DOMAIN Ask : IsFiniteSet(Ask[q].criteria)

-----------------------------------------------------------------------------
(* What the builders accept *)

\* EnginePolicy
PolicyAllowed(p) ==
    /\ p.human \/ p.automated
    /\ p.automated <=> p.engines # {}

\* build_assessment_spec: constructs and rubrics name each other, no rubric is
\* idle, one identifier names one rubric, policies speak of known constructs.
AssessmentAllowed(a) ==
    LET d == Draft[a] IN
    /\ PolicyAllowed(d.policy)
    /\ \A r, s \in d.rubrics : Rubric[r].id = Rubric[s].id => r = s
    /\ \A k \in DOMAIN d.constructs, r \in d.rubrics :
           r \in d.constructs[k] => Rubric[r].construct = k
    /\ UNION Range(d.constructs) = d.rubrics
    /\ d.scopes \subseteq DOMAIN d.constructs

Assessments == {a \in DOMAIN Draft : AssessmentAllowed(a)}

GranularityAllowed(kind, granularity) == kind \in {"mixed", granularity}

RequestAllowed(q) ==
    LET a == Ask[q] IN
    /\ a.assessment \in Assessments
    /\ a.rubric \in Draft[a.assessment].rubrics
    /\ Rubric[a.rubric].construct \in DOMAIN Draft[a.assessment].constructs
    /\ Submission[a.response].family \in Rubric[a.rubric].families
    /\ GranularityAllowed(Draft[a.assessment].kind, a.granularity)
    /\ a.granularity = "criterion" <=> a.criteria # {}

Requests == {q \in DOMAIN Ask : RequestAllowed(q)}

Targets(q) == IF Ask[q].granularity = "criterion" THEN Ask[q].criteria ELSE {Whole}

\* The engine policy of its assessment, which the request carries with it.
Permits(q) == Draft[Ask[q].assessment].policy

ObservationAllowed(o) ==
    /\ o.target \in Targets(o.request)
    /\ o.score \in Rubric[Ask[o.request].rubric].scale \cup Terminal

\* _authorize_engine
Authorize(q, e) ==
    IF Engine[e].human THEN Permits(q).human
    ELSE Permits(q).automated /\ e \in Permits(q).engines

Service(q) == Ask[q].notes.service

\* An engine's finding on one target, written down: StaticFixtureEngine.score
\* does so for every target of a request, other callers as they like.
Observation(q, e, c, found) ==
    [request |-> q, engine |-> e, target |-> c, score |-> found[c].score,
     cites |-> found[c].cites, stamp |-> found[c].stamp]

\* Observations a caller may hand over: on some targets, each made for some
\* request of the service and by some engine.
Sheets ==
    UNION {{{Observation(by[c][1], by[c][2], c, found) : c \in targets}
               : by \in [targets -> {q \in Requests : Service(q) = s} \X DOMAIN Engine],
                 found \in Outcomes[s]}
           : targets \in UNION {SUBSET Targets(q) : q \in Requests}, s \in DOMAIN Outcomes}

\* build_scoring_result: one observation of every target, all of this request
\* and this engine.
ResultAllowed(q, e, sheet) ==
    /\ Authorize(q, e)
    /\ \A o \in sheet : o.request = q /\ o.engine = e /\ ObservationAllowed(o)
    /\ \A o, p \in sheet : o.target = p.target => o = p
    /\ {o.target : o \in sheet} = Targets(q)

Results ==
    {[request |-> x[1], engine |-> x[2], observations |-> x[3]] :
        x \in {y \in Requests \X (DOMAIN Engine) \X Sheets : ResultAllowed(y[1], y[2], y[3])}}

\* build_scoring_facets_rating_records
ProjectAllowed(q, t, e) ==
    /\ Ask[q].granularity = "criterion"
    /\ t.request = q /\ t.engine = e
    /\ \A o \in t.observations : o.request = q /\ o.engine = e

\* (fault: a target without a score gives no rating)
RatingsOfScores(q, t, e) ==
    {[request |-> q, engine |-> e, text |-> Submission[Ask[q].response],
      criterion |-> o.target, score |-> o.score, result |-> t]
     : o \in {p \in t.observations : p.score \notin Terminal}}

\* Labels come from the request and the engine, scores from the result.
Ratings(q, t, e) ==
    {[request |-> q, engine |-> e, text |-> Submission[Ask[q].response],
      criterion |-> o.target, score |-> o.score, result |-> t] : o \in t.observations}

Projections ==
    {Ratings(x[1], x[2], x[3]) : x \in {y \in Requests \X Results \X DOMAIN Engine :
                                            ProjectAllowed(y[1], y[2], y[3])}}

-----------------------------------------------------------------------------
(* Designs.  D is the ratings of one criterion, R those of a bundle. *)

Respondents(D) == {r.text.respondent : r \in D}
Revisions(D)   == {r.text.revision : r \in D}
Raters(D)      == {r.engine : r \in D}
Scored(D)      == {r \in D : r.score \notin Terminal}
Cell(r)        == <<r.text.respondent, r.text.revision, r.engine>>

\* (fault: only response identifiers are looked at, not whose cell they fill)
ProvenanceOfIds(R) ==
    \A r, s \in R : r.text.id = s.text.id => r.text.revision = s.text.revision

\* _identity_provenance: a response is one text of one respondent on one task
\* revision, of which the respondent has no other, and a revision is of one task.
Provenance(R) ==
    \A r, s \in R :
        /\ r.text.id = s.text.id => r.text = s.text
        /\ r.text.revision = s.text.revision =>
               r.text.task = s.text.task /\ r.text.family = s.text.family
        /\ (r.text.respondent = s.text.respondent /\ r.text.revision = s.text.revision)
               => r.text.id = s.text.id /\ r.text.content = s.text.content

\* _bipartite_connected: what a search from the first left node visits
Connected(left, right, edges) ==
    LET nodes == ({"left"} \X left) \cup ({"right"} \X right)
        Adjacent(n) == {m \in nodes : \E e \in edges :
                            {n, m} = {<<"left", e[1]>>, <<"right", e[2]>>}}
        visited[k \in 0 .. Cardinality(nodes)] ==
            IF k = 0 THEN {<<"left", CHOOSE x \in left : TRUE>>}
            ELSE LET before == visited[k - 1]
                 IN  before \cup UNION {Adjacent(n) : n \in before}
    IN  visited[Cardinality(nodes)] = nodes

\* (fault: an assigned text links its respondent though it was never scored)
DesignConnectedByAssignment(D) ==
    /\ Connected(Respondents(D), Revisions(D), {<<Cell(r)[1], Cell(r)[2]>> : r \in D})
    /\ Connected(Revisions(D), Raters(D), {<<Cell(r)[2], Cell(r)[3]>> : r \in D})

\* _design_connected
DesignConnected(D) ==
    /\ Connected(Respondents(D), Revisions(D), {<<Cell(r)[1], Cell(r)[2]>> : r \in Scored(D)})
    /\ Connected(Revisions(D), Raters(D), {<<Cell(r)[2], Cell(r)[3]>> : r \in Scored(D)})

\* The loop over a design's records: each cell is filled once.
CellsFree(D) == Provenance(D) /\ \A r, s \in D : Cell(r) = Cell(s) => r = s

\* _build_criterion_design
DesignAllowed(D, required) ==
    /\ \A axis \in {Respondents(D), Revisions(D), Raters(D)} : Cardinality(axis) >= 2
    /\ Respondents(Scored(D)) = Respondents(D)
    /\ Revisions(Scored(D)) = Revisions(D)
    /\ Raters(Scored(D)) = Raters(D)
    /\ Cardinality({r.score : r \in Scored(D)}) >= 2
    /\ Cardinality(Respondents(D)) * Cardinality(Revisions(D)) * Cardinality(Raters(D))
           <= CellBudget
    /\ required => DesignConnected(D)
    /\ CellsFree(D)

\* (fault: one rubric is taken for one assessment)
OneRubric(R) == Cardinality({Ask[r.request].rubric : r \in R}) = 1

\* Assessment, rubric (its construct and scale with it); the occasion is one.
OneContract(R) == Cardinality({<<Ask[r.request].assessment, Ask[r.request].rubric>> : r \in R}) = 1

Designs(R) == [c \in {r.criterion : r \in R} |-> {r \in R : r.criterion = c}]

\* build_scoring_facets_calibration_bundle
BundleAllowed(R, required) ==
    /\ OneContract(R)
    /\ \A D \in Range(Designs(R)) : DesignAllowed(D, required)
    /\ Provenance(R)

\* to_fit_facets_kwargs, after _replay_design, which always wants connectedness
FitAllowed(D) ==
    /\ DesignAllowed(D, TRUE)
    /\ {r.score : r \in Scored(D)} = Rubric[Ask[(CHOOSE r \in D : TRUE).request].rubric].scale

-----------------------------------------------------------------------------
VARIABLES
    collected,  \* the ratings the caller has put together, projected from results
    bundle,     \* the designs of the bundle built last: criterion |-> ratings
    fits        \* the designs of the last fit

scoring == <<collected, bundle, fits>>

NoBundle == [c \in {} |-> {}]

ScoringInit == collected = {} /\ bundle = NoBundle /\ fits = {}

\* Ratings collected after a bundle was built cannot change it: whatever is
\* fitted is fitted as well by a caller that has done its collecting before.
Collect(offered) ==
    /\ bundle = NoBundle
    /\ Cardinality({r.result : r \in collected}) < MaxResults
    /\ \E records \in offered : collected' = collected \cup records
    /\ UNCHANGED <<bundle, fits>>

Bundle(required) ==
    /\ BundleAllowed(collected, required)
    /\ bundle' = Designs(collected)
    /\ UNCHANGED <<collected, fits>>

FitDesign(c) ==
    /\ FitAllowed(bundle[c])
    /\ fits' = {bundle[c]}
    /\ UNCHANGED <<collected, bundle>>

\* One criterion that cannot be fitted fails them all.
FitBundle ==
    /\ bundle # NoBundle
    /\ BundleAllowed(UNION Range(bundle), TRUE)
    /\ \A D \in Range(bundle) : FitAllowed(D)
    /\ fits' = Range(bundle)
    /\ UNCHANGED <<collected, bundle>>

-----------------------------------------------------------------------------
(* Properties, all about what reaches the estimator *)

\* The score in a cell is what the engine of that cell said of the text that
\* the respondent of that cell wrote for the task revision of that cell.  Every
\* engine is one that the assessment's own policy admits, and all ratings of a
\* fit were given under one rubric.
CellsTraceable ==
    \A D \in fits : \A r \in D :
        /\ \E o \in r.result.observations :
               /\ o.target = r.criterion /\ o.score = r.score /\ o.engine = r.engine
               /\ r.text = Submission[Ask[o.request].response]
        /\ \A s \in D :
               LET policy == Permits(s.request) IN
               /\ IF Engine[r.engine].human THEN policy.human
                  ELSE policy.automated /\ r.engine \in policy.engines
               /\ Ask[r.request].rubric = Ask[s.request].rubric

\* Engines that are compared on a respondent and a task revision have read the
\* same text, and no response stands for two respondents or two revisions.
OneTextPerCell ==
    \A D \in fits : \A r, s \in D :
        /\ (Cell(r)[1] = Cell(s)[1] /\ Cell(r)[2] = Cell(s)[2]) => r.text.content = s.text.content
        /\ r.text.id = s.text.id => Cell(r)[1] = Cell(s)[1] /\ Cell(r)[2] = Cell(s)[2]

\* Whatever is compared is linked by scores: respondents, task revisions and
\* engines of a fit do not fall into two groups without a score across.
FitsAreLinked ==
    \A D \in fits :
        LET elements == Respondents(D) \cup Revisions(D) \cup Raters(D)
            linked   == {{Cell(r)[1], Cell(r)[2], Cell(r)[3]} : r \in Scored(D)}
        IN  \A group \in (SUBSET elements) \ {{}, elements} :
                \E cell \in linked : cell \cap group # {} /\ ~(cell \subseteq group)

\* An engine cannot leave a criterion out: whoever has a rating in a fit has a
\* rating, scored or not, on every criterion it was asked about, in the ratings
\* the caller holds.
NoCriterionLeftOut ==
    \A D \in fits : \A r \in D : \A c \in Targets(r.request) :
        \E s \in collected :
            s.request = r.request /\ s.engine = r.engine /\ s.result = r.result /\ s.criterion = c
=============================================================================
