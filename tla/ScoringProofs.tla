---------------------------- MODULE ScoringProofs ----------------------------
(***************************************************************************)
(* What reaches the estimator and what a report hides, for every rubric,   *)
(* assessment, engine, request, essay and issue and every number of        *)
(* results.                                                                *)
(*                                                                         *)
(* The inductive invariant traces what the caller holds to the builders:   *)
(* a rating comes with all ratings of its result, and they are those of an *)
(* allowed projection of an allowed result; a bundle is the designs of     *)
(* what is held; a fit is an allowed design of one contract; an issue's    *)
(* ratings replayed against it, its extraction against a packet; a report  *)
(* was bound.  A builder that took its labels, its policy or its evidence  *)
(* from another artifact than the one it checked would break it.           *)
(***************************************************************************)
EXTENDS ScoringServices, CountingLemmas

\* r is a rating of an allowed projection, all of which is in R.
Traced(r, R) ==
    /\ r.request \in Requests /\ r.result \in Results
    /\ ProjectAllowed(r.request, r.result, r.engine)
    /\ r \in Ratings(r.request, r.result, r.engine)
    /\ Ratings(r.request, r.result, r.engine) \subseteq R

CollectedIsTraced == IsFiniteSet(collected) /\ \A r \in collected : Traced(r, collected)

\* Texts are scored by the text service, and an issue's ratings replay against it.
CollectedIsOfService ==
    /\ service \in {"texts", "issues"}
    /\ service = "texts"  => \A r \in collected : Service(r.request) = "texts"
    /\ service = "issues" => \A r \in collected :
           \E i \in DOMAIN Issue : ExecutionAllowed(i, r.request, r.result, r.engine)

\* Collecting ends when a bundle is built, so it stays the bundle of what is held.
BundleIsBuilt ==
    bundle # NoBundle => bundle = Designs(collected) /\ OneContract(collected)

\* The caller may collect on after a fit: a fit is of a part of what is held.
FitsAreAllowed ==
    \A D \in fits : /\ D \subseteq collected /\ D # {}
                    /\ \A r, s \in D : /\ Ask[r.request].assessment = Ask[s.request].assessment
                                       /\ Ask[r.request].rubric = Ask[s.request].rubric
                    /\ DesignAllowed(D, TRUE)

ExtractionReplays ==
    extracted = {} \/ \E packet \in Packets : PacketAllowed(packet) /\ OutputAllowed(extracted, packet)

ReportIsBound ==
    scoreReport = NoReport \/
        /\ scoreReport.request \in DOMAIN Ask /\ scoreReport.result \in Results
        /\ ReportAllowed(scoreReport.request, scoreReport.result, scoreReport.result.engine)
        /\ ReviewTriggers(scoreReport.request, scoreReport.result) \subseteq scoreReport.triggers

IInv ==
    /\ CollectedIsTraced /\ CollectedIsOfService
    /\ BundleIsBuilt /\ FitsAreAllowed
    /\ ExtractionReplays /\ ReportIsBound

-----------------------------------------------------------------------------
(* What the builders made *)

\* A result was allowed for its own request, engine and observations.
LEMMA ResultIsAllowed ==
    ASSUME NEW t \in Results
    PROVE  /\ t.request \in Requests /\ t.engine \in DOMAIN Engine
           /\ ResultAllowed(t.request, t.engine, t.observations)
<1>1. PICK y \in Requests \X (DOMAIN Engine) \X Sheets :
          /\ ResultAllowed(y[1], y[2], y[3])
          /\ t = [request |-> y[1], engine |-> y[2], observations |-> y[3]]
  BY DEF Results
<1> QED BY <1>1

\* A result has finitely many observations.
LEMMA ObservationsFinite ==
    ASSUME NEW t \in Results
    PROVE  IsFiniteSet(t.observations)
<1> DEFINE T == Targets(t.request)
           f == [o \in t.observations |-> o.target]
<1>1. ResultAllowed(t.request, t.engine, t.observations) /\ t.request \in Requests
  BY ResultIsAllowed
<1>2. IsFiniteSet(T)
  <2>1. t.request \in DOMAIN Ask BY <1>1 DEF Requests
  <2> QED BY <2>1, ScoringAssumption, FS_Singleton DEF Targets
<1>3. f \in Injection(t.observations, T)
  BY <1>1 DEF ResultAllowed, Injection, IsInjective
<1> QED BY <1>2, <1>3, FS_Injection

\* A rating has its labels from the request and the engine, its score from the result.
LEMMA RatingMeans ==
    ASSUME NEW q, NEW t, NEW e, NEW r \in Ratings(q, t, e)
    PROVE  /\ r.request = q /\ r.engine = e /\ r.result = t
           /\ r.text = Submission[Ask[q].response]
           /\ \E o \in t.observations : r.criterion = o.target /\ r.score = o.score
BY DEF Ratings

\* So it has finitely many ratings.
LEMMA RatingsFinite ==
    ASSUME NEW q, NEW t \in Results, NEW e
    PROVE  IsFiniteSet(Ratings(q, t, e))
<1> DEFINE f == [o \in t.observations |->
                     [request |-> q, engine |-> e, text |-> Submission[Ask[q].response],
                      criterion |-> o.target, score |-> o.score, result |-> t]]
<1>1. f \in Surjection(t.observations, Ratings(q, t, e))
  BY DEF Surjection, Ratings
<1> QED BY <1>1, ObservationsFinite, FS_Surjection

\* An allowed projection is traced in itself.
LEMMA RatingsTraced ==
    ASSUME NEW q \in Requests, NEW t \in Results, NEW e, ProjectAllowed(q, t, e)
    PROVE  \A r \in Ratings(q, t, e) : Traced(r, Ratings(q, t, e))
<1> TAKE r \in Ratings(q, t, e)
<1>1. r.request = q /\ r.engine = e /\ r.result = t
  BY RatingMeans
<1> QED BY <1>1 DEF Traced

\* What the text service collects is a projection of its own requests.
LEMMA TextRatingsTraced ==
    ASSUME NEW records \in TextRatings
    PROVE  /\ IsFiniteSet(records)
           /\ \A r \in records : Traced(r, records) /\ Service(r.request) = "texts"
<1>1. PICK y \in Requests \X Results \X DOMAIN Engine :
          ProjectAllowed(y[1], y[2], y[3]) /\ records = Ratings(y[1], y[2], y[3])
  BY DEF TextRatings, Projections
<1>2. \A r \in records : Service(r.request) = "texts"
  BY DEF TextRatings, TextRequests
<1> QED BY <1>1, <1>2, RatingsFinite, RatingsTraced

\* What the issue service collects is a projection that replays against an issue.
LEMMA IssueRatingsTraced ==
    ASSUME NEW records \in IssueRatings
    PROVE  /\ IsFiniteSet(records)
           /\ \A r \in records :
                  /\ Traced(r, records)
                  /\ \E i \in DOMAIN Issue : ExecutionAllowed(i, r.request, r.result, r.engine)
<1>1. PICK y \in IssueRequests \X IssueResults :
          /\ records = Ratings(y[1], y[2], y[2].engine)
          /\ \E i \in DOMAIN Issue : ExecutionAllowed(i, y[1], y[2], y[2].engine)
  BY DEF IssueRatings
<1>2. y[1] \in Requests /\ y[2] \in Results
  BY DEF IssueRequests, IssueResults
<1>3. ProjectAllowed(y[1], y[2], y[2].engine)
  BY <1>1 DEF ExecutionAllowed
<1>4. \A r \in records : r.request = y[1] /\ r.engine = y[2].engine /\ r.result = y[2]
  BY <1>1, RatingMeans
<1> QED BY <1>1, <1>2, <1>3, <1>4, RatingsFinite, RatingsTraced

\* Ratings that come later take no trace away.
LEMMA TracedGrows ==
    ASSUME NEW r, NEW R, NEW S, R \subseteq S, Traced(r, R)
    PROVE  Traced(r, S)
BY DEF Traced

\* The ratings of one contract are of one assessment and one rubric.
LEMMA ContractIsOne ==
    ASSUME NEW R, IsFiniteSet(R), OneContract(R)
    PROVE  \A r, s \in R : /\ Ask[r.request].assessment = Ask[s.request].assessment
                           /\ Ask[r.request].rubric = Ask[s.request].rubric
<1> DEFINE contract(r) == <<Ask[r.request].assessment, Ask[r.request].rubric>>
           C == {contract(r) : r \in R}
           f == [r \in R |-> contract(r)]
<1>1. f \in Surjection(R, C)
  BY DEF Surjection
<1>2. IsFiniteSet(C)
  <2> HIDE DEF C, f
  <2> QED BY <1>1, FS_Surjection
<1>3. PICK x : C = {x}
  BY <1>2, FS_Singleton DEF OneContract
<1>4. \A r \in R : contract(r) = x
  BY <1>3
<1> QED BY <1>4

\* A design of a bundle is part of it and not empty.
LEMMA DesignIsPart ==
    ASSUME NEW R, NEW D \in Range(Designs(R))
    PROVE  D \subseteq R /\ D # {}
BY DEF Range, Designs

-----------------------------------------------------------------------------
(* The invariant is inductive *)

\* Nothing is held at first.
LEMMA InitIInv == Init => IInv
<1> SUFFICES ASSUME Init PROVE IInv
  OBVIOUS
<1> USE DEF Init, ScoringInit, EssayInit, IssueInit
<1>1. CollectedIsTraced
  BY FS_EmptySet DEF CollectedIsTraced
<1>2. CollectedIsOfService
  BY DEF CollectedIsOfService
<1>3. BundleIsBuilt /\ FitsAreAllowed /\ ExtractionReplays /\ ReportIsBound
  BY DEF BundleIsBuilt, FitsAreAllowed, ExtractionReplays, ReportIsBound
<1> QED BY <1>1, <1>2, <1>3 DEF IInv

\* Ratings collected by either service leave what was traced, built and fitted.
LEMMA CollectPreserves ==
    ASSUME IInv, NEW offered, Collect(offered),
           \A records \in offered :
               IsFiniteSet(records) /\ \A r \in records : Traced(r, records)
    PROVE  CollectedIsTraced' /\ BundleIsBuilt' /\ FitsAreAllowed'
<1>1. PICK records \in offered : collected' = collected \cup records
  BY DEF Collect
<1>2. IsFiniteSet(records) /\ \A r \in records : Traced(r, records)
  BY <1>1
<1>3. CollectedIsTraced'
  <2>1. IsFiniteSet(collected')
    BY <1>1, <1>2, FS_Union DEF IInv, CollectedIsTraced
  <2>2. ASSUME NEW r \in collected' PROVE Traced(r, collected')
    BY <1>1, <1>2, TracedGrows DEF IInv, CollectedIsTraced
  <2> QED BY <2>1, <2>2 DEF CollectedIsTraced
<1>4. BundleIsBuilt'
  BY DEF Collect, BundleIsBuilt
<1>5. FitsAreAllowed'
  BY <1>1 DEF Collect, IInv, FitsAreAllowed
<1> QED BY <1>3, <1>4, <1>5

\* Designs of one contract, each allowed to be fitted, make an allowed fit.
LEMMA FitPreserves ==
    ASSUME IInv, OneContract(collected), UNCHANGED collected,
           \A D \in fits' : D \in Range(Designs(collected)) /\ FitAllowed(D)
    PROVE  FitsAreAllowed'
<1> SUFFICES ASSUME NEW D \in fits'
             PROVE  /\ D \subseteq collected /\ D # {}
                    /\ \A r, s \in D : /\ Ask[r.request].assessment = Ask[s.request].assessment
                                       /\ Ask[r.request].rubric = Ask[s.request].rubric
                    /\ DesignAllowed(D, TRUE)
  BY DEF FitsAreAllowed
<1>1. D \subseteq collected /\ D # {}
  BY DesignIsPart
<1>2. \A r, s \in D : /\ Ask[r.request].assessment = Ask[s.request].assessment
                      /\ Ask[r.request].rubric = Ask[s.request].rubric
  BY <1>1, ContractIsOne DEF IInv, CollectedIsTraced
<1>3. DesignAllowed(D, TRUE)
  BY DEF FitAllowed
<1> QED BY <1>1, <1>2, <1>3

\* A report and the ratings of texts
LEMMA TextsPreserve == ASSUME IInv, Texts PROVE IInv'
<1>1. CASE IssueReport /\ UNCHANGED <<extracted, service>>
  <2> USE <1>1
  <2>1. ReportIsBound'
    <3>1. PICK t \in Results, q \in {r \in DOMAIN Ask : EssayRequest(r)}, more \in SUBSET {"by policy"} :
              /\ ReportAllowed(q, t, t.engine)
              /\ scoreReport' = [issued |-> TRUE, request |-> q, result |-> t,
                                 triggers |-> ReviewTriggers(q, t) \cup more]
      BY DEF IssueReport
    <3>2. /\ scoreReport'.request = q /\ scoreReport'.result = t
          /\ scoreReport'.triggers = ReviewTriggers(q, t) \cup more
      BY <3>1
    <3> QED BY <3>1, <3>2 DEF ReportIsBound
  <2>2. UNCHANGED scoring
    BY DEF IssueReport
  <2>3. /\ CollectedIsTraced' /\ CollectedIsOfService' /\ BundleIsBuilt'
        /\ FitsAreAllowed' /\ ExtractionReplays'
    BY <2>2 DEF scoring, IInv, CollectedIsTraced, CollectedIsOfService, BundleIsBuilt,
                FitsAreAllowed, ExtractionReplays
  <2> QED BY <2>1, <2>3 DEF IInv
<1>2. CASE Collect(TextRatings) /\ UNCHANGED <<scoreReport, extracted, service>>
  <2> USE <1>2
  <2>1. CollectedIsTraced' /\ BundleIsBuilt' /\ FitsAreAllowed'
    BY TextRatingsTraced, CollectPreserves
  <2>2. CollectedIsOfService'
    <3>1. PICK records \in TextRatings : collected' = collected \cup records
      BY DEF Collect
    <3>2. \A r \in records : Service(r.request) = "texts"
      BY TextRatingsTraced
    <3>3. service = "texts"
      BY DEF Texts
    <3> QED BY <3>1, <3>2, <3>3 DEF IInv, CollectedIsOfService
  <2>3. ExtractionReplays' /\ ReportIsBound'
    BY DEF IInv, ExtractionReplays, ReportIsBound
  <2> QED BY <2>1, <2>2, <2>3 DEF IInv
<1> QED BY <1>1, <1>2 DEF Texts

\* An extraction, the ratings of issues and their fit
LEMMA IssuesPreserve == ASSUME IInv, Issues PROVE IInv'
<1>1. CASE Extract /\ UNCHANGED <<scoreReport, service>>
  <2> USE <1>1
  <2>1. ExtractionReplays'
    BY DEF Extract, ExtractionReplays
  <2>2. UNCHANGED scoring
    BY DEF Extract
  <2>3. /\ CollectedIsTraced' /\ CollectedIsOfService' /\ BundleIsBuilt'
        /\ FitsAreAllowed' /\ ReportIsBound'
    BY <2>2 DEF scoring, IInv, CollectedIsTraced, CollectedIsOfService, BundleIsBuilt,
                FitsAreAllowed, ReportIsBound
  <2> QED BY <2>1, <2>3 DEF IInv
<1>2. CASE Collect(IssueRatings) /\ UNCHANGED <<scoreReport, extracted, service>>
  <2> USE <1>2
  <2>1. CollectedIsTraced' /\ BundleIsBuilt' /\ FitsAreAllowed'
    BY IssueRatingsTraced, CollectPreserves
  <2>2. CollectedIsOfService'
    <3>1. PICK records \in IssueRatings : collected' = collected \cup records
      BY DEF Collect
    <3>2. \A r \in records :
              \E i \in DOMAIN Issue : ExecutionAllowed(i, r.request, r.result, r.engine)
      BY IssueRatingsTraced
    <3>3. service = "issues"
      BY DEF Issues
    <3> QED BY <3>1, <3>2, <3>3 DEF IInv, CollectedIsOfService
  <2>3. ExtractionReplays' /\ ReportIsBound'
    BY DEF IInv, ExtractionReplays, ReportIsBound
  <2> QED BY <2>1, <2>2, <2>3 DEF IInv
<1>3. CASE FitReports /\ UNCHANGED <<scoreReport, service>>
  <2> USE <1>3
  <2>1. UNCHANGED <<collected, bundle, extracted>>
    BY DEF FitReports
  <2>2. FitsAreAllowed'
    BY FitPreserves DEF FitReports, BundleAllowed
  <2>3. /\ CollectedIsTraced' /\ CollectedIsOfService' /\ BundleIsBuilt'
        /\ ExtractionReplays' /\ ReportIsBound'
    BY <2>1 DEF IInv, CollectedIsTraced, CollectedIsOfService, BundleIsBuilt,
                ExtractionReplays, ReportIsBound
  <2> QED BY <2>2, <2>3 DEF IInv
<1> QED BY <1>1, <1>2, <1>3 DEF Issues

\* A bundle, the fit of one of its designs, the fit of all
LEMMA CalibratePreserves == ASSUME IInv, Calibrate PROVE IInv'
<1> USE DEF Calibrate
<1>1. UNCHANGED <<collected, scoreReport, extracted, service>>
  BY DEF Bundle, FitDesign, FitBundle
<1>2. CollectedIsTraced' /\ CollectedIsOfService' /\ ExtractionReplays' /\ ReportIsBound'
  BY <1>1 DEF IInv, CollectedIsTraced, CollectedIsOfService, ExtractionReplays, ReportIsBound
<1>3. ASSUME NEW required \in BOOLEAN, Bundle(required)
      PROVE  BundleIsBuilt' /\ FitsAreAllowed'
  BY <1>3 DEF Bundle, BundleAllowed, IInv, BundleIsBuilt, FitsAreAllowed
<1>4. ASSUME NEW c \in DOMAIN bundle, FitDesign(c)
      PROVE  BundleIsBuilt' /\ FitsAreAllowed'
  <2>1. bundle = Designs(collected) /\ OneContract(collected)
    BY DEF IInv, BundleIsBuilt, NoBundle
  <2>2. bundle[c] \in Range(Designs(collected))
    BY <2>1 DEF Range
  <2>3. FitsAreAllowed'
    BY <1>1, <1>4, <2>1, <2>2, FitPreserves DEF FitDesign
  <2> QED BY <1>4, <2>3 DEF FitDesign, IInv, BundleIsBuilt
<1>5. ASSUME FitBundle
      PROVE  BundleIsBuilt' /\ FitsAreAllowed'
  <2>1. bundle = Designs(collected) /\ OneContract(collected)
    BY <1>5 DEF IInv, BundleIsBuilt, FitBundle
  <2>2. FitsAreAllowed'
    BY <1>1, <1>5, <2>1, FitPreserves DEF FitBundle
  <2> QED BY <1>5, <2>2 DEF FitBundle, IInv, BundleIsBuilt
<1> QED BY <1>2, <1>3, <1>4, <1>5 DEF IInv

\* Every step
LEMMA NextIInv == IInv /\ [Next]_vars => IInv'
<1>1. ASSUME IInv, UNCHANGED vars PROVE IInv'
  BY <1>1 DEF vars, IInv, CollectedIsTraced, CollectedIsOfService, BundleIsBuilt, FitsAreAllowed,
              ExtractionReplays, ReportIsBound
<1> QED BY <1>1, TextsPreserve, IssuesPreserve, CalibratePreserves DEF Next

\* The invariant holds of every behaviour.
LEMMA Invariance == Spec => []IInv
BY InitIInv, NextIInv, PTL DEF Spec

-----------------------------------------------------------------------------
(* What reaches the estimator *)

\* Every score in a fit was given, for the very text its cell names, by an engine
\* that the policy of the one assessment of the fit admits, under its one rubric.
THEOREM CellTraceability == Spec => []CellsTraceable
<1>1. IInv => CellsTraceable
  <2> SUFFICES ASSUME IInv, NEW D \in fits, NEW r \in D
               PROVE  /\ \E o \in r.result.observations :
                             /\ o.target = r.criterion /\ o.score = r.score /\ o.engine = r.engine
                             /\ r.text = Submission[Ask[o.request].response]
                      /\ \A s \in D :
                             /\ IF Engine[r.engine].human THEN Permits(s.request).human
                                ELSE Permits(s.request).automated
                                     /\ r.engine \in Permits(s.request).engines
                             /\ Ask[r.request].rubric = Ask[s.request].rubric
    BY DEF CellsTraceable
  <2>1. Traced(r, collected)
    BY DEF IInv, FitsAreAllowed, CollectedIsTraced
  <2>2. \E o \in r.result.observations :
            /\ o.target = r.criterion /\ o.score = r.score /\ o.engine = r.engine
            /\ r.text = Submission[Ask[o.request].response]
    BY <2>1, RatingMeans DEF Traced, ProjectAllowed
  <2>3. ASSUME NEW s \in D
        PROVE  /\ Permits(s.request) = Permits(r.request)
               /\ Ask[r.request].rubric = Ask[s.request].rubric
    BY DEF IInv, FitsAreAllowed, Permits
  <2>4. Authorize(r.request, r.engine)
    <3>1. r.result \in Results /\ r.result.request = r.request /\ r.result.engine = r.engine
      BY <2>1 DEF Traced, ProjectAllowed
    <3> QED BY <3>1, ResultIsAllowed DEF ResultAllowed
  <2> QED BY <2>2, <2>3, <2>4 DEF Authorize
<1> QED BY <1>1, Invariance, PTL

\* Engines compared in a fit on one respondent and revision read one text, and a
\* response identifier is of one respondent and one revision.
THEOREM OneTextForACell == Spec => []OneTextPerCell
<1>1. IInv => OneTextPerCell
  <2> SUFFICES ASSUME IInv, NEW D \in fits, NEW r \in D, NEW s \in D
               PROVE  /\ (Cell(r)[1] = Cell(s)[1] /\ Cell(r)[2] = Cell(s)[2])
                             => r.text.content = s.text.content
                      /\ r.text.id = s.text.id
                             => Cell(r)[1] = Cell(s)[1] /\ Cell(r)[2] = Cell(s)[2]
    BY DEF OneTextPerCell
  <2>1. Provenance(D)
    BY DEF IInv, FitsAreAllowed, DesignAllowed, CellsFree
  <2> QED BY <2>1 DEF Provenance, Cell
<1> QED BY <1>1, Invariance, PTL

\* Whoever has a rating in a fit has one on every criterion it was asked about.
THEOREM CriteriaAreComplete == Spec => []NoCriterionLeftOut
<1>1. IInv => NoCriterionLeftOut
  <2> SUFFICES ASSUME IInv, NEW D \in fits, NEW r \in D, NEW c \in Targets(r.request)
               PROVE  \E s \in collected :
                          /\ s.request = r.request /\ s.engine = r.engine
                          /\ s.result = r.result /\ s.criterion = c
    BY DEF NoCriterionLeftOut
  <2>1. Traced(r, collected)
    BY DEF IInv, FitsAreAllowed, CollectedIsTraced
  <2>2. r.result \in Results /\ r.result.request = r.request
    BY <2>1 DEF Traced, ProjectAllowed
  <2>3. PICK o \in r.result.observations : o.target = c
    BY <2>2, ResultIsAllowed DEF ResultAllowed
  <2> DEFINE s == [request |-> r.request, engine |-> r.engine,
                   text |-> Submission[Ask[r.request].response],
                   criterion |-> o.target, score |-> o.score, result |-> r.result]
  <2>4. s \in Ratings(r.request, r.result, r.engine)
    BY DEF Ratings
  <2>5. s \in collected
    BY <2>1, <2>4 DEF Traced
  <2> QED BY <2>3, <2>5
<1> QED BY <1>1, Invariance, PTL

\* A score report that asks nobody to look speaks of an unflagged essay within its
\* limit, scored on evidence on every criterion by an admitted engine.
THEOREM ReviewReachesAPerson == Spec => []ReviewIsNotLost
<1>1. IInv => ReviewIsNotLost
  <2> SUFFICES ASSUME IInv, scoreReport.issued, scoreReport.triggers = {}
               PROVE  LET t == scoreReport.result
                          x == Essay[Ask[t.request].notes.essay]
                      IN  /\ x.flags = {} /\ x.length <= Prompt[x.prompt].limit
                          /\ \A c \in Targets(scoreReport.request) : \E o \in t.observations :
                                 o.target = c /\ o.score \notin Terminal /\ o.cites # {}
                          /\ Authorize(scoreReport.request, t.engine)
    BY DEF ReviewIsNotLost
  <2> DEFINE q == scoreReport.request
             t == scoreReport.result
             x == Essay[Ask[t.request].notes.essay]
  <2>1. t \in Results /\ ReportAllowed(q, t, t.engine) /\ ReviewTriggers(q, t) = {}
    BY DEF IInv, ReportIsBound, NoReport
  <2>2. t.request = q
    BY <2>1 DEF ReportAllowed, Answers
  <2>3. x.flags = {} /\ \A o \in t.observations : o.score \notin Terminal /\ o.cites # {}
    BY <2>1, <2>2 DEF ReviewTriggers
  <2>4. x.length <= Prompt[x.prompt].limit
    BY <2>1, <2>2 DEF ReportAllowed, EssayRequest, SubmissionAllowed
  <2>5. Targets(q) = {o.target : o \in t.observations}
    BY <2>1 DEF ReportAllowed
  <2>6. Authorize(q, t.engine)
    BY <2>1, <2>2, ResultIsAllowed DEF ResultAllowed
  <2> QED BY <2>3, <2>4, <2>5, <2>6
<1> QED BY <1>1, Invariance, PTL

\* A record's passages against the issue are exactly those of that kind.
LEMMA RolesOfSpans ==
    ASSUME NEW i, RecordAllowed(i)
    PROVE  /\ \A s \in CounterSpans(i) : Role(s) = "counter"
           /\ \A s \in IssueSpans(i) : Role(s) = "counter" => s \in CounterSpans(i)
BY DEF RecordAllowed, CounterSpans, IssueSpans, Role

\* What an extraction returned stands in its sources, and no passage twice.
LEMMA ExtractedReplays ==
    ASSUME IInv, NEW i \in extracted
    PROVE  /\ \A s \in IssueSpans(i) :
                  /\ s.words = SubSeq(Source[s.record].words, s.from + 1, s.to)
                  /\ s.to <= Len(Source[s.record].words)
           /\ \A s, t \in IssueSpans(i) : s # t => ~Overlap(s, t)
<1>1. PICK packet \in Packets : PacketAllowed(packet) /\ OutputAllowed(extracted, packet)
  BY DEF IInv, ExtractionReplays
<1>2. ASSUME NEW s \in IssueSpans(i)
      PROVE  /\ s.words = SubSeq(Source[s.record].words, s.from + 1, s.to)
             /\ s.to <= Len(Source[s.record].words)
  <2>1. SpanReplays(s, packet)
    BY <1>1 DEF OutputAllowed
  <2>2. packet.texts[s.id] = Source[s.record].words
    BY <1>1, <2>1 DEF SpanReplays, PacketAllowed
  <2> QED BY <2>1, <2>2 DEF SpanReplays
<1>3. \A s, t \in IssueSpans(i) : s # t => ~Overlap(s, t)
  BY <1>1 DEF OutputAllowed
<1> QED BY <1>2, <1>3

\* An issue's score in a fit rests on the issue's own evidence, on that against it
\* too, and an extracted issue's evidence stands in the sources, once.
THEOREM EvidenceUnderScores == Spec => []ScoresRestOnEvidence
<1>1. IInv => ScoresRestOnEvidence
  <2> SUFFICES ASSUME IInv, NEW D \in fits, NEW r \in Scored(D), Service(r.request) = "issues"
               PROVE  LET i == Carried(r.request).issue
                          cited == {s \in IssueSpans(i) : \E o \in r.result.observations :
                                        o.target = r.criterion /\ Reference(s) \in o.cites}
                      IN  /\ \E s \in cited : Role(s) = "supporting"
                          /\ CounterSpans(i) # {} => cited \cap CounterSpans(i) # {}
                          /\ i \in extracted => \A s \in cited :
                                 /\ s.words = SubSeq(Source[s.record].words, s.from + 1, s.to)
                                 /\ s.to <= Len(Source[s.record].words)
                                 /\ \A t \in cited : s # t => ~Overlap(s, t)
    BY DEF ScoresRestOnEvidence
  <2> DEFINE i == Carried(r.request).issue
             cited == {s \in IssueSpans(i) : \E o \in r.result.observations :
                           o.target = r.criterion /\ Reference(s) \in o.cites}
             own == {Reference(s) : s \in IssueSpans(i)}
  <2>1. r \in collected /\ Traced(r, collected) /\ r.score \notin Terminal
    BY DEF IInv, FitsAreAllowed, CollectedIsTraced, Scored
  <2>2. ExecutionAllowed(i, r.request, r.result, r.engine)
    <3>1. PICK j \in DOMAIN Issue : ExecutionAllowed(j, r.request, r.result, r.engine)
      BY <2>1 DEF IInv, CollectedIsOfService
    <3> QED BY <3>1 DEF ExecutionAllowed, RequestOf
  <2>3. PICK o \in r.result.observations : r.criterion = o.target /\ r.score = o.score
    BY <2>1, RatingMeans DEF Traced
  <2>4. RestsOn(i, o) /\ o.score # Abstained
    BY <2>1, <2>2, <2>3, IssueAssumption DEF ExecutionAllowed
  <2>5. \E s \in cited : Role(s) = "supporting"
    <3>1. PICK ref \in o.cites : ref \in OfRole(own, "supporting")
      BY <2>4 DEF RestsOn
    <3>2. PICK s \in IssueSpans(i) : ref = Reference(s) /\ ref.role = "supporting"
      BY <3>1 DEF OfRole
    <3> QED BY <2>3, <3>1, <3>2 DEF Reference
  <2>6. ASSUME CounterSpans(i) # {} PROVE cited \cap CounterSpans(i) # {}
    <3>1. RecordAllowed(i)
      BY <2>2 DEF ExecutionAllowed
    <3>2. OfRole(own, "counter") # {}
      <4>1. PICK s \in CounterSpans(i) : Role(s) = "counter" /\ s \in IssueSpans(i)
        BY <2>6, <3>1, RolesOfSpans DEF IssueSpans
      <4>2. Reference(s) \in own /\ Reference(s).role = "counter"
        BY <4>1 DEF Reference
      <4> QED BY <4>2 DEF OfRole
    <3>3. PICK ref \in o.cites : ref \in OfRole(own, "counter")
      BY <2>4, <3>2 DEF RestsOn
    <3>4. PICK s \in IssueSpans(i) : ref = Reference(s) /\ ref.role = "counter"
      BY <3>3 DEF OfRole
    <3>5. s \in CounterSpans(i)
      BY <3>1, <3>4, RolesOfSpans DEF Reference
    <3> QED BY <2>3, <3>3, <3>4, <3>5
  <2>7. i \in extracted => \A s \in cited :
            /\ s.words = SubSeq(Source[s.record].words, s.from + 1, s.to)
            /\ s.to <= Len(Source[s.record].words)
            /\ \A t \in cited : s # t => ~Overlap(s, t)
    BY ExtractedReplays
  <2> QED BY <2>5, <2>6, <2>7
<1> QED BY <1>1, Invariance, PTL

-----------------------------------------------------------------------------
(* Connectedness.  The search is a recursive function, so what it reaches  *)
(* is proved by the least number for which it fails.                       *)

\* A repeated step from a start is a function of the number of steps.
IsRun(run, n, start, step) ==
    run = [k \in 0 .. n |-> IF k = 0 THEN start ELSE step[run[k - 1]]]

\* There is such a run of every length.
LEMMA RunExists ==
    ASSUME NEW nodes, NEW start \in SUBSET nodes, NEW step \in [SUBSET nodes -> SUBSET nodes],
           NEW n \in Nat
    PROVE  \E run \in [0 .. n -> SUBSET nodes] : IsRun(run, n, start, step)
<1> DEFINE Has(k) == \E run \in [0 .. k -> SUBSET nodes] : IsRun(run, k, start, step)
           Bad == {k \in Nat : ~Has(k)}
<1>1. Has(0)
  <2>1. IsRun([k \in 0 .. 0 |-> start], 0, start, step)
    BY DEF IsRun
  <2> QED BY <2>1
<1>2. ASSUME NEW m \in Nat, Has(m) PROVE Has(m + 1)
  <2>1. PICK run \in [0 .. m -> SUBSET nodes] : IsRun(run, m, start, step)
    BY <1>2
  <2> DEFINE next == [k \in 0 .. (m + 1) |-> IF k = m + 1 THEN step[run[m]] ELSE run[k]]
  <2>2. next \in [0 .. (m + 1) -> SUBSET nodes]
    OBVIOUS
  <2>3. ASSUME NEW k \in 0 .. (m + 1)
        PROVE  next[k] = IF k = 0 THEN start ELSE step[next[k - 1]]
    BY <2>1 DEF IsRun
  <2> QED BY <2>2, <2>3 DEF IsRun
<1>3. ASSUME Bad # {} PROVE FALSE
  <2>1. PICK m \in Bad : \A k \in Bad : m <= k
    <3> HIDE DEF Bad
    <3>1. Bad \subseteq Nat BY DEF Bad
    <3> QED BY <3>1, <1>3, LeastNumber
  <2> HIDE DEF Has
  <2>2. m # 0 /\ m - 1 \in Nat /\ (m - 1) + 1 = m
    BY <1>1
  <2>3. Has(m - 1)
    BY <2>1, <2>2
  <2> QED BY <1>2, <2>2, <2>3
<1> QED BY <1>3

\* A set of names that no edge leaves holds all of a connected graph or none.
LEMMA ConnectedIsLinked ==
    ASSUME NEW left, NEW right, NEW edges, IsFiniteSet(left), IsFiniteSet(right), left # {},
           Connected(left, right, edges),
           NEW G, \A e \in edges : e[1] \in G <=> e[2] \in G
    PROVE  left \cup right \subseteq G \/ (left \cup right) \cap G = {}
<1> DEFINE nodes == ({"left"} \X left) \cup ({"right"} \X right)
           N == Cardinality(nodes)
           Adjacent(n) == {m \in nodes : \E e \in edges :
                               {n, m} = {<<"left", e[1]>>, <<"right", e[2]>>}}
           first == CHOOSE x \in left : TRUE
           start == {<<"left", first>>}
           step == [S \in SUBSET nodes |-> S \cup UNION {Adjacent(n) : n \in S}]
           visited == CHOOSE v : v = [k \in 0 .. N |->
                          IF k = 0 THEN start
                          ELSE v[k - 1] \cup UNION {Adjacent(n) : n \in v[k - 1]}]
           same == {n \in nodes : n[2] \in G <=> first \in G}
<1>1. N \in Nat
  <2>1. IsFiniteSet({"left"} \X left) /\ IsFiniteSet({"right"} \X right)
    BY FS_Singleton, FS_Product
  <2> QED BY <2>1, FS_Union, FS_CardinalityType
<1>2. visited[N] = nodes
  BY DEF Connected
<1>3. first \in left /\ start \in SUBSET nodes
  OBVIOUS
<1>4. step \in [SUBSET nodes -> SUBSET nodes]
  OBVIOUS
<1>5. PICK run \in [0 .. N -> SUBSET nodes] : IsRun(run, N, start, step)
  <2> HIDE DEF nodes, N, start, step
  <2> QED BY <1>1, <1>3, <1>4, RunExists
<1>6. visited = [k \in 0 .. N |->
                    IF k = 0 THEN start
                    ELSE visited[k - 1] \cup UNION {Adjacent(n) : n \in visited[k - 1]}]
  <2>1. ASSUME NEW k \in 0 .. N, k # 0
        PROVE  step[run[k - 1]] = run[k - 1] \cup UNION {Adjacent(n) : n \in run[k - 1]}
    <3>1. k - 1 \in 0 .. N
      BY <1>1, <2>1
    <3>2. run[k - 1] \in SUBSET nodes
      <4> HIDE DEF nodes, N
      <4> QED BY <3>1
    <3> HIDE DEF nodes, Adjacent
    <3> QED BY <3>2
  <2>2. run = [k \in 0 .. N |-> IF k = 0 THEN start
                                ELSE run[k - 1] \cup UNION {Adjacent(n) : n \in run[k - 1]}]
    <3> HIDE DEF nodes, N, Adjacent, start, step
    <3> QED BY <1>5, <2>1 DEF IsRun
  <2> HIDE DEF nodes, N, Adjacent, start, step
  <2> QED BY <2>2
<1>7. start \subseteq same
  <2>1. <<"left", first>> \in nodes
    BY <1>3
  <2> HIDE DEF nodes, first
  <2> QED BY <2>1
<1>8. ASSUME NEW S, S \subseteq same
      PROVE  S \cup UNION {Adjacent(n) : n \in S} \subseteq same
  <2> SUFFICES ASSUME NEW n \in S, NEW m \in Adjacent(n) PROVE m \in same
    BY <1>8
  <2>1. PICK e \in edges : {n, m} = {<<"left", e[1]>>, <<"right", e[2]>>}
    OBVIOUS
  <2>2. m[2] \in G <=> n[2] \in G
    BY <2>1
  <2> QED BY <2>2, <1>8
<1>9. \A k \in 0 .. N : visited[k] \subseteq same
  <2> DEFINE Bad == {k \in 0 .. N : ~(visited[k] \subseteq same)}
  <2> HIDE DEF nodes, N, Adjacent, start, step, same, visited
  <2>1. ASSUME Bad # {} PROVE FALSE
    <3>1. PICK m \in Bad : \A k \in Bad : m <= k
      <4>1. Bad \subseteq Nat BY <1>1
      <4> HIDE DEF Bad
      <4> QED BY <4>1, <2>1, LeastNumber
    <3>2. m # 0
      BY <1>6, <1>7
    <3>3. m - 1 \in 0 .. N /\ visited[m - 1] \subseteq same
      BY <1>1, <3>1, <3>2
    <3>4. visited[m] = visited[m - 1] \cup UNION {Adjacent(n) : n \in visited[m - 1]}
      BY <1>6, <3>2
    <3> QED BY <1>8, <3>3, <3>4
  <2> QED BY <2>1
<1>10. ASSUME NEW x \in left \cup right PROVE x \in G <=> first \in G
  <2>1. nodes \subseteq same
    <3> HIDE DEF nodes, N, same, visited
    <3> QED BY <1>1, <1>2, <1>9
  <2>2. PICK side \in {"left", "right"} : <<side, x>> \in nodes
    OBVIOUS
  <2>3. <<side, x>> \in same
    BY <2>1, <2>2
  <2> HIDE DEF nodes, first
  <2> QED BY <2>3
<1> QED BY <1>10

\* A finite design has finite axes.
LEMMA AxesFinite ==
    ASSUME NEW D, IsFiniteSet(D)
    PROVE  IsFiniteSet(Respondents(D)) /\ IsFiniteSet(Revisions(D)) /\ IsFiniteSet(Raters(D))
<1>1. [r \in D |-> r.text.respondent] \in Surjection(D, Respondents(D))
  BY DEF Surjection, Respondents
<1>2. [r \in D |-> r.text.revision] \in Surjection(D, Revisions(D))
  BY DEF Surjection, Revisions
<1>3. [r \in D |-> r.engine] \in Surjection(D, Raters(D))
  BY DEF Surjection, Raters
<1> QED BY <1>1, <1>2, <1>3, FS_Surjection

\* The respondents, revisions and engines of a fit do not fall into two groups
\* without a score across: the two searches of the design meet in the revisions.
THEOREM FitsLinked == Spec => []FitsAreLinked
<1>1. IInv => FitsAreLinked
  <2> SUFFICES ASSUME IInv, NEW D \in fits
               PROVE  LET elements == Respondents(D) \cup Revisions(D) \cup Raters(D)
                          linked   == {{Cell(r)[1], Cell(r)[2], Cell(r)[3]} : r \in Scored(D)}
                      IN  \A group \in (SUBSET elements) \ {{}, elements} :
                              \E cell \in linked : cell \cap group # {} /\ ~(cell \subseteq group)
    BY DEF FitsAreLinked
  <2> DEFINE elements == Respondents(D) \cup Revisions(D) \cup Raters(D)
             linked == {{Cell(r)[1], Cell(r)[2], Cell(r)[3]} : r \in Scored(D)}
  <2> SUFFICES ASSUME NEW group \in (SUBSET elements) \ {{}, elements},
                      \A cell \in linked : cell \cap group = {} \/ cell \subseteq group
               PROVE  FALSE
    OBVIOUS
  <2>1. D # {} /\ IsFiniteSet(D) /\ DesignConnected(D)
    BY FS_Subset DEF IInv, CollectedIsTraced, FitsAreAllowed, DesignAllowed
  <2>2. Respondents(D) # {} /\ Revisions(D) # {}
    BY <2>1 DEF Respondents, Revisions
  <2>3. ASSUME NEW r \in Scored(D)
        PROVE  /\ Cell(r)[1] \in group <=> Cell(r)[2] \in group
               /\ Cell(r)[2] \in group <=> Cell(r)[3] \in group
    <3>1. {Cell(r)[1], Cell(r)[2], Cell(r)[3]} \in linked
      OBVIOUS
    <3> HIDE DEF linked
    <3> QED BY <3>1
  <2>4. \/ Respondents(D) \cup Revisions(D) \subseteq group
        \/ (Respondents(D) \cup Revisions(D)) \cap group = {}
    <3> DEFINE edges == {<<Cell(r)[1], Cell(r)[2]>> : r \in Scored(D)}
    <3>1. \A e \in edges : e[1] \in group <=> e[2] \in group
      BY <2>3
    <3>2. Connected(Respondents(D), Revisions(D), edges)
      BY <2>1 DEF DesignConnected
    <3> HIDE DEF edges
    <3> QED BY <2>1, <2>2, <3>1, <3>2, AxesFinite, ConnectedIsLinked
  <2>5. \/ Revisions(D) \cup Raters(D) \subseteq group
        \/ (Revisions(D) \cup Raters(D)) \cap group = {}
    <3> DEFINE edges == {<<Cell(r)[2], Cell(r)[3]>> : r \in Scored(D)}
    <3>1. \A e \in edges : e[1] \in group <=> e[2] \in group
      BY <2>3
    <3>2. Connected(Revisions(D), Raters(D), edges)
      BY <2>1 DEF DesignConnected
    <3> HIDE DEF edges
    <3> QED BY <2>1, <2>2, <3>1, <3>2, AxesFinite, ConnectedIsLinked
  <2> QED BY <2>2, <2>4, <2>5
<1> QED BY <1>1, Invariance, PTL
=============================================================================
