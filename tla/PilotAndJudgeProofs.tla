------------------------- MODULE PilotAndJudgeProofs -------------------------
(***************************************************************************)
(* What rests on a model's word: the items of a pilot study, a rating      *)
(* judged threshold by threshold, and the calibration of a judge; for      *)
(* every rubric, answer of a provider, limit and order of answers.         *)
(*  - pilot: soundness and grounding are properties of each candidate a    *)
(*    report gets into a pilot, so the lemmas are about the parser and the *)
(*    audit; the invariant carries them, and what each design refuses, to  *)
(*    what is handed over;                                                 *)
(*  - threshold method: results are taken in the order of the requests,    *)
(*    each with what its call was answered, and the criterion's answers    *)
(*    are where RequestOf says;                                            *)
(*  - calibration: the outcomes are those of the first cases, each with    *)
(*    what its judge said, and calls are open for those in hand only.      *)
(***************************************************************************)
EXTENDS PilotStudy, ThresholdJudge, JudgeCalibration, CountingLemmas, SequenceTheorems

-----------------------------------------------------------------------------
(* PilotStudy: its inductive invariant                                       *)

\* What is gathered is finite and made of observations of items that may be piloted.
GatheredIsPiloted == IsFiniteSet(gathered) /\ gathered \subseteq Observations

\* What every design refuses, and what all but the facets design refuse.
HandedIsAllowed ==
    /\ IsFiniteSet(handoff.data) /\ handoff.data \subseteq Observations
    /\ OneStudy(handoff.data) /\ ItemsAgree(handoff.data)
    /\ handoff.to # "facets" => CellsOnce(handoff.data)

PilotInv == GatheredIsPiloted /\ HandedIsAllowed

-----------------------------------------------------------------------------
(* Sound items *)

\* A candidate that may be piloted was found nothing against but advice, and all
\* that was found is in its report: a report that was cut says so, as a blocker.
LEMMA OnlyAdvice ==
    ASSUME NEW c \in Pilotable
    PROVE  c \in Candidates /\ \A f \in Findings(c) : f.severity = "advisory"
<1>1. c \in Candidates /\ Audit(c).state = "audited"
  BY DEF Pilotable, PilotAllowed
<1>2. \A f \in Cap(Findings(c)) : f.severity = "advisory"
  BY <1>1 DEF Audit, Report, StateFor
<1>3. Cardinality(Findings(c)) <= MaxFindings
  <2> SUFFICES ASSUME ~(Cardinality(Findings(c)) <= MaxFindings) PROVE FALSE
    OBVIOUS
  <2>1. Finding("audit_finding_budget_exceeded", "blocking", <<>>) \in Cap(Findings(c))
    BY DEF Cap
  <2>2. QED
    BY <2>1, <1>2 DEF Finding
<1>4. QED
  BY <1>1, <1>2, <1>3 DEF Cap

\* Texts none of which repeats an earlier one are pairwise different to the audit.
LEMMA WithoutRepeats ==
    ASSUME NEW texts, DOMAIN texts \subseteq Nat \ {0}, Repeats(texts) = {},
           NEW i \in DOMAIN texts, NEW j \in DOMAIN texts, Normal[texts[i]] = Normal[texts[j]]
    PROVE  i = j
<1>1. \A k \in DOMAIN texts, l \in DOMAIN texts :
          l < k => Normal[texts[l]] # Normal[texts[k]]
  <2> SUFFICES ASSUME NEW k \in DOMAIN texts, NEW l \in DOMAIN texts, l < k,
                      Normal[texts[l]] = Normal[texts[k]]
               PROVE  FALSE
    OBVIOUS
  <2>1. l \in 1 .. k - 1
    OBVIOUS
  <2>2. k \in Repeats(texts)
    BY <2>1 DEF Repeats
  <2>3. QED
    BY <2>2
<1>2. i \in Nat /\ j \in Nat
  OBVIOUS
<1>3. ~(i < j) /\ ~(j < i)
  BY <1>1
<1>4. QED
  BY <1>2, <1>3

Sound(c) ==
    /\ \A texts \in {OptionTexts(c), EvidenceTexts(c)} :
           \A i, j \in DOMAIN texts : Normal[texts[i]] = Normal[texts[j]] => i = j
    /\ \A i \in DOMAIN AllTexts(c) : "override" \notin Trait[AllTexts(c)[i]]
    /\ Given(c).notes = 0

\* What the gate lets through is sound.
LEMMA PilotableIsSound == ASSUME NEW c \in Pilotable PROVE Sound(c)
<1>1. c.answer \in DOMAIN Answer /\ \A f \in Findings(c) : f.severity = "advisory"
  BY OnlyAdvice DEF Candidates
<1>2. /\ DOMAIN Given(c).options \subseteq Nat \ {0} /\ DOMAIN Given(c).guide \subseteq Nat \ {0}
      /\ Given(c).notes \in Nat
  BY <1>1, GenerationAssumption DEF Given, IsList
<1>3. DOMAIN OptionTexts(c) \subseteq Nat \ {0} /\ DOMAIN EvidenceTexts(c) \subseteq Nat \ {0}
  BY <1>2 DEF OptionTexts, EvidenceTexts
<1>4. Repeats(OptionTexts(c)) = {}
  <2> SUFFICES ASSUME NEW i \in Repeats(OptionTexts(c)) PROVE FALSE
    OBVIOUS
  <2>1. Finding("duplicate_option_text", "blocking", <<"options", i>>) \in Findings(c)
    BY DEF Findings
  <2>2. QED
    BY <2>1, <1>1 DEF Finding
<1>5. Repeats(EvidenceTexts(c)) = {}
  <2> SUFFICES ASSUME NEW i \in Repeats(EvidenceTexts(c)) PROVE FALSE
    OBVIOUS
  <2>1. Finding("indistinguishable_score_evidence", "blocking", <<"guide", i>>) \in Findings(c)
    BY DEF Findings
  <2>2. QED
    BY <2>1, <1>1 DEF Finding
<1>6. Marked(AllTexts(c), "override") = {}
  <2> SUFFICES ASSUME NEW i \in Marked(AllTexts(c), "override") PROVE FALSE
    OBVIOUS
  <2>1. Finding("prompt_injection_indicator", "review_required", <<"text", i>>) \in Findings(c)
    BY DEF Findings
  <2>2. QED
    BY <2>1, <1>1 DEF Finding
<1>7. Given(c).notes = 0
  <2> SUFFICES ASSUME Given(c).notes # 0 PROVE FALSE
    OBVIOUS
  <2>1. 1 \in 1 .. Given(c).notes
    BY <1>2
  <2>2. Finding("declared_safety_note", "review_required", <<"safety_notes", 1>>) \in Findings(c)
    BY <2>1 DEF Findings
  <2>3. QED
    BY <2>2, <1>1 DEF Finding
<1>8. \A i, j \in DOMAIN OptionTexts(c) :
          Normal[OptionTexts(c)[i]] = Normal[OptionTexts(c)[j]] => i = j
  BY <1>3, <1>4, WithoutRepeats
<1>9. \A i, j \in DOMAIN EvidenceTexts(c) :
          Normal[EvidenceTexts(c)[i]] = Normal[EvidenceTexts(c)[j]] => i = j
  BY <1>3, <1>5, WithoutRepeats
<1>10. \A i \in DOMAIN AllTexts(c) : "override" \notin Trait[AllTexts(c)[i]]
  BY <1>6 DEF Marked
<1>11. QED
  BY <1>7, <1>8, <1>9, <1>10 DEF Sound

-----------------------------------------------------------------------------
(* Grounded items *)

Used(c) == {d \in c.request.docs :
                \E a \in Spans(c) : a[1] = Source[d].id /\ a[2] \in Source[d].spans}

Grounded(c) ==
    /\ {a[1] : a \in Spans(c)} = {Source[d].id : d \in Used(c)}
    /\ CASE Mode(c) = "closed_book" -> Used(c) = {}
         [] Mode(c) = "single_source" -> Cardinality(Used(c)) = 1
         [] Mode(c) = "multi_source" -> Cardinality(Used(c)) >= 2
         [] OTHER -> Used(c) # {}

\* What the gate lets through is grounded.
LEMMA PilotableIsGrounded == ASSUME NEW c \in Pilotable PROVE Grounded(c)
<1>1. /\ c.answer \in DOMAIN Answer /\ c.request \in Requests /\ AttributionsAllowed(c)
  BY OnlyAdvice DEF Candidates, ParseAllowed
<1>2. /\ c.request.docs \subseteq DOMAIN Source /\ SourcesAllowed(c.request.docs)
  BY <1>1 DEF Requests, RequestAllowed
<1>3. IsFiniteSet(Used(c))
  BY <1>2, GenerationAssumption, FS_Subset DEF Used
<1> DEFINE Named == {a[1] : a \in Spans(c)}
<1>4. CASE Mode(c) = "closed_book"
  <2>1. Spans(c) = {}
    BY <1>1, <1>4 DEF AttributionsAllowed, Spans, Range
  <2>2. Used(c) = {}
    BY <2>1 DEF Used
  <2>3. QED
    BY <1>4, <2>1, <2>2 DEF Grounded
<1>5. CASE Mode(c) # "closed_book"
  <2>1. \A a \in Spans(c) : \E d \in Used(c) : Source[d].id = a[1] /\ a[2] \in Source[d].spans
    BY <1>1, <1>5 DEF AttributionsAllowed, Used
  <2>2. \A d \in Used(c) : Source[d].id \in Named
    BY DEF Used
  <2>3. Named = {Source[d].id : d \in Used(c)}
    BY <2>1, <2>2
  <2>4. Spans(c) # {}
    <3>1. Given(c).attributions # <<>> /\ IsList(Given(c).attributions)
      BY <1>1, <1>5, GenerationAssumption DEF AttributionsAllowed, Given
    <3>2. Len(Given(c).attributions) \in Nat \ {0}
      BY <3>1, EmptySeq DEF IsList
    <3>3. 1 \in DOMAIN Given(c).attributions
      BY <3>1, <3>2 DEF IsList
    <3>4. QED
      BY <3>3 DEF Spans, Range
  <2>5. Used(c) # {}
    BY <2>1, <2>4
  <2> DEFINE name == [d \in Used(c) |-> Source[d].id]
  <2>6. name \in Surjection(Used(c), Named)
    BY <2>3 DEF Surjection
  <2>7. name \in Injection(Used(c), Named)
    BY <1>2, <2>2 DEF Injection, IsInjective, SourcesAllowed, Used
  <2>8. Cardinality(Named) = Cardinality(Used(c))
    <3> HIDE DEF name, Named
    <3>1. QED
      BY <1>3, <2>6, <2>7, FS_Surjection
  <2>9. /\ Mode(c) = "single_source" => Cardinality(Named) = 1
        /\ Mode(c) = "multi_source" => Cardinality(Named) >= 2
    BY <1>1, <1>5 DEF AttributionsAllowed
  <2>10. QED
    BY <1>5, <2>3, <2>5, <2>8, <2>9 DEF Grounded
<1>6. QED
  BY <1>4, <1>5

-----------------------------------------------------------------------------
(* Designs *)

\* One rater and no cell twice from one rater: no cell twice.
LEMMA OneRater ==
    ASSUME NEW R, IsFiniteSet(R), FacetsAllowed(R, FALSE), Cardinality(Raters(R)) = 1
    PROVE  CellsOnce(R)
<1>1. IsFiniteSet(Raters(R))
  <2> DEFINE rater == [o \in R |-> o.rater]
  <2>1. rater \in Surjection(R, Raters(R))
    BY DEF Surjection, Raters
  <2>2. QED
    BY <2>1, FS_Surjection
<1>2. PICK x : Raters(R) = {x}
  BY <1>1, FS_Singleton
<1>3. \A o \in R : o.rater = x
  BY <1>2 DEF Raters
<1>4. QED
  BY <1>3 DEF FacetsAllowed, CellsOnce

\* Handing over what is gathered, to whom it may go.
LEMMA HandKeeps ==
    ASSUME PilotInv, UNCHANGED gathered, handoff'.data = gathered,
           OneStudy(gathered), ItemsAgree(gathered),
           handoff'.to # "facets" => CellsOnce(gathered)
    PROVE  PilotInv'
BY DEF PilotInv, GatheredIsPiloted, HandedIsAllowed, OneStudy, ItemsAgree, CellsOnce

\* A study begins with nothing gathered or handed over.
LEMMA InitEstablishes == PilotInit => PilotInv
<1> SUFFICES ASSUME PilotInit PROVE PilotInv
  OBVIOUS
<1>1. GatheredIsPiloted
  BY FS_EmptySet DEF PilotInit, GatheredIsPiloted
<1>2. handoff.data = {}
  BY DEF PilotInit, NoHandoff
<1>3. HandedIsAllowed
  BY <1>2, FS_EmptySet DEF HandedIsAllowed, OneStudy, ItemsAgree, CellsOnce
<1>4. QED
  BY <1>1, <1>3 DEF PilotInv

\* A step gathers, hands over or does nothing.
LEMMA StepKeeps == PilotInv /\ [PilotNext]_pilotVars => PilotInv'
<1> SUFFICES ASSUME PilotInv, [PilotNext]_pilotVars PROVE PilotInv'
  OBVIOUS
<1>1. ASSUME NEW o \in Observations, Gather(o) PROVE PilotInv'
  <2>1. gathered' = gathered \cup {o} /\ handoff' = handoff
    BY <1>1 DEF Gather
  <2>2. IsFiniteSet(gathered')
    BY <2>1, FS_AddElement DEF PilotInv, GatheredIsPiloted
  <2>3. HandedIsAllowed'
    BY <2>1 DEF PilotInv, HandedIsAllowed, OneStudy, ItemsAgree, CellsOnce
  <2>4. QED
    BY <2>1, <2>2, <2>3 DEF PilotInv, GatheredIsPiloted
<1>2. CASE HandToFacets
  <2>1. handoff'.data = gathered /\ handoff'.to = "facets" /\ UNCHANGED gathered
    BY <1>2 DEF HandToFacets, Hand
  <2>2. OneStudy(gathered) /\ ItemsAgree(gathered)
    BY <1>2 DEF HandToFacets, FacetsAllowed
  <2>3. QED
    BY <2>1, <2>2, HandKeeps
<1>3. CASE HandToMirt \/ HandToBifactor \/ HandToTestlet
  <2>1. handoff'.data = gathered /\ UNCHANGED gathered
    BY <1>3 DEF HandToMirt, HandToBifactor, HandToTestlet, Hand
  <2>2. MirtAllowed(gathered)
    BY <1>3 DEF HandToMirt, HandToBifactor, HandToTestlet, TestletAllowed
  <2>3. QED
    BY <2>1, <2>2, HandKeeps DEF MirtAllowed
<1>4. CASE HandToGtheory
  <2>1. handoff'.data = gathered /\ UNCHANGED gathered
    BY <1>4 DEF HandToGtheory, Hand
  <2>2. FacetsAllowed(gathered, FALSE) /\ Cardinality(Raters(gathered)) = 1
    BY <1>4 DEF HandToGtheory, GtheoryAllowed
  <2>3. CellsOnce(gathered)
    BY <2>2, OneRater DEF PilotInv, GatheredIsPiloted
  <2>4. QED
    BY <2>1, <2>2, <2>3, HandKeeps DEF FacetsAllowed
<1>5. ASSUME NEW groups \in Grouping, HandToDif(groups) PROVE PilotInv'
  <2>1. handoff'.data = gathered /\ UNCHANGED gathered
    BY <1>5 DEF HandToDif
  <2>2. MirtAllowed(gathered)
    BY <1>5 DEF HandToDif, DifAllowed
  <2>3. QED
    BY <2>1, <2>2, HandKeeps DEF MirtAllowed
<1>6. CASE UNCHANGED pilotVars
  BY <1>6 DEF PilotInv, GatheredIsPiloted, HandedIsAllowed, OneStudy, ItemsAgree, CellsOnce, pilotVars
<1>7. QED
  BY <1>1, <1>2, <1>3, <1>4, <1>5, <1>6 DEF PilotNext

\* What is gathered and handed over, in every state.
LEMMA PilotInvariant == PilotSpec => []PilotInv
BY InitEstablishes, StepKeeps, PTL DEF PilotSpec

-----------------------------------------------------------------------------
(* What the estimators are handed *)

\* Only what the gate let through is ever piloted.
LEMMA PilotedIsPilotable == PilotInv => Piloted \subseteq Pilotable
<1> SUFFICES ASSUME PilotInv, NEW o \in handoff.data PROVE o.pilot.candidate \in Pilotable
  BY DEF Piloted
<1>1. o \in Observations
  BY DEF PilotInv, HandedIsAllowed
<1>2. o.pilot \in Pilots
  BY <1>1 DEF Observations
<1>3. QED
  BY <1>2 DEF Pilots

\* Whatever its author, provider and report say, no fitted item offers options that
\* read alike, shares evidence between scores or carries an instruction or a note.
THEOREM FittedItemsAreSound == PilotSpec => []ItemsAreSound
<1>1. PilotInv => ItemsAreSound
  BY PilotedIsPilotable, PilotableIsSound DEF ItemsAreSound, Sound
<1>2. QED
  BY <1>1, PilotInvariant, PTL

\* A fitted item rests on sources its provider was given, on as many of them as
\* the blueprint asks for.
THEOREM FittedItemsAreGrounded == PilotSpec => []ItemsAreGrounded
<1>1. PilotInv => ItemsAreGrounded
  <2> SUFFICES ASSUME PilotInv, NEW c \in Piloted PROVE Grounded(c)
    BY DEF ItemsAreGrounded, Grounded, Used
  <2>1. QED
    BY PilotedIsPilotable, PilotableIsGrounded
<1>2. QED
  BY <1>1, PilotInvariant, PTL

\* One text, one occasion and one testlet in a column, one study in a design and,
\* but for the facets model, one response in a cell.
THEOREM ColumnsAreUnambiguous == PilotSpec => []MatrixIsUnambiguous
<1>1. PilotInv => MatrixIsUnambiguous
  <2> SUFFICES ASSUME PilotInv PROVE MatrixIsUnambiguous
    OBVIOUS
  <2> DEFINE data == handoff.data
             cell == [o \in data |-> <<o.respondent, Item(o)>>]
             cells == {<<o.respondent, Item(o)>> : o \in data}
  <2>1. \A o, p \in data :
            /\ Item(o) = Item(p) => Given(o.pilot.candidate) = Given(p.pilot.candidate)
                                    /\ o.pilot.terms = p.pilot.terms
            /\ o.pilot.terms.study = p.pilot.terms.study
    BY DEF PilotInv, HandedIsAllowed, OneStudy, ItemsAgree
  <2>2. ASSUME CellsOnce(data) PROVE Cardinality(data) = Cardinality(cells)
    <3>1. cell \in Surjection(data, cells)
      BY DEF Surjection
    <3>2. cell \in Injection(data, cells)
      BY <2>2 DEF Injection, IsInjective, CellsOnce
    <3>3. IsFiniteSet(data)
      BY DEF PilotInv, HandedIsAllowed
    <3> HIDE DEF data, cell, cells
    <3>4. QED
      BY <3>1, <3>2, <3>3, FS_Surjection
  <2>3. QED
    BY <2>1, <2>2 DEF PilotInv, HandedIsAllowed, MatrixIsUnambiguous
<1>2. QED
  BY <1>1, PilotInvariant, PTL

-----------------------------------------------------------------------------
(* ThresholdJudge: where a criterion's requests are                          *)

\* Calls are numbered criterion by criterion.
LEMMA RequestsOfCriterion ==
    ASSUME NEW c \in CriterionIds
    PROVE  /\ CallCount \in Nat /\ Boundaries \in Nat /\ (c - 1) * Boundaries \in Nat
           /\ (c - 1) * Boundaries + Boundaries <= CallCount
           /\ \A i \in Calls :
                  CriterionOf(i) = c <=> i \in (c - 1) * Boundaries + 1 .. (c - 1) * Boundaries + Boundaries
           /\ \A t \in 1 .. Boundaries : RequestOf(c, t) \in Calls
<1>1. Criteria \in Nat \ {0} /\ Boundaries \in Nat \ {0} BY RequestsAssumption
<1>2. c \in 1 .. Criteria BY DEF CriterionIds
<1>3. PICK d \in Nat : c = d + 1 /\ d + 1 <= Criteria BY <1>1, <1>2
<1>4. CallCount = Criteria * Boundaries BY DEF CallCount
<1>5. d * Boundaries \in Nat /\ Criteria * Boundaries \in Nat
      /\ (d + 1) * Boundaries <= Criteria * Boundaries
      /\ (d + 1) * Boundaries = d * Boundaries + Boundaries
  BY <1>1, <1>3
<1>6. c - 1 = d BY <1>3
<1>7. ASSUME NEW i \in Calls
      PROVE  CriterionOf(i) = c <=> i \in d * Boundaries + 1 .. d * Boundaries + Boundaries
  <2>1. i \in 1 .. CallCount /\ CallCount \in Nat BY <1>4, <1>5 DEF Calls
  <2>2. PICK a \in Nat : a = i - 1 BY <2>1
  <2> DEFINE q == a \div Boundaries
  <2>3. q \in Nat /\ q * Boundaries <= a /\ a < q * Boundaries + Boundaries
        /\ q * Boundaries \in Nat
    BY <1>1, <2>2
  <2>4. CriterionOf(i) = q + 1 BY <2>2 DEF CriterionOf
  <2> HIDE DEF q
  <2>5. d * Boundaries <= a /\ a < d * Boundaries + Boundaries => q = d
    BY <1>1, <1>3, <1>5, <2>2, <2>3
  <2>6. i \in d * Boundaries + 1 .. d * Boundaries + Boundaries
        <=> d * Boundaries <= a /\ a < d * Boundaries + Boundaries
    BY <1>1, <1>5, <2>1, <2>2
  <2>7. CriterionOf(i) = c <=> q = d BY <1>3, <2>3, <2>4
  <2> QED BY <2>3, <2>5, <2>6, <2>7
<1>8. ASSUME NEW t \in 1 .. Boundaries PROVE RequestOf(c, t) \in Calls
  BY <1>1, <1>4, <1>5, <1>6 DEF RequestOf, Calls
<1> QED BY <1>1, <1>4, <1>5, <1>6, <1>7, <1>8

-----------------------------------------------------------------------------
(* ThresholdJudge: its inductive invariant                                   *)

\* The caller has the results of the first requests, in their order.
InOrder ==
    /\ \A k \in 1 .. Len(results) : results[k] = k /\ k \in done

\* A settled request has kept what the gateway made of it.
Kept ==
    \A i \in done :
        /\ record[i].parse = "passed" <=> replies[i] \in {"yes", "no"}
        /\ replies[i] \in {"yes", "no"} => record[i].meets = replies[i]

ThresholdInv ==
    /\ ThresholdTypeOK /\ InOrder /\ Kept
    /\ verdict # "none" => Len(results) = CallCount
    /\ VerdictFollowsAnswers

\* With all results in order, thresholds[c][t] is the answer to boundary t of c.
LEMMA ThresholdsInOrder ==
    ASSUME InOrder, results \in Seq(Calls), Len(results) = CallCount, NEW c \in CriterionIds
    PROVE  Thresholds(c) = [t \in 1 .. Boundaries |-> record[RequestOf(c, t)].meets]
<1> DEFINE base == (c - 1) * Boundaries
           Of == OfCriterion(c)
           Upto(k) == {j \in Of : j <= k}
<1>1. /\ CallCount \in Nat /\ Boundaries \in Nat /\ base \in Nat
      /\ base + Boundaries <= CallCount
      /\ \A i \in Calls : CriterionOf(i) = c <=> i \in base + 1 .. base + Boundaries
      /\ \A t \in 1 .. Boundaries : RequestOf(c, t) = base + t
  BY RequestsOfCriterion DEF RequestOf
<1> HIDE DEF base
<1>2. Of = base + 1 .. base + Boundaries
  <2>1. DOMAIN results = 1 .. CallCount BY LenProperties
  <2>2. \A k \in 1 .. CallCount : results[k] = k BY DEF InOrder
  <2>3. Of = {k \in 1 .. CallCount : CriterionOf(k) = c} BY <2>1, <2>2 DEF OfCriterion
  <2> QED BY <1>1, <2>3 DEF Calls
<1> HIDE DEF Of
<1>3. Cardinality(Of) = Boundaries
  <2>1. Cardinality(base + 1 .. base + Boundaries)
            = IF base + 1 > base + Boundaries THEN 0 ELSE (base + Boundaries) - (base + 1) + 1
    BY FS_Interval, <1>1
  <2> QED BY <1>1, <1>2, <2>1
<1>4. ASSUME NEW k \in Of PROVE Cardinality(Upto(k)) = k - base /\ k \in Nat
  <2>1. k \in Nat /\ base + 1 <= k /\ k <= base + Boundaries BY <1>1, <1>2
  <2>2. Upto(k) = base + 1 .. k BY <1>1, <1>2, <2>1
  <2>3. Cardinality(base + 1 .. k) = IF base + 1 > k THEN 0 ELSE k - (base + 1) + 1
    BY FS_Interval, <1>1, <2>1
  <2>4. Cardinality(base + 1 .. k) = k - base BY <1>1, <2>1, <2>3
  <2> QED BY <2>1, <2>2, <2>4
<1>5. ASSUME NEW t \in 1 .. Boundaries
      PROVE  (CHOOSE k \in Of : Cardinality(Upto(k)) = t) = base + t
  <2>1. base + t \in Of BY <1>1, <1>2
  <2>2. Cardinality(Upto(base + t)) = t BY <2>1, <1>4, <1>1
  <2>3. \A k \in Of : Cardinality(Upto(k)) = t => k = base + t
    <3> HIDE DEF Upto
    <3> QED BY <1>1, <1>4
  <2> HIDE DEF Upto
  <2> QED BY <2>1, <2>2, <2>3
<1>6. \A t \in 1 .. Boundaries : results[base + t] = base + t
  BY <1>1 DEF InOrder
<1>7. Thresholds(c) = [t \in 1 .. Cardinality(Of) |->
          record[results[CHOOSE k \in Of : Cardinality(Upto(k)) = t]].meets]
  BY DEF Thresholds, Of
<1> HIDE DEF Upto
<1>8. ASSUME NEW t \in 1 .. Boundaries
      PROVE  record[results[CHOOSE k \in Of : Cardinality(Upto(k)) = t]].meets
             = record[RequestOf(c, t)].meets
  BY <1>1, <1>5, <1>6
<1> QED BY <1>3, <1>7, <1>8

\* Answers without a no before a yes are yes up to as many as there are.
LEMMA MonotoneAnswers ==
    ASSUME NEW n \in Nat, NEW T, \A t \in 1 .. n : T[t] \in {"yes", "no"},
           \A t \in 1 .. n - 1 : ~(T[t] = "no" /\ T[t + 1] = "yes")
    PROVE  /\ Cardinality({t \in 1 .. n : T[t] = "yes"}) \in 0 .. n
           /\ \A t \in 1 .. n :
                  T[t] = IF t <= Cardinality({s \in 1 .. n : T[s] = "yes"}) THEN "yes" ELSE "no"
<1> DEFINE Yes == {t \in 1 .. n : T[t] = "yes"}
           No == {t \in 1 .. n : T[t] = "no"}
<1>1. PICK m \in 0 .. n : \A t \in 1 .. n : T[t] = IF t <= m THEN "yes" ELSE "no"
  <2>1. CASE No = {}
    BY <2>1
  <2>2. CASE No # {}
    <3>1. PICK m \in No : \A k \in No : m <= k
      <4>1. No \subseteq Nat OBVIOUS
      <4> HIDE DEF No
      <4> QED BY <2>2, <4>1, LeastNumber
    <3> DEFINE Bad == {t \in 1 .. n : m <= t /\ T[t] = "yes"}
    <3>2. Bad = {}
      <4>1. SUFFICES ASSUME Bad # {} PROVE FALSE OBVIOUS
      <4>2. PICK u \in Bad : \A k \in Bad : u <= k
        <5>1. Bad \subseteq Nat OBVIOUS
        <5> HIDE DEF Bad
        <5> QED BY <4>1, <5>1, LeastNumber
      <4>3. u \in 1 .. n /\ m <= u /\ T[u] = "yes" /\ T[m] = "no" /\ m \in 1 .. n
        BY <3>1, <4>2
      <4>4. u # m BY <4>3
      <4>5. u - 1 \in 1 .. n - 1 /\ u - 1 \in 1 .. n /\ m <= u - 1 /\ (u - 1) + 1 = u
        BY <4>3, <4>4
      <4>6. T[u - 1] # "yes" BY <4>2, <4>5
      <4>7. T[u - 1] = "no" BY <4>5, <4>6
      <4> QED BY <4>3, <4>5, <4>7
    <3>3. m \in 1 .. n BY <3>1
    <3>4. \A t \in 1 .. n : T[t] = IF t <= m - 1 THEN "yes" ELSE "no"
      BY <3>1, <3>2, <3>3
    <3>5. m - 1 \in 0 .. n BY <3>3
    <3> QED BY <3>4, <3>5
  <2> QED BY <2>1, <2>2
<1>2. Yes = 1 .. m BY <1>1
<1>3. Cardinality(1 .. m) = m
  <2>1. Cardinality(1 .. m) = IF 1 > m THEN 0 ELSE m - 1 + 1 BY FS_Interval
  <2> QED BY <2>1
<1> QED BY <1>1, <1>2, <1>3

\* The judgment starts with no request made.
LEMMA ThresholdInitInv == ThresholdInit => ThresholdInv
<1> SUFFICES ASSUME ThresholdInit PROVE ThresholdInv OBVIOUS
<1> USE DEF ThresholdInit
<1>1. CallCount \in Nat BY RequestsAssumption DEF CallCount
<1>2. Boundaries \in Nat BY RequestsAssumption
<1>3. record \in [Calls -> Records] BY DEF Records
<1>4. ThresholdTypeOK
  <2>1. results \in Seq(Calls) /\ Len(results) = 0 BY EmptySeq
  <2>2. categories \in [CriterionIds -> 0 .. Boundaries] BY <1>2 DEF NoCategories
  <2>3. evidence.calls = 0 BY DEF NoEvidence
  <2> QED BY <1>1, <1>3, <2>1, <2>2, <2>3 DEF ThresholdTypeOK
<1>5. InOrder BY EmptySeq DEF InOrder
<1>6. Kept BY DEF Kept
<1>7. verdict = "none" OBVIOUS
<1> QED BY <1>4, <1>5, <1>6, <1>7 DEF ThresholdInv, VerdictFollowsAnswers

\* A request is under way only as long as there is no verdict.
LEMMA BusyBeforeVerdict ==
    ASSUME ThresholdInv, NEW i \in UnderWay
    PROVE  verdict = "none" /\ i \in Calls
<1>1. i \in Calls /\ i \notin done BY DEF UnderWay
<1>2. Len(results) = CallCount => i \in done
  BY <1>1 DEF ThresholdInv, InOrder, Calls
<1> QED BY <1>1, <1>2 DEF ThresholdInv

\* Beginning a judgment, with its requests checked, keeps the invariant.
LEMMA BeginInv == ThresholdInv /\ Begin => ThresholdInv'
<1> SUFFICES ASSUME ThresholdInv, Begin PROVE ThresholdInv' OBVIOUS
<1>1. /\ ThresholdTypeOK /\ InOrder /\ Kept /\ VerdictFollowsAnswers
      /\ (verdict # "none") => Len(results) = CallCount
  BY DEF ThresholdInv
<1>2. /\ handed < CallCount /\ handed' = handed + 1
      /\ record' = [record EXCEPT ![handed + 1].call = "started"]
      /\ done' = done /\ replies' = replies /\ results' = results /\ verdict' = verdict
      /\ categories' = categories /\ evidence' = evidence
  BY DEF Begin, caller
<1>3. CallCount \in Nat BY RequestsAssumption DEF CallCount
<1>4. handed \in Nat /\ handed + 1 \in Calls BY <1>1, <1>2, <1>3 DEF ThresholdTypeOK, Calls
<1>5. record' \in [Calls -> Records]
  <2>1. record \in [Calls -> Records] BY <1>1 DEF ThresholdTypeOK
  <2>2. record[handed + 1] \in Records BY <1>4, <2>1
  <2>3. [record[handed + 1] EXCEPT !.call = "started"] \in Records BY <2>2 DEF Records
  <2> QED BY <1>2, <1>4, <2>1, <2>3
<1>6. ThresholdTypeOK'
  <2>1. handed' \in 0 .. CallCount BY <1>2, <1>3, <1>4 DEF Calls
  <2>2. done' \subseteq 1 .. handed' BY <1>1, <1>2, <1>4 DEF ThresholdTypeOK
  <2> QED BY <1>1, <1>2, <1>5, <2>1, <2>2 DEF ThresholdTypeOK
<1>7. InOrder' BY <1>1, <1>2 DEF InOrder
<1>8. Kept'
  <2>1. handed + 1 \notin done BY <1>1, <1>4 DEF ThresholdTypeOK
  <2>2. \A i \in done : record'[i] = record[i]
    BY <1>1, <1>2, <2>1 DEF ThresholdTypeOK
  <2> QED BY <1>1, <1>2, <2>2 DEF Kept
<1>9. VerdictFollowsAnswers' BY <1>1, <1>2 DEF VerdictFollowsAnswers
<1> QED BY <1>1, <1>2, <1>6, <1>7, <1>8, <1>9 DEF ThresholdInv

\* A request that ends, with any of the outcomes judge_criterion has for it.
LEMMA SettleInv ==
    ASSUME ThresholdInv, NEW i \in Calls,
           NEW call \in {"completed", "failed"},
           NEW parse \in {"not_attempted", "passed", "failed"},
           NEW meets \in {"yes", "no", "unset"}, NEW size \in Sizes \cup {0},
           NEW what \in {"yes", "no", "unreadable", "raised"},
           Settle(i, call, parse, meets, size, what),
           parse = "passed" <=> what \in {"yes", "no"},
           what \in {"yes", "no"} => meets = what
    PROVE  ThresholdInv'
<1>1. /\ ThresholdTypeOK /\ InOrder /\ Kept /\ VerdictFollowsAnswers BY DEF ThresholdInv
<1>2. /\ i \in UnderWay
      /\ record' = [record EXCEPT ![i] =
             [call |-> call, parse |-> parse, meets |-> meets, size |-> size]]
      /\ done' = done \cup {i} /\ replies' = [replies EXCEPT ![i] = what]
      /\ handed' = handed /\ results' = results /\ verdict' = verdict
      /\ categories' = categories /\ evidence' = evidence
  BY DEF Settle, caller
<1>3. verdict = "none" BY <1>2, BusyBeforeVerdict
<1>4. i \in 1 .. handed /\ i \notin done
  BY <1>1, <1>2 DEF UnderWay, Calls, ThresholdTypeOK
<1>5. ThresholdTypeOK'
  <2>1. [call |-> call, parse |-> parse, meets |-> meets, size |-> size] \in Records
    BY DEF Records
  <2>2. record' \in [Calls -> Records] BY <1>1, <1>2, <2>1 DEF ThresholdTypeOK
  <2>3. replies' \in [Calls -> {"nothing", "yes", "no", "unreadable", "raised"}]
    BY <1>1, <1>2 DEF ThresholdTypeOK
  <2>4. done' \subseteq 1 .. handed' BY <1>1, <1>2, <1>4 DEF ThresholdTypeOK
  <2> QED BY <1>1, <1>2, <2>2, <2>3, <2>4 DEF ThresholdTypeOK
<1>6. InOrder' BY <1>1, <1>2 DEF InOrder
<1>7. Kept'
  <2>1. /\ \A j \in done : record'[j] = record[j] /\ replies'[j] = replies[j]
        /\ record'[i].parse = parse /\ record'[i].meets = meets /\ replies'[i] = what
    BY <1>1, <1>2, <1>4 DEF ThresholdTypeOK
  <2> QED BY <1>1, <1>2, <2>1 DEF Kept
<1> QED BY <1>2, <1>3, <1>5, <1>6, <1>7 DEF ThresholdInv, VerdictFollowsAnswers

\* Every way a request ends is one of those.
LEMMA AnswersInv ==
    ASSUME ThresholdInv, NEW i \in Calls, Answered(i) \/ Unreadable(i) \/ Raised(i)
    PROVE  ThresholdInv'
<1>1. CASE Answered(i)
  <2>1. PICK meets \in {"yes", "no"}, size \in Sizes :
            Settle(i, "completed", "passed", meets, size, meets)
    BY <1>1 DEF Answered
  <2> QED BY <2>1, SettleInv
<1>2. CASE Unreadable(i)
  <2>1. PICK meets \in {"yes", "no", "unset"} :
            Settle(i, "completed", "failed", meets, 0, "unreadable")
    BY <1>2 DEF Unreadable
  <2> QED BY <2>1, SettleInv
<1>3. CASE Raised(i)
  <2>1. Settle(i, "failed", "not_attempted", "unset", 0, "raised") BY <1>3 DEF Raised
  <2> QED BY <2>1, SettleInv
<1> QED BY <1>1, <1>2, <1>3

\* Taking a completed request out of the pool keeps the invariant.
LEMMA CollectResultInv == ThresholdInv /\ CollectResult => ThresholdInv'
<1> SUFFICES ASSUME ThresholdInv, CollectResult PROVE ThresholdInv' OBVIOUS
<1> DEFINE n == Len(results)
<1>1. /\ ThresholdTypeOK /\ InOrder /\ Kept /\ VerdictFollowsAnswers
      /\ (verdict # "none") => n = CallCount
  BY DEF ThresholdInv
<1>2. /\ n + 1 \in done /\ results' = Append(results, n + 1)
      /\ handed' = handed /\ record' = record /\ done' = done /\ replies' = replies
      /\ verdict' = verdict /\ categories' = categories /\ evidence' = evidence
  BY DEF CollectResult
<1>3. results \in Seq(Calls) /\ n \in Nat BY <1>1, LenProperties DEF ThresholdTypeOK
<1>4. CallCount \in Nat BY RequestsAssumption DEF CallCount
<1>5. n + 1 \in Calls
  BY <1>1, <1>2, <1>3, <1>4 DEF ThresholdTypeOK, Calls
<1>6. /\ results' \in Seq(Calls) /\ Len(results') = n + 1
      /\ \A k \in 1 .. n : results'[k] = results[k]
      /\ results'[n + 1] = n + 1
  BY <1>2, <1>3, <1>5, AppendProperties
<1> HIDE DEF n
<1>7. ThresholdTypeOK'
  <2>1. Len(results') <= CallCount BY <1>4, <1>5, <1>6 DEF Calls
  <2> QED BY <1>1, <1>2, <1>6, <2>1 DEF ThresholdTypeOK
<1>8. InOrder'
  <2>1. \A k \in 1 .. n : results[k] = k /\ k \in done BY <1>1 DEF InOrder, n
  <2>2. \A k \in 1 .. n + 1 : k \in 1 .. n \/ k = n + 1 BY <1>3
  <2> QED BY <1>2, <1>6, <2>1, <2>2 DEF InOrder
<1>9. Kept' BY <1>1, <1>2 DEF Kept
<1>10. VerdictFollowsAnswers' BY <1>1, <1>2 DEF VerdictFollowsAnswers
<1>11. verdict = "none" BY <1>1, <1>3, <1>4, <1>5 DEF Calls
<1> QED BY <1>2, <1>7, <1>8, <1>9, <1>10, <1>11 DEF ThresholdInv

\* The verdict is drawn from what was collected: counts and monotonicity agree with
\* the answers themselves.
LEMMA ConcludeJudgmentInv == ThresholdInv /\ ConcludeJudgment => ThresholdInv'
<1> SUFFICES ASSUME ThresholdInv, ConcludeJudgment PROVE ThresholdInv' OBVIOUS
<1>1. /\ ThresholdTypeOK /\ InOrder /\ Kept BY DEF ThresholdInv
<1>2. /\ Len(results) = CallCount
      /\ handed' = handed /\ record' = record /\ done' = done /\ replies' = replies
      /\ results' = results
  BY DEF ConcludeJudgment
<1>3. CallCount \in Nat BY RequestsAssumption DEF CallCount
<1>4. \A i \in Calls : i \in done BY <1>1, <1>2 DEF InOrder, Calls
<1>5. \A i \in Calls : Ok(i) <=> replies[i] \in {"yes", "no"}
  BY <1>1, <1>4 DEF Kept, Ok
<1>6. InOrder' /\ Kept' BY <1>1, <1>2 DEF InOrder, Kept
<1>7. FailureEvidence.calls \in 0 .. CallCount
  <2>1. FailureEvidence.calls = CallCount BY <1>2 DEF FailureEvidence
  <2> QED BY <1>3, <2>1
<1>8. CASE \E status \in Failures : Fail(status) /\
               (status = "boundary_failure" <=> \E i \in Calls : ~Ok(i))
  <2>1. PICK status \in Failures : Fail(status) /\
               (status = "boundary_failure" <=> \E i \in Calls : ~Ok(i))
    BY <1>8
  <2>2. verdict' = status /\ evidence' = FailureEvidence /\ categories' = categories
    BY <2>1 DEF Fail
  <2>3. ThresholdTypeOK' BY <1>1, <1>2, <1>7, <2>2 DEF ThresholdTypeOK
  <2>4. VerdictFollowsAnswers'
    BY <1>2, <1>5, <2>1, <2>2 DEF VerdictFollowsAnswers, Failures
  <2> QED BY <1>2, <1>6, <2>3, <2>4 DEF ThresholdInv
<1>9. CASE Score /\ ~NonMonotone /\ \A i \in Calls : Ok(i)
  <2>1. /\ verdict' = "scored" /\ evidence' = evidence
        /\ categories' = [c \in CriterionIds |->
                             Cardinality({t \in 1 .. Boundaries : Thresholds(c)[t] = "yes"})]
    BY <1>9 DEF Score
  <2>2. ASSUME NEW c \in CriterionIds
        PROVE  /\ categories'[c] \in 0 .. Boundaries
               /\ \A t \in 1 .. Boundaries :
                      replies[RequestOf(c, t)] = IF t <= categories'[c] THEN "yes" ELSE "no"
    <3> DEFINE T == Thresholds(c)
    <3>1. T = [t \in 1 .. Boundaries |-> record[RequestOf(c, t)].meets]
      BY <1>1, <1>2, ThresholdsInOrder DEF ThresholdTypeOK
    <3>2. ~\E t \in 1 .. Boundaries - 1 : T[t] = "no" /\ T[t + 1] = "yes"
      BY <1>9 DEF NonMonotone
    <3>3. categories'[c] = Cardinality({t \in 1 .. Boundaries : T[t] = "yes"}) BY <2>1
    <3> HIDE DEF T
    <3>4. \A t \in 1 .. Boundaries :
              T[t] = replies[RequestOf(c, t)] /\ T[t] \in {"yes", "no"}
      <4>1. \A t \in 1 .. Boundaries : RequestOf(c, t) \in Calls BY RequestsOfCriterion
      <4>2. \A i \in Calls : replies[i] \in {"yes", "no"} /\ record[i].meets = replies[i]
        BY <1>1, <1>4, <1>5, <1>9 DEF Kept
      <4> QED BY <3>1, <4>1, <4>2
    <3>5. Boundaries \in Nat BY RequestsAssumption
    <3> QED BY <3>2, <3>3, <3>4, <3>5, MonotoneAnswers
  <2>3. categories' \in [CriterionIds -> 0 .. Boundaries] BY <2>1, <2>2
  <2>4. ThresholdTypeOK' BY <1>1, <1>2, <2>1, <2>3 DEF ThresholdTypeOK
  <2>5. VerdictFollowsAnswers'
    BY <1>2, <1>5, <1>9, <2>1, <2>2 DEF VerdictFollowsAnswers
  <2> QED BY <1>2, <1>6, <2>4, <2>5 DEF ThresholdInv
<1> QED BY <1>8, <1>9 DEF ConcludeJudgment, Failures

\* Every step of the judgment keeps the invariant.
LEMMA ThresholdStep == ThresholdInv /\ [ThresholdNext]_thresholdVars => ThresholdInv'
<1> SUFFICES ASSUME ThresholdInv, [ThresholdNext]_thresholdVars PROVE ThresholdInv' OBVIOUS
<1>1. CASE Begin BY <1>1, BeginInv
<1>2. CASE \E i \in Calls : Answered(i) \/ Unreadable(i) \/ Raised(i) BY <1>2, AnswersInv
<1>3. CASE CollectResult BY <1>3, CollectResultInv
<1>4. CASE ConcludeJudgment BY <1>4, ConcludeJudgmentInv
<1>5. CASE UNCHANGED thresholdVars
  BY <1>5 DEF thresholdVars, ThresholdInv, ThresholdTypeOK, InOrder, Kept, VerdictFollowsAnswers
<1> QED BY <1>1, <1>2, <1>3, <1>4, <1>5 DEF ThresholdNext, JudgeBoundary

\* The invariant of a threshold judgment, for any criteria, thresholds and pool.
THEOREM ThresholdInvariant == ThresholdSpec => []ThresholdInv
BY ThresholdInitInv, ThresholdStep, PTL DEF ThresholdSpec

\* Requests, results and the verdict keep their types (llm_judge.py).
THEOREM ThresholdTyped == ThresholdSpec => []ThresholdTypeOK
BY ThresholdInvariant, PTL DEF ThresholdInv

\* Whatever order the pool completes requests in, the verdict and the score it states
\* are the ones the answers given justify (_binary_threshold_judgments, judge).
THEOREM VerdictCorrect == ThresholdSpec => []VerdictFollowsAnswers
BY ThresholdInvariant, PTL DEF ThresholdInv

-----------------------------------------------------------------------------
(* JudgeCalibration: its inductive invariant                                 *)

\* The arguments are those of a call that was not refused.
Called == cases \in Seq(Range(cases)) /\ CasesAllowed(cases) /\ method \in Methods

\* Only a case that a worker has taken is judged, and only while it is under way
\* are there calls for it.
InHand ==
    /\ \A i \in Positions : said[i] # Unsaid => i \in 1 .. taken
    /\ Cardinality(Running) <= Workers
    /\ \A i \in Positions : open[i] <= Limit(CallsPerCase) /\ (open[i] > 0 => i \in Running)

\* The caller's outcomes are those of the first cases, in their order.
OutcomesInOrder ==
    /\ Len(outcomes) <= taken
    /\ \A i \in 1 .. Len(outcomes) :
           /\ said[i] # Unsaid /\ said[i].kind # "raised oddly"
           /\ outcomes[i] = Outcome(cases[i], said[i])

\* A report that was built has every case, none of them without its categories.
AllJudged ==
    report = "built" =>
        /\ Len(outcomes) = Len(cases)
        /\ \A i \in 1 .. Len(outcomes) : said[i].kind # "uncategorised"

CalibrationInv ==
    /\ TypeOK /\ Called /\ InHand /\ OutcomesInOrder /\ AllJudged
    /\ outcomes \in Seq(Range(outcomes))

\* What is constant over a call.
LEMMA Limits ==
    /\ CallsPerCase \in Nat \ {0}
    /\ Limit(CallsPerCase) \in Nat /\ Limit(CallsPerCase) <= CallsPerCase
    /\ Limit(CallsPerCase) <= Max({AdmittedCalls, 1})
    /\ Called => /\ Len(cases) \in Nat \ {0} /\ Positions = 1 .. Len(cases)
                 /\ Workers \in Nat /\ Workers <= Max({AdmittedCalls, 1})
                 /\ Workers = 1 \/ CallsPerCase = 1
<1>1. AdmittedCalls \in Nat /\ BoundaryCalls \in Nat \ {0} BY CalibrationAssumption
<1>2. ASSUME NEW n \in Nat \ {0}
      PROVE  Limit(n) \in Nat /\ Limit(n) <= n /\ Limit(n) <= Max({AdmittedCalls, 1})
             /\ Limit(1) = 1
  <2>1. Max({AdmittedCalls, 1}) \in Nat /\ Max({AdmittedCalls, 1}) >= 1
        /\ Max({AdmittedCalls, 1}) >= AdmittedCalls
    <3>1. \E x \in {AdmittedCalls, 1} : \A y \in {AdmittedCalls, 1} : x >= y BY <1>1
    <3> QED BY <1>1, <3>1 DEF Max
  <2>2. \A k \in Nat : Min({AdmittedCalls, k}) \in {AdmittedCalls, k}
            /\ Min({AdmittedCalls, k}) <= k /\ Min({AdmittedCalls, k}) <= AdmittedCalls
    <3> SUFFICES ASSUME NEW k \in Nat
                 PROVE  Min({AdmittedCalls, k}) \in {AdmittedCalls, k}
                        /\ Min({AdmittedCalls, k}) <= k /\ Min({AdmittedCalls, k}) <= AdmittedCalls
      OBVIOUS
    <3>1. \E x \in {AdmittedCalls, k} : \A y \in {AdmittedCalls, k} : x <= y BY <1>1
    <3> QED BY <1>1, <3>1 DEF Min
  <2> QED BY <1>1, <2>1, <2>2 DEF Limit
<1>3. CallsPerCase \in Nat \ {0} BY <1>1 DEF CallsPerCase
<1>4. ASSUME Called
      PROVE  /\ Len(cases) \in Nat \ {0} /\ Positions = 1 .. Len(cases)
             /\ Workers \in Nat /\ Workers <= Max({AdmittedCalls, 1})
             /\ Workers = 1 \/ CallsPerCase = 1
  <2>1. cases \in Seq(Range(cases)) /\ cases # <<>> BY <1>4 DEF Called, CasesAllowed
  <2>2. Len(cases) \in Nat \ {0} /\ Positions = 1 .. Len(cases)
    BY <2>1, LenProperties, EmptySeq DEF Positions
  <2>3. 1 <= Max({AdmittedCalls, 1}) BY <1>2
  <2> QED BY <1>2, <2>2, <2>3 DEF Workers, CallsPerCase
<1> QED BY <1>2, <1>3, <1>4

\* The calibration starts with no case taken.
LEMMA CalibrationInitInv == Init => CalibrationInv
<1> SUFFICES ASSUME Init PROVE CalibrationInv OBVIOUS
<1>1. /\ cases \in Submitted /\ CasesAllowed(cases) /\ method \in Methods
      /\ taken = 0 /\ outcomes = <<>> /\ report = "none"
      /\ asked = [i \in Positions |-> 0] /\ open = [i \in Positions |-> 0]
      /\ said = [i \in Positions |-> Unsaid]
  BY DEF Init
<1>2. Called BY <1>1, CalibrationAssumption DEF Called
<1>3. Len(cases) \in Nat /\ CallsPerCase \in Nat /\ Limit(CallsPerCase) \in Nat /\ Workers \in Nat
  BY <1>2, Limits
<1>4. outcomes \in Seq(Range(outcomes)) /\ Len(outcomes) = 0 BY <1>1, EmptySeq
<1>5. Running = {} BY <1>1 DEF Running
<1>6. Cardinality(Running) <= Workers
  <2>1. Cardinality(Running) = 0 BY <1>5, FS_EmptySet
  <2> QED BY <1>3, <2>1
<1>7. InHand BY <1>1, <1>3, <1>6 DEF InHand
<1>8. TypeOK BY <1>1, <1>3, <1>4 DEF TypeOK
<1>9. OutcomesInOrder BY <1>1, <1>4 DEF OutcomesInOrder
<1> QED BY <1>1, <1>2, <1>4, <1>7, <1>8, <1>9 DEF CalibrationInv, AllJudged

\* A judge call's result is something.
LEMMA JudgmentsAreSaid ==
    /\ Unsaid \notin Judgments
    /\ \A judgment \in Judgments \cup {Unsaid} :
           /\ judgment = [kind |-> judgment.kind, row |-> judgment.row]
           /\ judgment # Unsaid => judgment.kind \in
                  {"row", "uncategorised", "unprojectable", "raised", "raised oddly"}
           /\ judgment.kind \in {"row", "uncategorised"} => judgment.row \in CategoryRows
           /\ judgment.kind \notin {"row", "uncategorised"} => judgment.row = NoRow
<1>1. Unsaid.kind = "nothing" /\ Unsaid.row = NoRow
      /\ Unsaid = [kind |-> Unsaid.kind, row |-> Unsaid.row] BY DEF Unsaid
<1>2. ASSUME NEW judgment \in Judgments
      PROVE  /\ judgment = [kind |-> judgment.kind, row |-> judgment.row]
             /\ judgment.kind \in {"row", "uncategorised", "unprojectable", "raised", "raised oddly"}
             /\ judgment.kind \in {"row", "uncategorised"} => judgment.row \in CategoryRows
             /\ judgment.kind \notin {"row", "uncategorised"} => judgment.row = NoRow
  <2>1. CASE \E row \in CategoryRows : judgment = Makes(row)
    <3>1. PICK row \in CategoryRows : judgment = Makes(row) BY <2>1
    <3>2. judgment = [kind |-> "row", row |-> row] BY <3>1 DEF Makes
    <3> QED BY <3>2
  <2>2. CASE judgment \in [kind : {"uncategorised"}, row : CategoryRows] BY <2>2
  <2>3. CASE judgment \in [kind : {"unprojectable", "raised", "raised oddly"}, row : {NoRow}]
    BY <2>3
  <2> QED BY <2>1, <2>2, <2>3 DEF Judgments
<1> QED BY <1>1, <1>2

\* The cases under way are finitely many positions of the list.
LEMMA RunningFinite ==
    ASSUME CalibrationInv
    PROVE  IsFiniteSet(Running) /\ Cardinality(Running) \in Nat /\ Running \subseteq Positions
<1>1. taken \in Nat /\ taken <= Len(cases) /\ Len(cases) \in Nat /\ Positions = 1 .. Len(cases)
  BY Limits DEF CalibrationInv, TypeOK
<1>2. IsFiniteSet(1 .. taken) BY <1>1, FS_Interval
<1>3. Running \subseteq 1 .. taken BY DEF Running
<1>4. 1 .. taken \subseteq Positions BY <1>1
<1> QED BY <1>2, <1>3, <1>4, FS_Subset, FS_CardinalityType

\* A worker that takes the next case keeps the invariant.
LEMMA TakeInv == CalibrationInv /\ Take => CalibrationInv'
<1> SUFFICES ASSUME CalibrationInv, Take PROVE CalibrationInv' OBVIOUS
<1>1. TypeOK /\ Called /\ InHand /\ OutcomesInOrder /\ AllJudged /\ outcomes \in Seq(Range(outcomes))
  BY DEF CalibrationInv
<1>2. /\ taken < Len(cases) /\ Cardinality(Running) < Workers /\ taken' = taken + 1
      /\ cases' = cases /\ method' = method /\ asked' = asked /\ open' = open /\ said' = said
      /\ outcomes' = outcomes /\ report' = report
  BY DEF Take
<1>3. Len(cases) \in Nat /\ Positions = 1 .. Len(cases) /\ Workers \in Nat BY <1>1, Limits
<1>4. taken \in Nat /\ taken + 1 \in Positions BY <1>1, <1>2, <1>3 DEF TypeOK
<1>5. /\ Positions' = Positions /\ Workers' = Workers /\ CallsPerCase' = CallsPerCase
      /\ Limit(CallsPerCase)' = Limit(CallsPerCase)
  BY <1>2 DEF Positions, Workers, CallsPerCase, Limit
<1>6. Running' = Running \cup {taken + 1}
  <2>1. said[taken + 1] = Unsaid BY <1>1, <1>4 DEF InHand
  <2>2. 1 .. taken + 1 = (1 .. taken) \cup {taken + 1} BY <1>4
  <2> QED BY <1>2, <2>1, <2>2 DEF Running
<1>7. Cardinality(Running') <= Workers
  <2>1. taken + 1 \notin Running BY <1>4 DEF Running
  <2>2. IsFiniteSet(Running) /\ Cardinality(Running) \in Nat BY RunningFinite
  <2>3. Cardinality(Running \cup {taken + 1}) = Cardinality(Running) + 1
    BY <2>1, <2>2, FS_AddElement
  <2> QED BY <1>2, <1>3, <1>6, <2>2, <2>3
<1>8. TypeOK' BY <1>1, <1>2, <1>3, <1>4, <1>5 DEF TypeOK
<1>9. InHand'
  <2>1. \A i \in Positions : said[i] # Unsaid => i \in 1 .. taken + 1
    BY <1>1, <1>4 DEF InHand
  <2> QED BY <1>1, <1>2, <1>5, <1>6, <1>7, <2>1 DEF InHand
<1>10. OutcomesInOrder'
  <2>1. Len(outcomes) <= taken + 1
    <3>1. Len(outcomes) \in Nat BY <1>1, LenProperties
    <3>2. Len(outcomes) <= taken BY <1>1 DEF OutcomesInOrder
    <3> QED BY <1>4, <3>1, <3>2
  <2> QED BY <1>1, <1>2, <2>1 DEF OutcomesInOrder
<1> QED BY <1>1, <1>2, <1>8, <1>9, <1>10 DEF CalibrationInv, Called, AllJudged

\* A call to the provider keeps the invariant: a slot of the case's limit was free.
LEMMA AskInv == ASSUME CalibrationInv, NEW i \in Positions, Ask(i) PROVE CalibrationInv'
<1>1. TypeOK /\ Called /\ InHand /\ OutcomesInOrder /\ AllJudged /\ outcomes \in Seq(Range(outcomes))
  BY DEF CalibrationInv
<1>2. /\ i \in Running /\ asked[i] < CallsPerCase /\ open[i] < Limit(CallsPerCase)
      /\ asked' = [asked EXCEPT ![i] = @ + 1] /\ open' = [open EXCEPT ![i] = @ + 1]
      /\ cases' = cases /\ method' = method /\ taken' = taken /\ said' = said
      /\ outcomes' = outcomes /\ report' = report
  BY DEF Ask
<1>3. /\ Positions' = Positions /\ Workers' = Workers /\ CallsPerCase' = CallsPerCase
      /\ Limit(CallsPerCase)' = Limit(CallsPerCase) /\ Running' = Running
  BY <1>2 DEF Positions, Workers, CallsPerCase, Limit, Running
<1>4. /\ CallsPerCase \in Nat /\ Limit(CallsPerCase) \in Nat /\ Limit(CallsPerCase) <= CallsPerCase
  BY Limits
<1>5. asked \in [Positions -> 0 .. CallsPerCase] /\ open \in [Positions -> 0 .. CallsPerCase]
  BY <1>1 DEF TypeOK
<1>6. asked[i] + 1 \in 0 .. CallsPerCase /\ open[i] + 1 \in 0 .. CallsPerCase
      /\ open[i] + 1 <= Limit(CallsPerCase)
  BY <1>2, <1>4, <1>5
<1>7. TypeOK' BY <1>1, <1>2, <1>3, <1>5, <1>6 DEF TypeOK
<1>8. InHand'
  <2>1. \A j \in Positions : open'[j] <= Limit(CallsPerCase) /\ (open'[j] > 0 => j \in Running)
    BY <1>1, <1>2, <1>5, <1>6 DEF InHand
  <2> QED BY <1>1, <1>2, <1>3, <2>1 DEF InHand
<1>9. OutcomesInOrder' BY <1>1, <1>2 DEF OutcomesInOrder
<1> QED BY <1>1, <1>2, <1>7, <1>8, <1>9 DEF CalibrationInv, Called, AllJudged

\* A call that returns keeps the invariant.
LEMMA ReturnInv == ASSUME CalibrationInv, NEW i \in Positions, Return(i) PROVE CalibrationInv'
<1>1. TypeOK /\ Called /\ InHand /\ OutcomesInOrder /\ AllJudged /\ outcomes \in Seq(Range(outcomes))
  BY DEF CalibrationInv
<1>2. /\ open[i] > 0 /\ open' = [open EXCEPT ![i] = @ - 1] /\ asked' = asked
      /\ cases' = cases /\ method' = method /\ taken' = taken /\ said' = said
      /\ outcomes' = outcomes /\ report' = report
  BY DEF Return
<1>3. /\ Positions' = Positions /\ Workers' = Workers /\ CallsPerCase' = CallsPerCase
      /\ Limit(CallsPerCase)' = Limit(CallsPerCase) /\ Running' = Running
  BY <1>2 DEF Positions, Workers, CallsPerCase, Limit, Running
<1>4. CallsPerCase \in Nat /\ Limit(CallsPerCase) \in Nat BY Limits
<1>5. open \in [Positions -> 0 .. CallsPerCase] BY <1>1 DEF TypeOK
<1>6. open[i] - 1 \in 0 .. CallsPerCase BY <1>2, <1>4, <1>5
<1>7. TypeOK' BY <1>1, <1>2, <1>3, <1>5, <1>6 DEF TypeOK
<1>8. InHand'
  <2>1. \A j \in Positions : open'[j] <= Limit(CallsPerCase) /\ (open'[j] > 0 => j \in Running)
    BY <1>1, <1>2, <1>4, <1>5 DEF InHand
  <2> QED BY <1>1, <1>2, <1>3, <2>1 DEF InHand
<1>9. OutcomesInOrder' BY <1>1, <1>2 DEF OutcomesInOrder
<1> QED BY <1>1, <1>2, <1>7, <1>8, <1>9 DEF CalibrationInv, Called, AllJudged

\* A case that is judged keeps the invariant: its calls are over.
LEMMA JudgeInv == ASSUME CalibrationInv, NEW i \in Positions, Judge(i) PROVE CalibrationInv'
<1>1. TypeOK /\ Called /\ InHand /\ OutcomesInOrder /\ AllJudged /\ outcomes \in Seq(Range(outcomes))
  BY DEF CalibrationInv
<1>2. PICK judgment \in Judgments : said' = [said EXCEPT ![i] = judgment]
  BY DEF Judge
<1>3. /\ i \in Running /\ open[i] = 0 /\ asked' = asked /\ open' = open
      /\ cases' = cases /\ method' = method /\ taken' = taken
      /\ outcomes' = outcomes /\ report' = report
  BY DEF Judge
<1>4. /\ Positions' = Positions /\ Workers' = Workers /\ CallsPerCase' = CallsPerCase
      /\ Limit(CallsPerCase)' = Limit(CallsPerCase)
  BY <1>3 DEF Positions, Workers, CallsPerCase, Limit
<1>5. said \in [Positions -> Judgments \cup {Unsaid}] BY <1>1 DEF TypeOK
<1>6. judgment # Unsaid BY JudgmentsAreSaid
<1>7. said[i] = Unsaid /\ i \in 1 .. taken BY <1>3 DEF Running
<1>8. \A j \in Positions : said'[j] = IF j = i THEN judgment ELSE said[j] BY <1>2, <1>5
<1>9. TypeOK'
  <2>1. said' \in [Positions -> Judgments \cup {Unsaid}] BY <1>2, <1>5
  <2> QED BY <1>1, <1>3, <1>4, <2>1 DEF TypeOK
<1>10. IsFiniteSet(Running) /\ Cardinality(Running) \in Nat /\ Running \subseteq Positions
  BY RunningFinite
<1>11. Running' = Running \ {i}
  <2>1. \A j \in 1 .. taken : j \in Positions
    <3>1. Len(cases) \in Nat /\ Positions = 1 .. Len(cases) BY <1>1, Limits
    <3> QED BY <1>1, <3>1 DEF TypeOK
  <2> QED BY <1>3, <1>6, <1>8, <2>1 DEF Running
<1>12. InHand'
  <2>1. Cardinality(Running') <= Workers
    <3>1. Cardinality(Running \ {i}) = Cardinality(Running) - 1
      BY <1>3, <1>10, FS_RemoveElement
    <3>2. Workers \in Nat /\ Cardinality(Running) <= Workers BY <1>1, Limits DEF InHand
    <3> QED BY <1>10, <1>11, <3>1, <3>2
  <2>2. \A j \in Positions : said'[j] # Unsaid => j \in 1 .. taken BY <1>1, <1>7, <1>8 DEF InHand
  <2>3. \A j \in Positions : open[j] <= Limit(CallsPerCase) /\ (open[j] > 0 => j \in Running')
    <3>1. ~(open[i] > 0) BY <1>3
    <3> QED BY <1>1, <1>11, <3>1 DEF InHand
  <2> QED BY <1>3, <1>4, <2>1, <2>2, <2>3 DEF InHand
<1>13. \A j \in 1 .. Len(outcomes) : said'[j] = said[j]
  <2>1. \A j \in 1 .. Len(outcomes) : said[j] # Unsaid BY <1>1 DEF OutcomesInOrder
  <2>2. \A j \in 1 .. Len(outcomes) : j # i BY <1>7, <2>1
  <2> QED BY <1>2, <1>5, <2>2
<1>14. OutcomesInOrder' BY <1>1, <1>3, <1>13 DEF OutcomesInOrder
<1>15. AllJudged' BY <1>1, <1>3, <1>13 DEF AllJudged
<1> QED BY <1>1, <1>3, <1>9, <1>12, <1>14, <1>15 DEF CalibrationInv, Called

\* Collecting the next outcome in the order submitted keeps the invariant.
LEMMA CollectInv == CalibrationInv /\ Collect => CalibrationInv'
<1> SUFFICES ASSUME CalibrationInv, Collect PROVE CalibrationInv' OBVIOUS
<1> DEFINE i == Len(outcomes) + 1
<1>1. TypeOK /\ Called /\ InHand /\ OutcomesInOrder /\ AllJudged /\ outcomes \in Seq(Range(outcomes))
  BY DEF CalibrationInv
<1>2. /\ report = "none" /\ i \in 1 .. taken \ Running
      /\ cases' = cases /\ method' = method /\ taken' = taken /\ asked' = asked
      /\ open' = open /\ said' = said
      /\ \/ report' = "raised" /\ outcomes' = outcomes
         \/ /\ said[i].kind # "raised oddly" /\ report' = "none"
            /\ outcomes' = Append(outcomes, Outcome(cases[i], said[i]))
  BY DEF Collect
<1>3. /\ Positions' = Positions /\ Workers' = Workers /\ CallsPerCase' = CallsPerCase
      /\ Limit(CallsPerCase)' = Limit(CallsPerCase) /\ Running' = Running
  BY <1>2 DEF Positions, Workers, CallsPerCase, Limit, Running
<1>4. InHand' BY <1>1, <1>2, <1>3 DEF InHand
<1>5. Called' BY <1>1, <1>2 DEF Called
<1>6. Len(outcomes) \in Nat BY <1>1, LenProperties
<1>7. CASE outcomes' = outcomes /\ report' = "raised"
  <2>1. TypeOK' BY <1>1, <1>2, <1>3, <1>7 DEF TypeOK
  <2>2. OutcomesInOrder' BY <1>1, <1>2, <1>7 DEF OutcomesInOrder
  <2> QED BY <1>1, <1>4, <1>5, <1>7, <2>1, <2>2 DEF CalibrationInv, AllJudged
<1>8. CASE /\ said[i].kind # "raised oddly" /\ report' = "none"
           /\ outcomes' = Append(outcomes, Outcome(cases[i], said[i]))
  <2> DEFINE o == Outcome(cases[i], said[i])
             R == Range(outcomes) \cup {o}
  <2>1. outcomes \in Seq(R)
    <3>1. DOMAIN outcomes = 1 .. Len(outcomes) BY <1>1, LenProperties
    <3>2. \A j \in 1 .. Len(outcomes) : outcomes[j] \in R BY <3>1 DEF Range
    <3>3. outcomes \in [1 .. Len(outcomes) -> R] BY <1>1, <3>1, <3>2, LenProperties
    <3> HIDE DEF R
    <3> QED BY <1>6, <3>3
  <2>2. o \in R OBVIOUS
  <2> HIDE DEF R, o
  <2>3. outcomes' = Append(outcomes, o) BY <1>8 DEF o
  <2>4. /\ outcomes' \in Seq(R) /\ Len(outcomes') = Len(outcomes) + 1
        /\ \A j \in 1 .. Len(outcomes) : outcomes'[j] = outcomes[j]
        /\ outcomes'[Len(outcomes) + 1] = o
    BY <2>1, <2>2, <2>3, AppendProperties
  <2>5. outcomes' \in Seq(Range(outcomes'))
    <3>1. DOMAIN outcomes' = 1 .. Len(outcomes') /\ Len(outcomes') \in Nat BY <2>4, LenProperties
    <3>2. \A j \in 1 .. Len(outcomes') : outcomes'[j] \in Range(outcomes') BY <3>1 DEF Range
    <3>3. outcomes' \in [1 .. Len(outcomes') -> Range(outcomes')]
      BY <2>4, <3>1, <3>2, LenProperties
    <3> QED BY <3>1, <3>3
  <2>6. i \in 1 .. taken /\ i \notin Running BY <1>2
  <2>7. said[i] # Unsaid BY <2>6 DEF Running
  <2>8. Len(outcomes') <= taken BY <1>6, <2>4, <2>6
  <2>9. OutcomesInOrder'
    <3>1. \A j \in 1 .. Len(outcomes') : j \in 1 .. Len(outcomes) \/ j = i BY <1>6, <2>4
    <3>2. ASSUME NEW j \in 1 .. Len(outcomes')
          PROVE  /\ said[j] # Unsaid /\ said[j].kind # "raised oddly"
                 /\ outcomes'[j] = Outcome(cases[j], said[j])
      <4>1. CASE j \in 1 .. Len(outcomes) BY <1>1, <2>4, <4>1 DEF OutcomesInOrder
      <4>2. CASE j = i BY <1>8, <2>4, <2>7, <4>2 DEF o
      <4> QED BY <3>1, <4>1, <4>2
    <3>3. said' = said /\ cases' = cases /\ taken' = taken BY <1>2
    <3> QED BY <2>8, <3>2, <3>3 DEF OutcomesInOrder, Outcome, StatusOf, GoldExact
  <2>10. TypeOK'
    <3>1. Len(outcomes') <= Len(cases)
      <4>1. taken \in Nat /\ taken <= Len(cases) /\ Len(cases) \in Nat BY <1>1, Limits DEF TypeOK
      <4> QED BY <1>6, <2>4, <2>8, <4>1
    <3> QED BY <1>1, <1>2, <1>3, <1>8, <3>1 DEF TypeOK
  <2> QED BY <1>4, <1>5, <1>8, <2>5, <2>9, <2>10 DEF CalibrationInv, AllJudged
<1> QED BY <1>2, <1>7, <1>8

\* Building the report, or failing to, keeps the invariant.
LEMMA ConcludeInv == CalibrationInv /\ Conclude => CalibrationInv'
<1> SUFFICES ASSUME CalibrationInv, Conclude PROVE CalibrationInv' OBVIOUS
<1>1. TypeOK /\ Called /\ InHand /\ OutcomesInOrder /\ AllJudged /\ outcomes \in Seq(Range(outcomes))
  BY DEF CalibrationInv
<1>2. /\ report = "none" /\ Len(outcomes) = Len(cases)
      /\ report' = IF \A o \in Range(outcomes) : o.status = "passed" => o.categorised
                   THEN "built" ELSE "refused"
      /\ cases' = cases /\ method' = method /\ taken' = taken /\ asked' = asked
      /\ open' = open /\ said' = said /\ outcomes' = outcomes
  BY DEF Conclude
<1>3. /\ Positions' = Positions /\ Workers' = Workers /\ CallsPerCase' = CallsPerCase
      /\ Limit(CallsPerCase)' = Limit(CallsPerCase) /\ Running' = Running
  BY <1>2 DEF Positions, Workers, CallsPerCase, Limit, Running
<1>4. TypeOK' BY <1>1, <1>2, <1>3 DEF TypeOK
<1>5. InHand' BY <1>1, <1>2, <1>3 DEF InHand
<1>6. OutcomesInOrder' BY <1>1, <1>2 DEF OutcomesInOrder
<1>7. AllJudged'
  <2>1. SUFFICES ASSUME report' = "built", NEW i \in 1 .. Len(outcomes), said[i].kind = "uncategorised"
                 PROVE  FALSE
    BY <1>2 DEF AllJudged
  <2>2. DOMAIN outcomes = 1 .. Len(outcomes) BY <1>1, LenProperties
  <2>3. outcomes[i] \in Range(outcomes) BY <2>2 DEF Range
  <2>4. outcomes[i].status = "passed" => outcomes[i].categorised BY <1>2, <2>1, <2>3
  <2>5. outcomes[i] = Outcome(cases[i], said[i]) BY <1>1 DEF OutcomesInOrder
  <2>6. outcomes[i].status = "passed" /\ outcomes[i].categorised = FALSE
    <3>1. outcomes[i].status = StatusOf(said[i]) BY <2>5 DEF Outcome
    <3>2. StatusOf(said[i]) = "passed" BY <2>1 DEF StatusOf
    <3>3. outcomes[i].categorised = (said[i].kind # "uncategorised") BY <2>5 DEF Outcome
    <3>4. (said[i].kind # "uncategorised") = FALSE BY <2>1
    <3> QED BY <3>1, <3>2, <3>3, <3>4
  <2> QED BY <2>4, <2>6
<1> QED BY <1>1, <1>2, <1>4, <1>5, <1>6, <1>7 DEF CalibrationInv, Called

\* Every step of the calibration keeps the invariant.
LEMMA CalibrationStep == CalibrationInv /\ [Next]_vars => CalibrationInv'
<1> SUFFICES ASSUME CalibrationInv, [Next]_vars PROVE CalibrationInv' OBVIOUS
<1>1. CASE Take BY <1>1, TakeInv
<1>2. CASE Collect BY <1>2, CollectInv
<1>3. CASE Conclude BY <1>3, ConcludeInv
<1>4. CASE \E i \in Positions : Ask(i) \/ Return(i) \/ Judge(i)
  BY <1>4, AskInv, ReturnInv, JudgeInv
<1>5. CASE UNCHANGED vars
  <2>1. /\ cases' = cases /\ method' = method /\ taken' = taken /\ asked' = asked
        /\ open' = open /\ said' = said /\ outcomes' = outcomes /\ report' = report
    BY <1>5 DEF vars
  <2>2. /\ Positions' = Positions /\ Workers' = Workers /\ CallsPerCase' = CallsPerCase
        /\ Limit(CallsPerCase)' = Limit(CallsPerCase) /\ Running' = Running
    BY <2>1 DEF Positions, Workers, CallsPerCase, Limit, Running
  <2>3. TypeOK' BY <2>1, <2>2 DEF TypeOK, CalibrationInv
  <2>4. InHand' BY <2>1, <2>2 DEF InHand, CalibrationInv
  <2> QED BY <2>1, <2>3, <2>4 DEF CalibrationInv, Called, OutcomesInOrder, AllJudged
<1> QED BY <1>1, <1>2, <1>3, <1>4, <1>5 DEF Next

\* The invariant of a judge calibration, for any list of cases and any limits.
THEOREM CalibrationInvariant == Spec => []CalibrationInv
BY CalibrationInitInv, CalibrationStep, PTL DEF Spec

\* Outcomes, calls and the report keep their types (judge_calibration.py).
THEOREM CalibrationTyped == Spec => []TypeOK
BY CalibrationInvariant, PTL DEF CalibrationInv

\* The calls under way are those of the cases under way, and a case has no more than
\* its share: together never more than the limit admitted.
LEMMA LimitKept == CalibrationInv => CallsWithinLimit
<1> SUFFICES ASSUME CalibrationInv PROVE CallsWithinLimit OBVIOUS
<1> DEFINE most == Max({AdmittedCalls, 1})
<1>1. TypeOK /\ Called /\ InHand BY DEF CalibrationInv
<1>2. /\ CallsPerCase \in Nat \ {0} /\ Limit(CallsPerCase) \in Nat
      /\ Limit(CallsPerCase) <= CallsPerCase /\ Limit(CallsPerCase) <= most
      /\ Len(cases) \in Nat \ {0} /\ Positions = 1 .. Len(cases)
      /\ Workers \in Nat /\ Workers <= most /\ (Workers = 1 \/ CallsPerCase = 1)
  BY <1>1, Limits
<1>3. most \in Nat
  <2>1. AdmittedCalls \in Nat BY CalibrationAssumption
  <2>2. \E x \in {AdmittedCalls, 1} : \A y \in {AdmittedCalls, 1} : x >= y BY <2>1
  <2> QED BY <2>1, <2>2 DEF Max
<1> HIDE DEF most
<1>4. IsFiniteSet(Positions) BY <1>2, FS_Interval
<1>5. open \in [Positions -> Nat] BY <1>1, <1>2 DEF TypeOK
<1>6. /\ IsFiniteSet(Running) /\ Cardinality(Running) \in Nat /\ Running \subseteq Positions
      /\ Cardinality(Running) <= Workers
  BY <1>1, RunningFinite DEF InHand
<1>7. \A i \in Positions : open[i] <= Limit(CallsPerCase) /\ (open[i] > 0 => i \in Running)
  BY <1>1 DEF InHand
<1>8. Total(open, Positions)[Positions] <= Cardinality(Positions \cap Running) * Limit(CallsPerCase)
  BY <1>2, <1>4, <1>5, <1>6, <1>7, TotalWithin
<1>9. Positions \cap Running = Running BY <1>6
<1>10. Total(open, Positions)[Positions] \in Nat BY <1>4, <1>5, TotalBounds
<1>11. Cardinality(Running) * Limit(CallsPerCase) <= most
  <2> DEFINE n == Cardinality(Running)
             b == Limit(CallsPerCase)
  <2>1. n \in Nat /\ b \in Nat /\ n <= Workers /\ b <= most /\ Workers <= most
        /\ b <= CallsPerCase /\ (Workers = 1 \/ CallsPerCase = 1) /\ Workers \in Nat
        /\ CallsPerCase \in Nat
    BY <1>2, <1>6
  <2> HIDE DEF n, b
  <2>2. n \in {0, 1} \/ b \in {0, 1} BY <2>1
  <2>3. 0 * b = 0 /\ 1 * b = b /\ n * 0 = 0 /\ n * 1 = n /\ 0 <= most BY <1>3, <2>1
  <2>4. n <= most BY <1>3, <2>1
  <2>5. n * b <= most
    <3>1. n * b \in {0, n, b} BY <2>2, <2>3
    <3> QED BY <2>1, <2>3, <2>4, <3>1
  <2> QED BY <2>5 DEF n, b
<1>12. Total(open, Positions)[Positions] <= most
  <2>1. Total(open, Positions)[Positions] <= Cardinality(Running) * Limit(CallsPerCase)
    BY <1>8, <1>9
  <2>2. Cardinality(Running) * Limit(CallsPerCase) \in Nat BY <1>2, <1>6
  <2> QED BY <1>3, <1>10, <1>11, <2>1, <2>2
<1> QED BY <1>12, SumIsTotal DEF CallsWithinLimit, Sum, most

\* However the workers interleave, the provider is never called more often at a time
\* than the gateway admits (evaluate_paired_calibration and its nested pools).
THEOREM LimitRespected == Spec => []CallsWithinLimit
BY CalibrationInvariant, LimitKept, PTL

-----------------------------------------------------------------------------
(* What a report that was built says                                         *)

\* In a report every case has its outcome, with a judgment that has categories if
\* it has a row.
LEMMA Reported ==
    ASSUME CalibrationInv, report = "built"
    PROVE  /\ DOMAIN outcomes = Positions
           /\ \A i \in Positions :
                  /\ outcomes[i] = Outcome(cases[i], said[i])
                  /\ said[i] \in Judgments
                  /\ said[i].kind \in {"row", "unprojectable", "raised"}
                  /\ said[i].kind = "row" => said[i].row \in CategoryRows
                  /\ said[i].kind # "row" => said[i].row = NoRow
                  /\ cases[i].gold \in CategoryRows \cup {NoRow}
                  /\ cases[i] \in Range(cases)
<1>1. TypeOK /\ Called /\ OutcomesInOrder /\ AllJudged /\ outcomes \in Seq(Range(outcomes))
  BY DEF CalibrationInv
<1>2. Len(outcomes) = Len(cases) BY <1>1 DEF AllJudged
<1>3. Positions = 1 .. Len(outcomes) /\ DOMAIN outcomes = 1 .. Len(outcomes)
  BY <1>1, <1>2, Limits, LenProperties
<1>4. ASSUME NEW i \in Positions
      PROVE  /\ outcomes[i] = Outcome(cases[i], said[i])
             /\ said[i] \in Judgments
             /\ said[i].kind \in {"row", "unprojectable", "raised"}
             /\ said[i].kind = "row" => said[i].row \in CategoryRows
             /\ said[i].kind # "row" => said[i].row = NoRow
             /\ cases[i].gold \in CategoryRows \cup {NoRow}
             /\ cases[i] \in Range(cases)
  <2>1. said[i] # Unsaid /\ said[i].kind # "raised oddly" /\ said[i].kind # "uncategorised"
        /\ outcomes[i] = Outcome(cases[i], said[i])
    BY <1>1, <1>3 DEF OutcomesInOrder, AllJudged
  <2>2. said[i] \in Judgments \cup {Unsaid} BY <1>1 DEF TypeOK
  <2>3. cases[i] \in Range(cases) BY DEF Range, Positions
  <2>4. \A c \in Range(cases) : c.gold \in CategoryRows \cup {NoRow} BY <1>1 DEF Called, CasesAllowed
  <2> QED BY <2>1, <2>2, <2>3, <2>4, JudgmentsAreSaid
<1> QED BY <1>3, <1>4

\* What an outcome of a report is, field by field.
LEMMA OutcomeFields ==
    ASSUME CalibrationInv, report = "built", NEW i \in Positions
    PROVE  /\ outcomes[i].case = cases[i]
           /\ outcomes[i].row = said[i].row
           /\ outcomes[i].status = "judge_failed" <=> said[i].kind = "raised"
           /\ outcomes[i].status = "passed" <=> said[i].kind = "row"
           /\ outcomes[i].exact = "yes" <=> cases[i].gold # NoRow /\ said[i] = Makes(cases[i].gold)
           /\ outcomes[i].exact # "none" <=> cases[i].gold # NoRow /\ said[i].kind = "row"
<1>1. /\ outcomes[i] = Outcome(cases[i], said[i])
      /\ said[i].kind \in {"row", "unprojectable", "raised"}
      /\ said[i].kind = "row" => said[i].row \in CategoryRows
      /\ said[i].kind # "row" => said[i].row = NoRow
      /\ cases[i].gold \in CategoryRows \cup {NoRow}
      /\ said[i] = [kind |-> said[i].kind, row |-> said[i].row]
  BY Reported, JudgmentsAreSaid
<1>2. /\ outcomes[i].case = cases[i] /\ outcomes[i].row = said[i].row
      /\ outcomes[i].status = StatusOf(said[i])
      /\ outcomes[i].exact = GoldExact(cases[i], said[i].row)
  BY <1>1 DEF Outcome
<1>3. /\ StatusOf(said[i]) = "judge_failed" <=> said[i].kind = "raised"
      /\ StatusOf(said[i]) = "passed" <=> said[i].kind = "row"
  BY <1>1 DEF StatusOf
<1>4. NoRow \notin CategoryRows BY CalibrationAssumption
<1>5. said[i] = Makes(cases[i].gold) <=> said[i].kind = "row" /\ said[i].row = cases[i].gold
  <2>1. Makes(cases[i].gold) = [kind |-> "row", row |-> cases[i].gold] BY DEF Makes
  <2> QED BY <1>1, <2>1
<1>6. GoldExact(cases[i], said[i].row) = "yes"
         <=> cases[i].gold # NoRow /\ said[i].kind = "row" /\ said[i].row = cases[i].gold
  BY <1>1, <1>4 DEF GoldExact
<1>7. GoldExact(cases[i], said[i].row) # "none" <=> cases[i].gold # NoRow /\ said[i].kind = "row"
  BY <1>1, <1>4 DEF GoldExact
<1> QED BY <1>2, <1>3, <1>5, <1>6, <1>7

\* No two cases are of one question and one variant.
LEMMA CasesApart ==
    ASSUME CalibrationInv, NEW i \in Positions, NEW j \in Positions,
           SameCase(cases[i], cases[j]), cases[i].variant = cases[j].variant
    PROVE  i = j
BY DEF CalibrationInv, Called, CasesAllowed, Positions

\* What was said of a case, looked up by the case.
LEMMA SaidOfCase ==
    ASSUME CalibrationInv, NEW i \in Positions
    PROVE  Said(cases[i]) = said[i]
<1>1. \A j \in Positions : cases[j] = cases[i] => j = i BY CasesApart DEF SameCase
<1>2. (CHOOSE j \in Positions : cases[j] = cases[i]) = i BY <1>1
<1> QED BY <1>2 DEF Said

\* The baseline of a case is the outcome of the baseline of its question.
LEMMA BaselineFound ==
    ASSUME CalibrationInv, report = "built", NEW i \in Positions
    PROVE  \E j \in Positions : /\ SameCase(cases[j], cases[i]) /\ cases[j].variant = "baseline"
                                /\ Baseline(cases[i]) = outcomes[j]
<1>1. /\ DOMAIN outcomes = Positions
      /\ \A k \in Positions : outcomes[k].case = cases[k] /\ cases[k] \in Range(cases)
  BY Reported, OutcomeFields
<1>2. PICK d \in Range(cases) : SameCase(cases[i], d) /\ d.variant = "baseline"
  BY <1>1 DEF CalibrationInv, Called, CasesAllowed
<1>3. PICK j \in Positions : d = cases[j] BY <1>2 DEF Range, Positions
<1>4. SameCase(outcomes[j].case, cases[i]) /\ outcomes[j].case.variant = "baseline"
  BY <1>1, <1>2, <1>3 DEF SameCase
<1>5. outcomes[j] \in Range(outcomes) BY <1>1 DEF Range
<1>6. \A o \in Range(outcomes) :
          SameCase(o.case, cases[i]) /\ o.case.variant = "baseline" => o = outcomes[j]
  <2> SUFFICES ASSUME NEW o \in Range(outcomes),
                      SameCase(o.case, cases[i]), o.case.variant = "baseline"
               PROVE  o = outcomes[j]
    OBVIOUS
  <2>1. PICK k \in Positions : o = outcomes[k] BY <1>1 DEF Range
  <2>2. SameCase(cases[k], cases[j]) /\ cases[k].variant = cases[j].variant
    BY <1>1, <1>2, <1>3, <2>1 DEF SameCase
  <2>3. k = j BY <2>2, CasesApart
  <2> QED BY <2>1, <2>3
<1>7. Baseline(cases[i]) = outcomes[j] BY <1>4, <1>5, <1>6 DEF Baseline
<1> QED BY <1>2, <1>3, <1>7 DEF SameCase

\* What is compared with what.
Effect(i, j) ==
    [control |-> cases[i], statuses |-> <<outcomes[j].status, outcomes[i].status>>,
     rows |-> IF outcomes[j].status = "passed" /\ outcomes[i].status = "passed"
              THEN <<outcomes[j].row, outcomes[i].row>> ELSE <<>>]

\* The effects reported pair a variant with the baseline of its own case, and each
\* variant has one.
LEMMA EffectsArePairs ==
    ASSUME CalibrationInv, report = "built"
    PROVE  /\ \A e \in PairedEffects :
                  \E i, j \in Positions :
                      /\ cases[i].variant # "baseline" /\ cases[j].variant = "baseline"
                      /\ SameCase(cases[j], cases[i]) /\ e = Effect(i, j)
           /\ \A i \in Positions : cases[i].variant # "baseline" =>
                  \E e \in PairedEffects : e.control = cases[i]
<1>1. /\ DOMAIN outcomes = Positions
      /\ \A k \in Positions : outcomes[k].case = cases[k]
  BY Reported, OutcomeFields
<1> DEFINE Controls == {p \in Range(outcomes) : p.case.variant # "baseline"}
           Pair(o) == [control |-> o.case, statuses |-> <<Baseline(o.case).status, o.status>>,
                       rows |-> IF Baseline(o.case).status = "passed" /\ o.status = "passed"
                                THEN <<Baseline(o.case).row, o.row>> ELSE <<>>]
<1>2. PairedEffects = {Pair(o) : o \in Controls} BY DEF PairedEffects
<1>3. ASSUME NEW o \in Controls
      PROVE  \E i, j \in Positions :
                 /\ cases[i].variant # "baseline" /\ cases[j].variant = "baseline"
                 /\ SameCase(cases[j], cases[i]) /\ Pair(o) = Effect(i, j)
  <2>1. o \in Range(outcomes) /\ o.case.variant # "baseline" OBVIOUS
  <2>2. PICK i \in Positions : o = outcomes[i] BY <1>1, <2>1 DEF Range
  <2>3. o.case = cases[i] BY <1>1, <2>2
  <2>4. PICK j \in Positions : /\ SameCase(cases[j], cases[i]) /\ cases[j].variant = "baseline"
                               /\ Baseline(cases[i]) = outcomes[j]
    BY BaselineFound
  <2>5. Pair(o) = Effect(i, j) BY <2>2, <2>3, <2>4 DEF Effect
  <2> QED BY <2>1, <2>3, <2>4, <2>5
<1>4. ASSUME NEW i \in Positions, cases[i].variant # "baseline"
      PROVE  outcomes[i] \in Controls /\ Pair(outcomes[i]).control = cases[i]
  BY <1>1, <1>4 DEF Range
<1> HIDE DEF Controls, Pair
<1> QED BY <1>2, <1>3, <1>4

\* A report that was built is the one the cases and the judge's answers determine.
LEMMA ReportCorrect == CalibrationInv => ReportFollowsCases
<1> SUFFICES ASSUME CalibrationInv, report = "built" PROVE ReportFollowsCases
  BY DEF ReportFollowsCases
<1>1. /\ DOMAIN outcomes = Positions
      /\ \A i \in Positions : said[i].kind \in {"row", "unprojectable", "raised"}
  BY Reported
<1>2. \A i \in Positions :
           /\ outcomes[i].case = cases[i] /\ outcomes[i].row = said[i].row
           /\ outcomes[i].status = "judge_failed" <=> said[i].kind = "raised"
           /\ outcomes[i].status = "passed" <=> said[i].kind = "row"
           /\ outcomes[i].exact = "yes" <=> cases[i].gold # NoRow /\ said[i] = Makes(cases[i].gold)
           /\ outcomes[i].exact # "none" <=> cases[i].gold # NoRow /\ said[i].kind = "row"
  BY OutcomeFields
<1>3. [i \in DOMAIN outcomes |-> outcomes[i].case] = cases
  <2>1. cases \in Seq(Range(cases)) BY DEF CalibrationInv, Called
  <2>2. cases = [i \in Positions |-> cases[i]] BY <2>1, LenProperties DEF Positions
  <2> QED BY <1>1, <1>2, <2>2
<1>4. StatusCount("judge_failed") = Cardinality({i \in Positions : said[i].kind = "raised"})
  <2>1. {i \in DOMAIN outcomes : outcomes[i].status = "judge_failed"}
            = {i \in Positions : said[i].kind = "raised"}
    BY <1>1, <1>2
  <2> QED BY <2>1 DEF StatusCount
<1>5. StatusCount("passed") = Cardinality({i \in Positions : said[i].kind = "row"})
  <2>1. {i \in DOMAIN outcomes : outcomes[i].status = "passed"}
            = {i \in Positions : said[i].kind = "row"}
    BY <1>1, <1>2
  <2> QED BY <2>1 DEF StatusCount
<1>6. GoldAgreement[1] = Cardinality({i \in Positions : cases[i].gold # NoRow
                                                         /\ said[i] = Makes(cases[i].gold)})
  <2>1. {i \in DOMAIN outcomes : outcomes[i].exact = "yes"}
            = {i \in Positions : cases[i].gold # NoRow /\ said[i] = Makes(cases[i].gold)}
    BY <1>1, <1>2
  <2> QED BY <2>1 DEF GoldAgreement
<1>7. GoldAgreement[2] = Cardinality({i \in Positions : cases[i].gold # NoRow
                                                         /\ said[i].kind = "row"})
  <2>1. {i \in DOMAIN outcomes : outcomes[i].exact # "none"}
            = {i \in Positions : cases[i].gold # NoRow /\ said[i].kind = "row"}
    BY <1>1, <1>2
  <2> QED BY <2>1 DEF GoldAgreement
<1>8. /\ \A e \in PairedEffects :
             \E i, j \in Positions :
                 /\ cases[i].variant # "baseline" /\ cases[j].variant = "baseline"
                 /\ SameCase(cases[j], cases[i]) /\ e = Effect(i, j)
      /\ \A i \in Positions : cases[i].variant # "baseline" =>
             \E e \in PairedEffects : e.control = cases[i]
  BY EffectsArePairs
<1>9. {e.control : e \in PairedEffects} = {c \in Range(cases) : c.variant # "baseline"}
  <2>1. \A c \in Range(cases) : \E i \in Positions : c = cases[i] BY DEF Range, Positions
  <2>2. \A i \in Positions : cases[i] \in Range(cases) BY DEF Range, Positions
  <2>3. \A e \in PairedEffects : \E i \in Positions :
            e.control = cases[i] /\ cases[i].variant # "baseline"
    <3> SUFFICES ASSUME NEW e \in PairedEffects
                 PROVE  \E i \in Positions : e.control = cases[i] /\ cases[i].variant # "baseline"
      OBVIOUS
    <3>1. PICK i, j \in Positions : cases[i].variant # "baseline" /\ e = Effect(i, j) BY <1>8
    <3>2. e.control = cases[i] BY <3>1 DEF Effect
    <3> QED BY <3>1, <3>2
  <2>4. \A e \in PairedEffects : e.control \in {c \in Range(cases) : c.variant # "baseline"}
    BY <2>2, <2>3
  <2>5. \A c \in Range(cases) : c.variant # "baseline" => \E e \in PairedEffects : e.control = c
    BY <1>8, <2>1
  <2> QED BY <2>4, <2>5
<1>10. ASSUME NEW e \in PairedEffects
       PROVE  \E b \in Range(cases) :
                  /\ SameCase(b, e.control) /\ b.variant = "baseline"
                  /\ (e.rows # <<>> => Said(b) = Makes(e.rows[1]) /\ Said(e.control) = Makes(e.rows[2]))
                  /\ (e.rows = <<>> => "row" \notin {Said(b).kind} \cap {Said(e.control).kind})
  <2>1. PICK i, j \in Positions :
                 /\ cases[i].variant # "baseline" /\ cases[j].variant = "baseline"
                 /\ SameCase(cases[j], cases[i]) /\ e = Effect(i, j)
    BY <1>8
  <2>2. Said(cases[i]) = said[i] /\ Said(cases[j]) = said[j] BY SaidOfCase
  <2>3. e.control = cases[i] BY <2>1 DEF Effect
  <2>4. e.rows = IF said[j].kind = "row" /\ said[i].kind = "row"
                 THEN <<said[j].row, said[i].row>> ELSE <<>>
    BY <1>2, <2>1 DEF Effect
  <2>5. \A k \in Positions : said[k].kind = "row" => said[k] = Makes(said[k].row)
    <3>1. \A k \in Positions : said[k] = [kind |-> said[k].kind, row |-> said[k].row]
      BY Reported, JudgmentsAreSaid
    <3> QED BY <3>1 DEF Makes
  <2>6. e.rows # <<>> => said[j] = Makes(e.rows[1]) /\ said[i] = Makes(e.rows[2])
    BY <2>4, <2>5
  <2>7. e.rows = <<>> => ~(said[j].kind = "row" /\ said[i].kind = "row")
    <3>1. Len(<<said[j].row, said[i].row>>) = 2 /\ Len(<< >>) = 0 OBVIOUS
    <3>2. <<said[j].row, said[i].row>> # << >> BY <3>1
    <3> QED BY <2>4, <3>2
  <2>8. cases[j] \in Range(cases) BY DEF Range, Positions
  <2> QED BY <2>1, <2>2, <2>3, <2>6, <2>7, <2>8
<1> QED BY <1>2, <1>3, <1>4, <1>5, <1>6, <1>7, <1>9, <1>10 DEF ReportFollowsCases

\* Outcomes are in the order the cases were submitted, each with its own judgment, and
\* the counts and paired effects are of those cases (evaluate_paired_calibration, JudgeCalibrationReport).
THEOREM ReportsFaithful == Spec => []ReportFollowsCases
BY CalibrationInvariant, ReportCorrect, PTL
=============================================================================
