--------------------------- MODULE JudgeCalibration ---------------------------
(***************************************************************************)
(* evaluate_paired_calibration (python/fast_mlsirm/judge_calibration.py):  *)
(* variants of cases are put to one judge, by the calling thread or by a   *)
(* pool of threads, and a report pairs every control with its baseline.    *)
(*                                                                         *)
(* The judge is the LLMJudge that ThresholdJudge models; here its call is  *)
(* the gateway calls it makes and what comes of it.  With the method       *)
(* binary_threshold it makes one for every boundary, through a pool of its *)
(* own; with the others it makes one.  Left out: texts, metadata, strata   *)
(* by number of options, and which error types may be named.               *)
(***************************************************************************)
EXTENDS Naturals, Sequences, FiniteSets, FiniteSetsExt, Functions

CONSTANTS
    Submitted,          \* lists of cases a caller may come with; a case is
                        \*     [id, variant, status, gold]
    CategoryRows,       \* rows of categories a judgment may project to
    NoRow,              \* no gold categories, no row
    BoundaryCalls,      \* CallCount of ThresholdJudge
    AdmittedCalls       \* LocalConcurrency of ThresholdJudge

ASSUME CalibrationAssumption ==
    /\ \A list \in Submitted : list \in Seq(Range(list))
    /\ NoRow \notin CategoryRows /\ BoundaryCalls \in Nat \ {0} /\ AdmittedCalls \in Nat

Methods == {"direct", "binary_threshold"}   \* cumulative_threshold is as direct

\* What comes of a judge call: a row; a result without categories, whose scores
\* are projected all the same (LLMJudge gives none, another judge may); a result
\* that cannot be projected; an exception; an exception, of the gateway say, with
\* an `evidence` that is no mapping.
Makes(row) == [kind |-> "row", row |-> row]
Judgments ==
    {Makes(row) : row \in CategoryRows}
    \cup [kind : {"uncategorised"}, row : CategoryRows]
    \cup [kind : {"unprojectable", "raised", "raised oddly"}, row : {NoRow}]

VARIABLES
    cases, method,  \* the arguments of the call
    taken,          \* cases handed to workers so far, in order
    asked, open,    \* of each case: gateway calls made, and under way
    said,           \* of each case: what came of its judge call
    outcomes,       \* the outcomes the caller has, in its order
    report          \* "none", "built", "refused" or "raised"

vars == <<cases, method, taken, asked, open, said, outcomes, report>>

Positions == DOMAIN cases
Unsaid    == [kind |-> "nothing", row |-> NoRow]
Running   == {i \in 1 .. taken : said[i] = Unsaid}

\* _binary_threshold_concurrency
Limit(calls) == IF AdmittedCalls = 0 THEN 1 ELSE Min({AdmittedCalls, calls})

\* (fault: the limit is used whatever the method)
WorkersForAny == Limit(Len(cases))

\* _calibration_concurrency
Workers == IF method = "binary_threshold" THEN 1 ELSE Limit(Len(cases))

CallsPerCase == IF method = "binary_threshold" THEN BoundaryCalls ELSE 1

SameCase(c, d) == c.id = d.id

\* _validate_case_groups, and the gold rows
CasesAllowed(list) ==
    /\ list # <<>>
    /\ \A i, j \in DOMAIN list :
           (SameCase(list[i], list[j]) /\ list[i].variant = list[j].variant) => i = j
    /\ \A c \in Range(list) :
           /\ \E d \in Range(list) : SameCase(c, d) /\ d.variant = "baseline"
           /\ \E d \in Range(list) : SameCase(c, d) /\ d.variant # c.variant
           /\ \A d \in Range(list) : SameCase(c, d) => c.status = d.status
           /\ c.gold \in CategoryRows \cup {NoRow}

Init ==
    /\ cases \in {list \in Submitted : CasesAllowed(list)} /\ method \in Methods
    /\ taken = 0 /\ outcomes = <<>> /\ report = "none"
    /\ asked = [i \in Positions |-> 0] /\ open = [i \in Positions |-> 0]
    /\ said = [i \in Positions |-> Unsaid]

-----------------------------------------------------------------------------
(* evaluate_case, in the caller's thread or in one of the pool               *)

\* A free worker takes the next case; the calling thread does so when it has the
\* outcome of the one before.
Take ==
    /\ report = "none" /\ taken < Len(cases) /\ Cardinality(Running) < Workers
    /\ Workers = 1 => Len(outcomes) = taken
    /\ taken' = taken + 1
    /\ UNCHANGED <<cases, method, asked, open, said, outcomes, report>>

\* (fault: the boundaries of all cases share the pool that evaluates the cases)
AskInSharedPool(i) ==
    /\ i \in Running /\ asked[i] < CallsPerCase
    /\ Cardinality(Running) + MapThenSumSet(LAMBDA j : open[j], Positions) < Limit(Len(cases))
    /\ asked' = [asked EXCEPT ![i] = @ + 1] /\ open' = [open EXCEPT ![i] = @ + 1]
    /\ UNCHANGED <<cases, method, taken, said, outcomes, report>>

\* The judge of a case calls the gateway.
Ask(i) ==
    /\ i \in Running /\ asked[i] < CallsPerCase /\ open[i] < Limit(CallsPerCase)
    /\ asked' = [asked EXCEPT ![i] = @ + 1] /\ open' = [open EXCEPT ![i] = @ + 1]
    /\ UNCHANGED <<cases, method, taken, said, outcomes, report>>

Return(i) ==
    /\ open[i] > 0
    /\ open' = [open EXCEPT ![i] = @ - 1]
    /\ UNCHANGED <<cases, method, taken, asked, said, outcomes, report>>

\* The judge call is over, and with it evaluate_case.
Judge(i) ==
    /\ i \in Running /\ asked[i] = CallsPerCase /\ open[i] = 0
    /\ \E judgment \in Judgments : said' = [said EXCEPT ![i] = judgment]
    /\ UNCHANGED <<cases, method, taken, asked, open, outcomes, report>>

-----------------------------------------------------------------------------
(* The calling thread                                                        *)

StatusOf(judgment) ==
    CASE judgment.kind \in {"row", "uncategorised"} -> "passed"
      [] judgment.kind = "unprojectable" -> "irt_failed"
      [] OTHER -> "judge_failed"

GoldExact(case, row) == IF case.gold = NoRow \/ row = NoRow THEN "none"
                        ELSE IF case.gold = row THEN "yes" ELSE "no"

\* What evaluate_case returns; the result it keeps has the categories or not.
Outcome(case, judgment) ==
    [case |-> case, status |-> StatusOf(judgment), row |-> judgment.row,
     exact |-> GoldExact(case, judgment.row), categorised |-> judgment.kind # "uncategorised"]

\* Outcomes are taken in the order of the cases.  An exception that evaluate_case
\* does not turn into an outcome, because the outcome refuses its evidence, ends
\* the evaluation: cases that no worker has taken are cancelled.
Collect ==
    LET i == Len(outcomes) + 1 IN
    /\ report = "none" /\ i \in 1 .. taken \ Running
    /\ IF said[i].kind = "raised oddly"
       THEN report' = "raised" /\ UNCHANGED outcomes
       ELSE outcomes' = Append(outcomes, Outcome(cases[i], said[i])) /\ UNCHANGED report
    /\ UNCHANGED <<cases, method, taken, asked, open, said>>

\* JudgeCalibrationReport, which a passed result without categories refuses.
Conclude ==
    /\ report = "none" /\ Len(outcomes) = Len(cases)
    /\ report' = IF \A o \in Range(outcomes) : o.status = "passed" => o.categorised
                 THEN "built" ELSE "refused"
    /\ UNCHANGED <<cases, method, taken, asked, open, said, outcomes>>

Next == Take \/ Collect \/ Conclude \/ \E i \in Positions : Ask(i) \/ Return(i) \/ Judge(i)

Spec == Init /\ [][Next]_vars

\* Threads are scheduled and gateway calls return.
Fairness ==
    /\ WF_vars(Take) /\ WF_vars(Collect) /\ WF_vars(Conclude)
    /\ WF_vars(\E i \in Positions : Ask(i) \/ Return(i) \/ Judge(i))

FairSpec == Spec /\ Fairness

-----------------------------------------------------------------------------
(* What the report says                                                      *)

\* (fault: the first outcome of a case is its baseline)
BaselineFirst(case) ==
    outcomes[Min({i \in DOMAIN outcomes : SameCase(outcomes[i].case, case)})]

Baseline(case) ==
    CHOOSE o \in Range(outcomes) : SameCase(o.case, case) /\ o.case.variant = "baseline"

\* paired_effects: every control beside its baseline, with both rows if both passed
PairedEffects ==
    {[control |-> o.case, statuses |-> <<Baseline(o.case).status, o.status>>,
      rows |-> IF Baseline(o.case).status = "passed" /\ o.status = "passed"
               THEN <<Baseline(o.case).row, o.row>> ELSE <<>>]
        : o \in {p \in Range(outcomes) : p.case.variant # "baseline"}}

\* status_counts, and gold_exact_agreement as <<exact, scored>>
StatusCount(status) == Cardinality({i \in DOMAIN outcomes : outcomes[i].status = status})
GoldAgreement ==
    <<Cardinality({i \in DOMAIN outcomes : outcomes[i].exact = "yes"}),
      Cardinality({i \in DOMAIN outcomes : outcomes[i].exact # "none"})>>

-----------------------------------------------------------------------------
(* Properties *)

Said(case) == said[CHOOSE i \in Positions : cases[i] = case]

TypeOK ==
    /\ taken \in 0 .. Len(cases)
    /\ asked \in [Positions -> 0 .. CallsPerCase] /\ open \in [Positions -> 0 .. CallsPerCase]
    /\ said \in [Positions -> Judgments \cup {Unsaid}]
    /\ Len(outcomes) <= Len(cases) /\ report \in {"none", "built", "refused", "raised"}

\* One gateway never has more calls under way than it admits, although cases
\* and boundaries may both be evaluated by pools.
CallsWithinLimit ==
    MapThenSumSet(LAMBDA i : open[i], Positions) <= Max({AdmittedCalls, 1})

\* A report accounts for every case once, failed ones too, with what the judge
\* made of that very case; its counts and its agreement with gold are those of
\* the judge calls.  Every control is compared once, with the judgment of its
\* own question's baseline, and no difference is drawn where either has none.
ReportFollowsCases ==
    report = "built" =>
        /\ [i \in DOMAIN outcomes |-> outcomes[i].case] = cases
        /\ \A i \in Positions : outcomes[i].row = said[i].row
        /\ StatusCount("judge_failed") = Cardinality({i \in Positions : said[i].kind = "raised"})
        /\ StatusCount("passed") = Cardinality({i \in Positions : said[i].kind = "row"})
        /\ GoldAgreement[1] = Cardinality({i \in Positions : cases[i].gold # NoRow
                                                              /\ said[i] = Makes(cases[i].gold)})
        /\ GoldAgreement[2] = Cardinality({i \in Positions : cases[i].gold # NoRow
                                                              /\ said[i].kind = "row"})
        /\ {e.control : e \in PairedEffects} = {c \in Range(cases) : c.variant # "baseline"}
        /\ \A e \in PairedEffects :
               \E b \in Range(cases) :
                   /\ SameCase(b, e.control) /\ b.variant = "baseline"
                   /\ e.rows # <<>> => Said(b) = Makes(e.rows[1]) /\ Said(e.control) = Makes(e.rows[2])
                   /\ e.rows = <<>> => "row" \notin {Said(b).kind} \cap {Said(e.control).kind}

\* However the threads are scheduled, the evaluation ends.
CalibrationReturns == <>(report # "none" /\ Running = {})
=============================================================================
