---------------------------- MODULE ThresholdJudge ----------------------------
(***************************************************************************)
(* One LLMJudge.judge call with the binary_threshold method                *)
(* (python/fast_mlsirm/llm_judge.py): every ordered boundary of every      *)
(* criterion is put to the gateway as a yes/no question of its own, by the *)
(* calling thread or by a pool of threads, and the answers are put back    *)
(* together into a category per criterion, or into evidence of a failure.  *)
(*                                                                         *)
(* A request is its place in the `requests` list.  A question is begun and *)
(* settled in two steps; between them lies the gateway, which may answer   *)
(* with a boolean and a text of some size, answer with something           *)
(* judge_boundary cannot read, or raise.                                   *)
(*                                                                         *)
(* Left out: validation of the arguments, prompts, traces, token usage,    *)
(* the reported mode and the weighted score.                               *)
(***************************************************************************)
EXTENDS Naturals, Sequences, FiniteSets, FiniteSetsExt, Functions

CONSTANTS
    Criteria,           \* number of criteria
    Boundaries,         \* category_count - 1
    LocalConcurrency,   \* client.local_concurrency; 0 when there is none
    Sizes,              \* sizes an answer's text may have
    MaxText             \* MAX_JUDGE_TEXT_CHARACTERS, in the same unit

ASSUME RequestsAssumption == Criteria \in Nat \ {0} /\ Boundaries \in Nat \ {0}

ASSUME GatewayAssumption ==
    LocalConcurrency \in Nat /\ Sizes \subseteq Nat /\ MaxText \in Nat

CriterionIds == 1 .. Criteria
CallCount    == Criteria * Boundaries
Calls        == 1 .. CallCount

CriterionOf(i)  == ((i - 1) \div Boundaries) + 1
RequestOf(c, t) == (c - 1) * Boundaries + t

\* _binary_threshold_concurrency
MaxWorkers == IF LocalConcurrency = 0 THEN 1
              ELSE IF LocalConcurrency <= CallCount THEN LocalConcurrency ELSE CallCount

Failures == {"boundary_failure", "non_monotone", "evidence_oversize"}

Records == [call : {"not_started", "started", "completed", "failed"},
            parse : {"not_attempted", "passed", "failed"},
            meets : {"yes", "no", "unset"}, size : Sizes \cup {0}]

VARIABLES
    handed,     \* requests handed out so far, in order
    record,     \* the record and judgment judge_boundary keeps of each request
    done,       \* requests whose judge_boundary has returned
    results,    \* the requests whose results the caller has, in its order
    verdict,    \* "none", "scored" or the semantic_status of a failure
    categories, \* criterion_categories of a scored call
    evidence,   \* the counts of failure_evidence
    replies     \* ghost: what the gateway made of each request

thresholdVars == <<handed, record, done, results, verdict, categories, evidence, replies>>
caller == <<results, verdict, categories, evidence>>

UnderWay == {i \in Calls : i <= handed} \ done

NoEvidence == [calls |-> 0, completed |-> 0, failed |-> 0, parse |-> "none"]
NoCategories == [c \in CriterionIds |-> 0]

ThresholdInit ==
    /\ handed = 0 /\ done = {}
    /\ record = [i \in Calls |->
           [call |-> "not_started", parse |-> "not_attempted", meets |-> "unset", size |-> 0]]
    /\ results = <<>> /\ verdict = "none"
    /\ categories = NoCategories /\ evidence = NoEvidence
    /\ replies = [i \in Calls |-> "nothing"]

-----------------------------------------------------------------------------
(* judge_boundary, in the caller's thread or in one of the pool              *)

\* (fault: no more are asked once one failed)
BeginUnlessFailed ==
    /\ handed < CallCount
    /\ Cardinality(UnderWay) < MaxWorkers
    /\ \A i \in done : record[i].call = "completed"
    /\ handed' = handed + 1
    /\ record' = [record EXCEPT ![handed + 1].call = "started"]
    /\ UNCHANGED <<done, replies, caller>>

\* A free worker takes the next request and calls the gateway.
Begin ==
    /\ handed < CallCount
    /\ Cardinality(UnderWay) < MaxWorkers
    /\ handed' = handed + 1
    /\ record' = [record EXCEPT ![handed + 1].call = "started"]
    /\ UNCHANGED <<done, replies, caller>>

Settle(i, call, parse, meets, size, what) ==
    /\ i \in UnderWay
    /\ record' = [record EXCEPT ![i] =
           [call |-> call, parse |-> parse, meets |-> meets, size |-> size]]
    /\ done' = done \cup {i}
    /\ replies' = [replies EXCEPT ![i] = what]
    /\ UNCHANGED <<handed, caller>>

Answered(i) ==
    \E meets \in {"yes", "no"}, size \in Sizes :
        Settle(i, "completed", "passed", meets, size, meets)

\* Not a mapping, not one object, not a boolean; or, with meets_threshold
\* already in the record, no usable rationale.
Unreadable(i) ==
    \E meets \in {"yes", "no", "unset"} :
        Settle(i, "completed", "failed", meets, 0, "unreadable")

Raised(i) == Settle(i, "failed", "not_attempted", "unset", 0, "raised")

JudgeBoundary == Begin \/ \E i \in Calls : Answered(i) \/ Unreadable(i) \/ Raised(i)

-----------------------------------------------------------------------------
(* The calling thread                                                        *)

\* (fault: results are taken in the order they complete)
CollectAsCompleted ==
    /\ \E i \in done \ Range(results) : results' = Append(results, i)
    /\ UNCHANGED <<handed, record, done, replies, verdict, categories, evidence>>

\* list(pool.map(...)) takes the results in the order of the requests.
CollectResult ==
    /\ Len(results) + 1 \in done
    /\ results' = Append(results, Len(results) + 1)
    /\ UNCHANGED <<handed, record, done, replies, verdict, categories, evidence>>

Ok(i) == record[i].parse = "passed"

OfCriterion(c) == {k \in DOMAIN results : CriterionOf(results[k]) = c}

\* thresholds[c]: the answers of c's results, appended in the order collected;
\* the t-th of them has t of them up to it.
Thresholds(c) ==
    [t \in 1 .. Cardinality(OfCriterion(c)) |->
        LET place == CHOOSE k \in OfCriterion(c) :
                         Cardinality({j \in OfCriterion(c) : j <= k}) = t
        IN  record[results[place]].meets]

NonMonotone ==
    \E c \in CriterionIds : \E t \in 1 .. Boundaries - 1 :
        Thresholds(c)[t] = "no" /\ Thresholds(c)[t + 1] = "yes"

\* combined_rationale and raw_output grow with every answer.
Oversize == MapThenSumSet(LAMBDA i : record[i].size, Calls) > MaxText

WithCall(status) == Cardinality({i \in Calls : record[i].call = status})

FailureEvidence ==
    [calls |-> Len(results), completed |-> WithCall("completed"), failed |-> WithCall("failed"),
     parse |-> IF \A i \in Calls : Ok(i) THEN "passed" ELSE "failed"]

Fail(status) ==
    verdict' = status /\ evidence' = FailureEvidence /\ UNCHANGED categories

\* sum(raw_thresholds[criterion_id])
Score ==
    /\ verdict' = "scored"
    /\ categories' = [c \in CriterionIds |->
                         Cardinality({t \in 1 .. Boundaries : Thresholds(c)[t] = "yes"})]
    /\ UNCHANGED evidence

ConcludeJudgment ==
    /\ verdict = "none" /\ Len(results) = CallCount
    /\ \/ /\ \E i \in Calls : ~Ok(i)
          /\ Fail("boundary_failure")
       \/ /\ \A i \in Calls : Ok(i)
          /\ \/ NonMonotone /\ Fail("non_monotone")
             \/ ~NonMonotone /\ Oversize /\ Fail("evidence_oversize")
             \/ ~NonMonotone /\ ~Oversize /\ Score
    /\ UNCHANGED <<handed, record, done, replies, results>>

ThresholdNext == JudgeBoundary \/ CollectResult \/ ConcludeJudgment

ThresholdSpec == ThresholdInit /\ [][ThresholdNext]_thresholdVars

\* The threads are scheduled and each gateway call ends, one way or another.
ThresholdFairness ==
    /\ WF_thresholdVars(Begin) /\ WF_thresholdVars(CollectResult) /\ WF_thresholdVars(ConcludeJudgment)
    /\ \A i \in Calls : WF_thresholdVars(Answered(i) \/ Unreadable(i) \/ Raised(i))

FairThresholdSpec == ThresholdSpec /\ ThresholdFairness

-----------------------------------------------------------------------------
(* Properties *)

ThresholdTypeOK ==
    /\ handed \in 0 .. CallCount /\ done \subseteq 1 .. handed
    /\ record \in [Calls -> Records]
    /\ results \in Seq(Calls) /\ Len(results) <= CallCount
    /\ verdict \in Failures \cup {"none", "scored"}
    /\ categories \in [CriterionIds -> 0 .. Boundaries]
    /\ evidence.calls \in 0 .. CallCount
    /\ replies \in [Calls -> {"nothing", "yes", "no", "unreadable", "raised"}]

\* However the threads are scheduled: one boundary that the gateway did not
\* answer readably fails the whole call, and it fails as that, not as a judgment
\* about the answers; and a category k means that the gateway said yes to
\* boundaries 1 to k of that very criterion and no to all above.
VerdictFollowsAnswers ==
    /\ verdict # "none" =>
           (verdict = "boundary_failure" <=> \E i \in Calls : replies[i] \notin {"yes", "no"})
    /\ verdict = "scored" =>
           \A c \in CriterionIds, t \in 1 .. Boundaries :
               replies[RequestOf(c, t)] = IF t <= categories[c] THEN "yes" ELSE "no"

\* Every call ends in a judgment or in a failure.
JudgeReturns == <>(verdict # "none")
=============================================================================
