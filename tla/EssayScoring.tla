---------------------------- MODULE EssayScoring ----------------------------
(***************************************************************************)
(* The essay adapter (python/fast_mlsirm/scoring/essay): a prompt and a    *)
(* submission are compiled into a shared scoring request, an engine's      *)
(* answer is taken as that request's result, and request, result and       *)
(* engine are bound in a score report that says whether a person has to    *)
(* look at it.                                                             *)
(*                                                                         *)
(* A prompt is a task revision, a submission one response to it.  The      *)
(* adapters are sealed, so an essay request is exactly what the builder    *)
(* made of a prompt and a submission; its notes are the metadata that the  *)
(* builder writes into the shared request.  Left out: languages, genres,   *)
(* counted units, the HTML of the reports, and the validation report,      *)
(* whose metrics the caller supplies.                                      *)
(***************************************************************************)
EXTENDS GovernedScoring

CONSTANTS
    Prompt,     \* prompt |-> [task, family, limit]
    Essay,      \* submission |-> [prompt, response, length, flags]
    NoEssay     \* a request that the essay adapter did not make

ASSUME EssayAssumption == NoEssay \notin DOMAIN Essay

VARIABLE scoreReport     \* the score report issued last, none at first

NoReport == [issued |-> FALSE]

EssayInit == scoreReport = NoReport

\* build_essay_submission
SubmissionAllowed(x) == Essay[x].length <= Prompt[Essay[x].prompt].limit

\* build_essay_response_evidence: a passage of the essay or of its prompt, or of
\* a source of its own.
PassageAllowed(v) ==
    LET x == Essay[v.essay] IN
    /\ v.prompt = x.prompt
    /\ v.kind = "response" => v.source = Submission[x.response].id /\ v.to <= x.length
    /\ v.kind = "prompt"   => v.source = Prompt[x.prompt].task
    /\ v.kind # "response" => v.to <= Prompt[x.prompt].limit

\* build_essay_scoring_request: the labels of the shared request are those of
\* the prompt and the submission, and all passages belong to both.
EssayRequest(q) ==
    /\ q \in Requests /\ Service(q) = "texts" /\ Ask[q].notes.essay # NoEssay
    /\ LET x == Essay[Ask[q].notes.essay]
           text == Submission[Ask[q].response]
       IN  /\ SubmissionAllowed(Ask[q].notes.essay)
           /\ Ask[q].response = x.response
           /\ text.revision = x.prompt
           /\ text.task = Prompt[x.prompt].task /\ text.family = Prompt[x.prompt].family
           /\ Ask[q].granularity = "criterion"
           /\ \A v \in Ask[q].notes.passages :
                  PassageAllowed(v) /\ v.essay = Ask[q].notes.essay

\* Requests for responses: of the essay adapter, or without its notes.
TextRequests ==
    {q \in Requests : Service(q) = "texts" /\ (Ask[q].notes.essay = NoEssay \/ EssayRequest(q))}

\* (fault: the result is known by the response it is about)
AnswersByResponse(q, t, e) ==
    Submission[Ask[t.request].response].id = Submission[Ask[q].response].id /\ t.engine = e

\* score_essay_request: the engine is a callback, which may return any result.
Answers(q, t, e) == t.request = q /\ t.engine = e

\* _validate_report_binding
ReportAllowed(q, t, e) ==
    /\ EssayRequest(q)
    /\ Answers(q, t, e)
    /\ {o.target : o \in t.observations} = Targets(q)
    /\ \A o \in t.observations : o.engine = e

\* _mandatory_review_triggers, to which a caller may add but not take away.
ReviewTriggers(q, t) ==
    Essay[Ask[q].notes.essay].flags
        \cup {"missing evidence" : o \in {p \in t.observations : p.score \notin Terminal /\ p.cites = {}}}
        \cup {o.score : o \in {p \in t.observations : p.score \in Terminal}}

\* build_essay_score_report.  A report is a function of its arguments, so it is
\* issued before anything is collected.
IssueReport ==
    /\ collected = {}
    /\ \E t \in Results : \E q \in {r \in DOMAIN Ask : EssayRequest(r)}, more \in SUBSET {"by policy"} :
           /\ ReportAllowed(q, t, t.engine)
           /\ scoreReport' = [issued |-> TRUE, request |-> q, result |-> t,
                              triggers |-> ReviewTriggers(q, t) \cup more]
    /\ UNCHANGED scoring

-----------------------------------------------------------------------------
\* A report that asks nobody to look at it speaks of an essay that raised no
\* flag when it was handed in, within the limits of its prompt, and each of the
\* criteria that its assessment asks for was scored on some evidence by an
\* engine that the assessment admits.
ReviewIsNotLost ==
    scoreReport.issued /\ scoreReport.triggers = {} =>
        LET t == scoreReport.result
            x == Essay[Ask[t.request].notes.essay]
        IN  /\ x.flags = {} /\ x.length <= Prompt[x.prompt].limit
            /\ \A c \in Targets(scoreReport.request) : \E o \in t.observations :
                   o.target = c /\ o.score \notin Terminal /\ o.cites # {}
            /\ Authorize(scoreReport.request, t.engine)
=============================================================================
