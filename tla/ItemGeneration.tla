--------------------------- MODULE ItemGeneration ---------------------------
(***************************************************************************)
(* From a rubric to an item that may be piloted (python/fast_mlsirm/rubric:*)
(* models, contracts, generation, candidates, audit, audit_policy,         *)
(* verified_pilot).  A blueprint and a packet of sources make a request, a *)
(* provider answers it, the answer is parsed into a candidate, the         *)
(* candidate is audited, and an audited candidate may be piloted.          *)
(*                                                                         *)
(* As in GovernedScoring, artifacts are immutable and named by content,    *)
(* so what can exist is given by what the builders refuse.  A provider may *)
(* answer anything, and a caller may hand over any blueprint it can build  *)
(* and any report: the class CandidateAuditReport is open to everyone.     *)
(*                                                                         *)
(* A text is a name.  What the audit can tell of it is Normal, its form    *)
(* after case and space are folded, and Trait, the markers it contains.    *)
(* Left out: lengths, nesting, JSON syntax, and the checks by which a      *)
(* sealed artifact finds itself unchanged.                                 *)
(***************************************************************************)
EXTENDS Naturals, SequencesExt

CONSTANTS
    Rubric,         \* rubric |-> [families, format, levels]
    Blueprint,      \* blueprint |-> [rubric, family, format, levels, mode]
    Source,         \* document |-> [id, spans], the spans being what occurs in it
    Answer,         \* answer |-> what a provider may return, see ParseAllowed
    Normal,         \* text |-> normalized text
    Trait,          \* text |-> subset of {"override", "aggregate", "compound",
                    \*     "ambiguous", "long"}
    Policy,         \* audit policies a report may claim
    CurrentPolicy,  \* (AUDIT_POLICY_ID, AUDIT_POLICY_VERSION)
    MaxFindings     \* MAX_AUDIT_FINDINGS

IsList(s) == s \in Seq(Range(s))

ASSUME GenerationAssumption ==
    /\ CurrentPolicy \in Policy /\ MaxFindings \in Nat \ {0}
    /\ IsFiniteSet(DOMAIN Source)
    /\ \A a \in DOMAIN Answer :
           /\ IsList(Answer[a].options) /\ IsList(Answer[a].guide) /\ IsList(Answer[a].attributions)
           /\ Answer[a].notes \in Nat

-----------------------------------------------------------------------------
(* Requests *)

\* _require_compatible
Compatible(b) ==
    LET rubric == Rubric[Blueprint[b].rubric] IN
    /\ Blueprint[b].family \in rubric.families
    /\ Blueprint[b].format = rubric.format
    /\ Blueprint[b].levels = rubric.levels

\* _validate_source_cardinality
CardinalityAllowed(mode, n) ==
    \/ mode = "closed_book" /\ n = 0
    \/ mode = "single_source" /\ n = 1
    \/ mode \in {"multi_source", "adversarial_context"} /\ n >= 2
    \/ mode = "unanswerable" /\ n >= 1

\* _normalize_sources
SourcesAllowed(docs) == \A d, e \in docs : Source[d].id = Source[e].id => d = e

RequestAllowed(q) ==
    /\ Compatible(q.blueprint)
    /\ SourcesAllowed(q.docs)
    /\ CardinalityAllowed(Blueprint[q.blueprint].mode, Cardinality(q.docs))

Requests ==
    {q \in [blueprint : DOMAIN Blueprint, docs : SUBSET DOMAIN Source] : RequestAllowed(q)}

-----------------------------------------------------------------------------
(* Candidates: an answer and the request it was parsed for *)

Given(c)   == Answer[c.answer]
Mode(c)    == Blueprint[c.request.blueprint].mode
Levels(c)  == Blueprint[c.request.blueprint].levels
Spans(c)   == Range(Given(c).attributions)

\* Score levels are 0 .. n-1; both lists have each of them once, ascending.
GuideAllowed(list, n) ==
    /\ Len(list) = n
    /\ \A i \in 1 .. n : list[i].score = i - 1

\* (fault: any source the author knows will do, not only those of the request)
AttributionsAllowedAnywhere(c) ==
    IF Mode(c) = "closed_book" THEN Given(c).attributions = <<>>
    ELSE /\ Given(c).attributions # <<>>
         /\ IsInjective(Given(c).attributions)
         /\ \A a \in Spans(c) : \E d \in DOMAIN Source : Source[d].id = a[1] /\ a[2] \in Source[d].spans
         /\ Mode(c) = "multi_source" => Cardinality({a[1] : a \in Spans(c)}) >= 2

\* _parse_attributions
AttributionsAllowed(c) ==
    IF Mode(c) = "closed_book" THEN Given(c).attributions = <<>>
    ELSE /\ Given(c).attributions # <<>>
         /\ IsInjective(Given(c).attributions)
         /\ \A a \in Spans(c) :
                \E d \in c.request.docs : Source[d].id = a[1] /\ a[2] \in Source[d].spans
         /\ Mode(c) = "single_source" => Cardinality({a[1] : a \in Spans(c)}) = 1
         /\ Mode(c) = "multi_source" => Cardinality({a[1] : a \in Spans(c)}) >= 2

Ids(options) == {options[i].id : i \in DOMAIN options}

\* _parse_options and _parse_answer_key
KeyAllowed(format, options, key, n) ==
    /\ Cardinality(Ids(options)) = Len(options)
    /\ \/ format = "constructed_response" /\ options = <<>>
       \/ format = "binary_judgment" /\ options = <<>>
       \/ format = "ordinal_rating" /\ options = <<>> /\ key \in 0 .. n - 1
       \/ format = "selected_response" /\ Len(options) >= 2 /\ key # {} /\ key \subseteq Ids(options)
       \/ /\ format = "pairwise_comparison" /\ Len(options) = 2
          /\ key \in {<<"tie">>, <<"left_option", options[1].id>>, <<"right_option", options[2].id>>}

\* parse_generated_item_candidate.  The answer repeats the blueprint, not the
\* request: it may have been written for another packet of sources.
ParseAllowed(c) ==
    /\ Given(c).blueprint = c.request.blueprint
    /\ Given(c).format = Blueprint[c.request.blueprint].format
    /\ GuideAllowed(Given(c).guide, Levels(c))
    /\ GuideAllowed(Given(c).alignment, Levels(c))
    /\ \A i \in DOMAIN Given(c).alignment : Given(c).alignment[i].indicators # <<>>
    /\ AttributionsAllowed(c)
    /\ KeyAllowed(Given(c).format, Given(c).options, Given(c).key, Levels(c))

\* execute_generation: an answer that does not parse, or none, gives no candidate
Candidates == {c \in [request : Requests, answer : DOMAIN Answer] : ParseAllowed(c)}

-----------------------------------------------------------------------------
(* The audit *)

Finding(code, severity, path) == [code |-> code, severity |-> severity, path |-> path]

\* Positions whose text normalizes to that of an earlier one.
Repeats(texts) == {i \in DOMAIN texts : \E j \in 1 .. i - 1 : Normal[texts[j]] = Normal[texts[i]]}

Marked(texts, trait) == {i \in DOMAIN texts : trait \in Trait[texts[i]]}

OptionTexts(c)  == [i \in DOMAIN Given(c).options |-> Given(c).options[i].text]
EvidenceTexts(c) == [i \in DOMAIN Given(c).guide |-> Given(c).guide[i].evidence]
SpanTexts(c)    == [i \in DOMAIN Given(c).attributions |-> Given(c).attributions[i][2]]
Indicators(c)   == FlattenSeq([i \in DOMAIN Given(c).alignment |-> Given(c).alignment[i].indicators])
AllTexts(c)     == <<Given(c).stem>> \o OptionTexts(c) \o EvidenceTexts(c) \o Indicators(c) \o SpanTexts(c)

Findings(c) ==
    {Finding("prompt_injection_indicator", "review_required", <<"text", i>>)
        : i \in Marked(AllTexts(c), "override")}
    \cup {Finding("duplicate_option_text", "blocking", <<"options", i>>)
        : i \in Repeats(OptionTexts(c))}
    \cup {Finding("ambiguous_option_pattern", "review_required", <<"options", i>>)
        : i \in Marked(OptionTexts(c), "aggregate")}
    \cup {Finding("indistinguishable_score_evidence", "blocking", <<"guide", i>>)
        : i \in Repeats(EvidenceTexts(c))}
    \cup {Finding("overlapping_rubric_indicator", "blocking", <<"alignment", i>>)
        : i \in Repeats(Indicators(c))}
    \cup {Finding("non_atomic_rubric_indicator", "review_required", <<"alignment", i>>)
        : i \in Marked(Indicators(c), "compound")}
    \cup {Finding("duplicate_source_attribution", "blocking", <<"attributions", i>>)
        : i \in {j \in DOMAIN SpanTexts(c) : \E k \in 1 .. j - 1 :
                     /\ Given(c).attributions[k][1] = Given(c).attributions[j][1]
                     /\ Normal[SpanTexts(c)[k]] = Normal[SpanTexts(c)[j]]}}
    \cup {Finding("ambiguous_stem", "review_required", <<"stem">>)
        : t \in Trait[Given(c).stem] \cap {"ambiguous"}}
    \cup {Finding("long_stem_advisory", "advisory", <<"stem">>)
        : t \in Trait[Given(c).stem] \cap {"long"}}
    \cup {Finding("declared_safety_note", "review_required", <<"safety_notes", i>>)
        : i \in 1 .. Given(c).notes}

\* _cap_findings: which findings are kept goes by their paths, arbitrary here.
Cap(found) ==
    IF Cardinality(found) <= MaxFindings THEN found
    ELSE {Finding("audit_finding_budget_exceeded", "blocking", <<>>)}
         \cup CHOOSE kept \in SUBSET found : Cardinality(kept) = MaxFindings - 1

\* The one state that CandidateAuditReport takes with these findings.
StateFor(found) == IF \E f \in found : f.severity # "advisory" THEN "draft" ELSE "audited"

Report(policy, c, found) ==
    [policy |-> policy, candidate |-> c, findings |-> found, state |-> StateFor(found)]

Audit(c) == Report(CurrentPolicy, c, Cap(Findings(c)))

\* Reports a caller may come with: of any candidate, under any policy, with the
\* findings of some candidate or none.
Reports == {Report(p, c, found) : p \in Policy, c \in Candidates,
                                  found \in {{}} \cup {Cap(Findings(d)) : d \in Candidates}}

\* (fault: a report is taken at its word)
PilotAllowedAsReported(c, report) ==
    /\ report.candidate = c /\ report.policy = CurrentPolicy /\ report.state = "audited"

\* build_pilot_candidate_record of audit_policy.py, which replays the audit
PilotAllowed(c, report) ==
    /\ report.candidate = c /\ report.policy = CurrentPolicy
    /\ report = Audit(c)
    /\ report.state = "audited"

\* Candidates that some report gets into a pilot.
Pilotable == {c \in Candidates : \E report \in Reports : PilotAllowed(c, report)}
=============================================================================
