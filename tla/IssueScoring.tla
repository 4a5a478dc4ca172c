---------------------------- MODULE IssueScoring ----------------------------
(***************************************************************************)
(* The enterprise issue adapter (scoring/enterprise_issue): a semantic     *)
(* extractor proposes issues for a packet of sources, every passage it     *)
(* names is replayed against the source texts, an issue is compiled into a *)
(* shared scoring request, engines score it on the passages the request    *)
(* declares, and the executions are replayed against their issues before   *)
(* the shared calibration gets them.                                       *)
(*                                                                         *)
(* A source text is a sequence of words, and a fingerprint of a text or a  *)
(* passage is the words.  A caller may make issue records by itself, of    *)
(* passages that nobody checked, and requests and observations with notes  *)
(* of its own.  Left out: perspectives beyond their passages, candidate    *)
(* interventions (provenance only), the explicit-value parser, metadata.   *)
(***************************************************************************)
EXTENDS GovernedScoring, Sequences

CONSTANTS
    Source,     \* source record |-> [id, words, count]
    Issue,      \* issue record |-> [id, family, content, sources, spans, counters]
                \*     a span is [id, record, kind, name, from, to, words],
                \*     a counter [content, span]
    Packets,    \* what extract_enterprise_atomic_issues may get: [records, texts]
    Proposals,  \* sets of issue records that an extractor may return
    Abstained   \* the terminal status that needs no evidence

ASSUME IssueAssumption == Abstained \in Terminal

VARIABLE extracted      \* the issue records that an extraction returned

IssueInit == extracted = {}

Role(span) ==
    CASE span.kind = "counterevidence" -> "counter"
      [] span.kind \in {"ambiguity", "value judgment"} -> "context"
      [] OTHER -> "supporting"

\* to_evidence_reference, which forgets where the passage stands
Reference(span) == [source |-> span.id, name |-> span.name, words |-> span.words, role |-> Role(span)]

CounterSpans(i) == {c.span : c \in Issue[i].counters}
IssueSpans(i)   == Issue[i].spans \cup CounterSpans(i)

\* AtomicIssueRecord, with the records nested in it
RecordAllowed(i) ==
    /\ IssueSpans(i) # {} /\ Issue[i].sources # {}
    /\ \A s \in IssueSpans(i) : s.from < s.to /\ s.record \in Issue[i].sources
    /\ \A s \in Issue[i].spans : s.kind # "counterevidence"
    /\ \A c \in Issue[i].counters :
           c.span.kind = "counterevidence" /\ c.content = Issue[i].content

\* _canonical_source_records and _verified_source_texts
PacketAllowed(packet) ==
    /\ packet.records # {}
    /\ \A r, s \in packet.records : Source[r].id = Source[s].id => r = s
    /\ DOMAIN packet.texts = {Source[r].id : r \in packet.records}
    /\ \A r \in packet.records :
           LET text == packet.texts[Source[r].id] IN
           Len(text) = Source[r].count /\ text = Source[r].words

\* _canonical_span
SpanReplays(s, packet) ==
    /\ s.record \in packet.records /\ s.id = Source[s.record].id
    /\ s.from < s.to /\ s.to <= Len(packet.texts[s.id])
    /\ s.words = SubSeq(packet.texts[s.id], s.from + 1, s.to)

Overlap(s, t) == s.record = t.record /\ s.from < t.to /\ t.from < s.to

\* _validated_extractor_output: one bad issue refuses them all.
OutputAllowed(proposal, packet) ==
    /\ \A i \in proposal :
           /\ RecordAllowed(i)
           /\ Issue[i].sources \subseteq packet.records
           /\ \A s \in IssueSpans(i) : SpanReplays(s, packet)
           /\ \A s, t \in IssueSpans(i) : s # t => ~Overlap(s, t)
    /\ \A i, j \in proposal : i # j =>
           /\ Issue[i].id # Issue[j].id
           /\ <<Issue[i].family, Issue[i].content>> # <<Issue[j].family, Issue[j].content>>

-----------------------------------------------------------------------------
(* Requests and observations *)

\* _request_metadata: what a compiled request carries of its issue
Notes(i, perspectives) ==
    [issue |-> i, content |-> Issue[i].content, sources |-> Issue[i].sources,
     spans |-> Issue[i].spans, counters |-> Issue[i].counters,
     evidence |-> {Reference(s) : s \in IssueSpans(i) \cup {p.span : p \in perspectives}}]

\* build_enterprise_issue_scoring_request, of an issue and perspectives on it
CompileAllowed(q) ==
    LET i == Ask[q].notes.issue
        perspectives == Ask[q].notes.perspectives
        spans == IssueSpans(i) \cup {p.span : p \in perspectives}
    IN  /\ RecordAllowed(i)
        /\ \A p \in perspectives :
               /\ p.span.kind = "value judgment" /\ p.content = Issue[i].content
               /\ p.span.record \in Issue[i].sources
        /\ Cardinality({Reference(s) : s \in spans}) = Cardinality(spans)
        /\ Submission[Ask[q].response].respondent = Issue[i].id
        /\ Submission[Ask[q].response].content = Issue[i].content
        /\ Ask[q].granularity = "criterion"

\* Requests with an issue's notes: compiled, or made by hand.
IssueRequests ==
    {q \in Requests : Service(q) = "issues" /\ (Ask[q].notes.by = "adapter" => CompileAllowed(q))}

Carried(q) ==
    IF Ask[q].notes.by = "adapter" THEN Notes(Ask[q].notes.issue, Ask[q].notes.perspectives)
    ELSE Ask[q].notes.carried

OfRole(references, role) == {r \in references : r.role = role}

\* build_enterprise_issue_score_observation
ObservationMade(o) ==
    /\ o.request \in IssueRequests
    /\ o.cites \subseteq Carried(o.request).evidence
    /\ o.score # Abstained =>
           /\ OfRole(o.cites, "supporting") # {}
           /\ Carried(o.request).counters # {} => OfRole(o.cites, "counter") # {}

\* The issue that an observation says it was made for: the adapter copies it
\* from the request, and whoever builds the observation directly may say any.
Stamped(o) == IF o.stamp = "adapter" THEN Carried(o.request).issue ELSE o.stamp

IssueResults ==
    {t \in Results : /\ t.request \in IssueRequests
                     /\ \A o \in t.observations : o.stamp = "adapter" => ObservationMade(o)}

-----------------------------------------------------------------------------
(* Calibration *)

\* (fault: the issue is known by its name)
RequestOfName(i, q) == Submission[Ask[q].response].respondent = Issue[i].id

\* build_enterprise_issue_facets_rating_records and _request_issue_evidence, on
\* the request
RequestOf(i, q) ==
    LET carried == Carried(q) IN
    /\ carried.issue = i /\ carried.content = Issue[i].content
    /\ carried.sources = Issue[i].sources /\ carried.spans = Issue[i].spans
    /\ carried.counters = Issue[i].counters
    /\ {Reference(s) : s \in IssueSpans(i)} \subseteq carried.evidence
    /\ Submission[Ask[q].response].respondent = Issue[i].id
    /\ Submission[Ask[q].response].content = Issue[i].content

\* and on an observation of its result
RestsOn(i, o) ==
    LET own == {Reference(s) : s \in IssueSpans(i)} IN
    /\ o.cites \subseteq Carried(o.request).evidence
    /\ o.score # Abstained =>
           /\ o.cites \cap OfRole(own, "supporting") # {}
           /\ OfRole(own, "counter") # {} => o.cites \cap OfRole(own, "counter") # {}
    /\ Stamped(o) = i

ExecutionAllowed(i, q, t, e) ==
    /\ RecordAllowed(i)
    /\ ProjectAllowed(q, t, e)
    /\ RequestOf(i, q)
    /\ \A o \in t.observations : RestsOn(i, o)

IssueRatings ==
    {Ratings(x[1], x[2], x[2].engine) :
        x \in {y \in IssueRequests \X IssueResults :
                   \E i \in DOMAIN Issue : ExecutionAllowed(i, y[1], y[2], y[2].engine)}}

-----------------------------------------------------------------------------
\* extract_enterprise_atomic_issues.  An extraction changes no issue record: it
\* is called before anything is collected, and once.
Extract ==
    /\ extracted = {} /\ collected = {}
    /\ \E packet \in Packets, proposal \in Proposals :
           /\ PacketAllowed(packet) /\ OutputAllowed(proposal, packet)
           /\ extracted' = proposal
    /\ UNCHANGED scoring

\* fit_enterprise_issue_facets_calibration_reports: the bundle is assembled and
\* every criterion fitted in one call, and one that cannot be fitted leaves none.
\* Fitting wants the designs connected, whatever the bundle was asked for.
FitReports ==
    /\ BundleAllowed(collected, TRUE)
    /\ \A D \in Range(Designs(collected)) : FitAllowed(D)
    /\ fits' = Range(Designs(collected))
    /\ UNCHANGED <<collected, bundle, extracted>>

-----------------------------------------------------------------------------
\* A score of an issue that reaches a fit rests on the issue's own evidence, on
\* the passages against it too if there are any; and if the issue came from an
\* extraction, then these passages stand in the source texts where it says, and
\* none of them counts twice.
ScoresRestOnEvidence ==
    \A D \in fits : \A r \in {x \in Scored(D) : Service(x.request) = "issues"} :
        LET i == Carried(r.request).issue
            cited == {s \in IssueSpans(i) : \E o \in r.result.observations :
                          o.target = r.criterion /\ Reference(s) \in o.cites}
        IN  /\ \E s \in cited : Role(s) = "supporting"
            /\ CounterSpans(i) # {} => cited \cap CounterSpans(i) # {}
            /\ i \in extracted => \A s \in cited :
                   /\ s.words = SubSeq(Source[s.record].words, s.from + 1, s.to)
                   /\ s.to <= Len(Source[s.record].words)
                   /\ \A t \in cited : s # t => ~Overlap(s, t)
=============================================================================
