-------------------------- MODULE MCGovernedScoring --------------------------
(***************************************************************************)
(* A small instance of the scoring services: two respondents, two          *)
(* revisions of one task, two rubrics, three engines, four assessments     *)
(* (one of them refused), and with them what a careless caller may say: a  *)
(* second text of one respondent, one response name for two texts, a       *)
(* rubric or a task family that the assessment does not know, a            *)
(* granularity it does not admit, a request without criteria, an essay     *)
(* over its limit, passages of another essay, notes made by hand.  The     *)
(* issues: two honest ones, one of them rewritten without the passage      *)
(* against it, and proposals whose passages do not replay.                 *)
(***************************************************************************)
EXTENDS ScoringServices, TLC

MCRubric ==
    "clarity" :> [id |-> "clarity", construct |-> "writing", families |-> {"essay"},
                  scale |-> {"0", "1"}]
    @@ "logic" :> [id |-> "logic", construct |-> "reasoning", families |-> {"essay"},
                   scale |-> {"0", "1"}]

Policy(human, engines) == [human |-> human, automated |-> engines # {}, engines |-> engines]

MCDraft ==
    "hybrid" :> [policy |-> Policy(TRUE, {"m1"}), rubrics |-> {"clarity"}, kind |-> "mixed",
                 constructs |-> "writing" :> {"clarity"}, scopes |-> {"writing"}]
    @@ "machine" :> [policy |-> Policy(FALSE, {"m2"}), rubrics |-> {"clarity"},
                     kind |-> "criterion", constructs |-> "writing" :> {"clarity"},
                     scopes |-> {}]
    @@ "crossed" :> [policy |-> Policy(TRUE, {}), rubrics |-> {"clarity", "logic"},
                     kind |-> "mixed", constructs |-> "writing" :> {"clarity", "logic"},
                     scopes |-> {}]
    @@ "triage" :> [policy |-> Policy(TRUE, {"m1"}), rubrics |-> {"clarity"}, kind |-> "mixed",
                    constructs |-> "writing" :> {"clarity"}, scopes |-> {}]

MCEngine == "h" :> [human |-> TRUE] @@ "m1" :> [human |-> FALSE] @@ "m2" :> [human |-> FALSE]

Text1(id, respondent, revision, family, content) ==
    [id |-> id, respondent |-> respondent, revision |-> revision, task |-> "t",
     family |-> family, content |-> content]

MCSubmission ==
    "a" :> Text1("s1", "p1", "v1", "essay", "x1")
    @@ "b" :> Text1("s2", "p2", "v1", "essay", "x2")
    @@ "c" :> Text1("s3", "p2", "v2", "essay", "x3")
    @@ "second" :> Text1("s4", "p2", "v2", "essay", "x4")
    @@ "renamed" :> Text1("s3", "p1", "v2", "essay", "x3")
    @@ "other" :> Text1("s6", "p1", "v1", "memo", "x1")

IssueText(id, respondent, revision, content) == Text1(id, respondent, revision, "essay", content)

MCSubmissions ==
    MCSubmission
    @@ "delay 1" :> IssueText("i1", "delay", "v1", "k1")
    @@ "fees 1"  :> IssueText("i2", "fees", "v1", "k2")
    @@ "fees 2"  :> IssueText("i3", "fees", "v2", "k2")

-----------------------------------------------------------------------------
(* Essays: one text under one name, handed in by two respondents. *)

MCPrompt == "v1" :> [task |-> "t", family |-> "essay", limit |-> 5]
            @@ "v2" :> [task |-> "t", family |-> "essay", limit |-> 5]

EssayOf(prompt, response, length, flags) ==
    [prompt |-> prompt, response |-> response, length |-> length, flags |-> flags]

MCEssay ==
    "c" :> EssayOf("v2", "c", 4, {}) @@ "renamed" :> EssayOf("v2", "renamed", 4, {"copied"})
    @@ "long" :> EssayOf("v1", "b", 9, {})

Passage(essay, kind, source, to) ==
    [essay |-> essay, prompt |-> "v2", kind |-> kind, source |-> source, to |-> to]

None == "no essay"

TextNotes(essay, passages) == [service |-> "texts", essay |-> essay, passages |-> passages]

-----------------------------------------------------------------------------
(* Issues *)

MCSource ==
    "mail" :> [id |-> "mail", words |-> <<"late", "paid", "late">>, count |-> 3]
    @@ "draft" :> [id |-> "mail", words |-> <<"late">>, count |-> 1]

MCPackets ==
    {[records |-> records, texts |-> "mail" :> text] :
        records \in {{"mail"}, {"draft"}, {"mail", "draft"}},
        text \in {<<"late", "paid", "late">>, <<"late", "paid">>}}

Span(kind, name, from, to, words) ==
    [id |-> "mail", record |-> "mail", kind |-> kind, name |-> name, from |-> from, to |-> to,
     words |-> words]

Late    == Span("fact", "s1", 0, 1, <<"late">>)
Paid    == Span("counterevidence", "s2", 1, 2, <<"paid">>)
Again   == Span("fact", "s3", 1, 3, <<"paid", "late">>)
Misread == Span("fact", "s4", 1, 2, <<"fees">>)
Feeling == Span("value judgment", "s5", 2, 3, <<"late">>)

IssueOf(id, content, spans, counters) ==
    [id |-> id, family |-> "ops", content |-> content, sources |-> {"mail"}, spans |-> spans,
     counters |-> {[content |-> content, span |-> s] : s \in counters}]

MCIssue ==
    "delay" :> IssueOf("delay", "k1", {Late}, {Paid})
    @@ "lenient" :> IssueOf("delay", "k1", {Late}, {})
    @@ "fees" :> IssueOf("fees", "k2", {Again}, {})
    @@ "misread" :> IssueOf("fees", "k2", {Misread}, {})
    @@ "doubled" :> IssueOf("delay", "k1", {Again}, {Paid})

MCProposals ==
    {{"delay", "fees"}, {"delay", "lenient"}, {"delay", "misread"}, {"doubled"}}

IssueNotes(i, perspectives) ==
    [service |-> "issues", by |-> "adapter", issue |-> i,
     perspectives |-> {[content |-> MCIssue[i].content, span |-> s] : s \in perspectives}]

\* Notes that claim the full record and declare the evidence of the lenient one.
HandNotes ==
    [service |-> "issues", by |-> "hand",
     carried |-> [issue |-> "delay", content |-> "k1", sources |-> {"mail"}, spans |-> {Late},
                  counters |-> MCIssue["delay"].counters,
                  evidence |-> {[source |-> "mail", name |-> "s1", words |-> <<"late">>,
                                 role |-> "supporting"]}]]

-----------------------------------------------------------------------------
Args(assessment, rubric, criteria, response, notes) ==
    [assessment |-> assessment, rubric |-> rubric, criteria |-> criteria, response |-> response,
     granularity |-> IF criteria = {} THEN "holistic" ELSE "criterion", notes |-> notes]

Both == {"c1", "c2"}

Plain(assessment, rubric, criteria, response) ==
    Args(assessment, rubric, criteria, response, TextNotes(None, {}))

OfEssay(essay, passages) ==
    Args("hybrid", "clarity", Both, MCEssay[essay].response, TextNotes(essay, passages))

Triage(response, notes) == Args("triage", "clarity", Both, response, notes)

MCAsk ==
    "c"           :> OfEssay("c", {Passage("c", "response", "s3", 4), Passage("c", "prompt", "t", 5)})
    @@ "renamed"  :> OfEssay("renamed", {})
    @@ "long"     :> OfEssay("long", {})
    @@ "borrowed" :> OfEssay("c", {Passage("renamed", "response", "s3", 4)})
    @@ [s \in {"a", "b", "second", "other"} |-> Plain("hybrid", "clarity", Both, s)]
    @@ "machine b"    :> Plain("machine", "clarity", Both, "b")
    @@ "whole a"      :> Plain("hybrid", "clarity", {}, "a")
    @@ "machine a"    :> Plain("machine", "clarity", {}, "a")
    @@ "logic a"      :> Plain("hybrid", "logic", Both, "a")
    @@ "crossed a"    :> Plain("crossed", "logic", Both, "a")
    @@ "nothing a"    :> [Plain("hybrid", "clarity", {}, "a") EXCEPT !.granularity = "criterion"]
    @@ "delay 1"      :> Triage("delay 1", IssueNotes("delay", {}))
    @@ "lenient 1"    :> Triage("delay 1", IssueNotes("lenient", {}))
    @@ "fees 1"       :> Triage("fees 1", IssueNotes("fees", {Feeling}))
    @@ "fees 2"       :> Triage("fees 2", IssueNotes("fees", {}))
    @@ "by hand"      :> Triage("delay 1", HandNotes)

Found(one, two) == "c1" :> one @@ "c2" :> two @@ "whole" :> one

Said(score, cites, stamp) == [score |-> score, cites |-> cites, stamp |-> stamp]

Quote == [source |-> "s1", name |-> "p1", words |-> <<"once">>, role |-> "supporting"]

TextOutcomes ==
    LET Says(score) == Said(score, IF score = "failed" THEN {} ELSE {Quote}, "none") IN
    {Found(Says("0"), Says("1")), Found(Says("1"), Said("0", {}, "none")),
     Found(Says("1"), Says("failed"))}

\* What an engine cites of an issue: all that it has, or only what speaks for it.
CitesOf(i) == {Reference(s) : s \in IssueSpans(i)}
CitesFor(i) == {Reference(s) : s \in Issue[i].spans}

IssueOutcomes ==
    {Found(Said(scores[1], cites, "adapter"), Said(scores[2], cites, "adapter")) :
        scores \in {<<"0", "1">>, <<"1", "0">>},
        cites \in {CitesOf("delay"), CitesFor("delay"), CitesOf("fees")}}
    \cup {Found(Said("0", CitesFor("delay"), "lenient"), Said("1", CitesFor("delay"), "lenient")),
          Found(Said("1", CitesOf("fees"), "adapter"), Said("abstained", {}, "adapter"))}

MCOutcomes == "texts" :> TextOutcomes @@ "issues" :> IssueOutcomes
=============================================================================
