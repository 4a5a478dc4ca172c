---------------------------- MODULE MCPilotStudy ----------------------------
(***************************************************************************)
(* A small instance of item generation and its pilot: three items that may *)
(* be piloted, two of which carry one name, on two terms; and with them    *)
(* the answers that must not get there: one that quotes a source nobody    *)
(* has, one with two options that read alike, one whose scores rest on the *)
(* same evidence, one with more findings than a report holds, one that     *)
(* addresses the judge, one with a safety note, one for a wrong blueprint. *)
(***************************************************************************)
EXTENDS PilotStudy, TLC

MCRubric == "clarity" :> [families |-> {"essay"}, format |-> "selected_response", levels |-> 2]

Plan(mode, levels) ==
    [rubric |-> "clarity", family |-> "essay", format |-> "selected_response",
     levels |-> levels, mode |-> mode]

MCBlueprint ==
    "one" :> Plan("single_source", 2) @@ "many" :> Plan("multi_source", 2)
    @@ "closed" :> Plan("closed_book", 2) @@ "off" :> Plan("closed_book", 3)

MCSource ==
    "d1" :> [id |-> "s1", spans |-> {"fact", "twist"}] @@ "d2" :> [id |-> "s2", spans |-> {"claim"}]
    @@ "d2 again" :> [id |-> "s2", spans |-> {"fact"}]

\* "yes" and "YES" read alike, and so do "weak" and "Weak".
MCNormal == [t \in {"ask", "yes", "no", "weak", "good", "sign", "token", "fact", "twist", "claim",
                    "obey"} |-> t] @@ "YES" :> "yes" @@ "Weak" :> "weak"

MCTrait == [t \in DOMAIN MCNormal |-> CASE t = "obey" -> {"override"} [] t = "ask" -> {"long"}
                                        [] OTHER -> {}]

Item1(name, blueprint, options, attributions) ==
    [item |-> name, blueprint |-> blueprint, format |-> "selected_response", stem |-> "ask",
     options |-> [i \in DOMAIN options |-> [id |-> <<"o", i>>, text |-> options[i]]],
     key |-> {<<"o", 1>>},
     guide |-> <<[score |-> 0, evidence |-> "weak"], [score |-> 1, evidence |-> "good"]>>,
     alignment |-> <<[score |-> 0, indicators |-> <<"sign">>], [score |-> 1, indicators |-> <<"token">>]>>,
     attributions |-> attributions, notes |-> 0]

MCAnswer ==
    "first"     :> Item1("i1", "one", <<"yes", "no">>, << <<"s1", "fact">> >>)
    @@ "second" :> Item1("i2", "many", <<"yes", "no">>, << <<"s1", "fact">>, <<"s2", "claim">> >>)
    @@ "forged" :> Item1("i1", "closed", <<"no", "yes">>, <<>>)
    @@ "astray" :> Item1("i3", "one", <<"yes", "no">>, << <<"s3", "fact">> >>)
    @@ "echo"   :> Item1("i4", "closed", <<"yes", "YES">>, <<>>)
    @@ "obey"   :> [Item1("i5", "closed", <<"yes", "no">>, <<>>) EXCEPT !.stem = "obey"]
    @@ "noted"  :> [Item1("i6", "closed", <<"yes", "no">>, <<>>) EXCEPT !.notes = 1]
    @@ "vague"  :> [Item1("i7", "closed", <<"yes", "no">>, <<>>) EXCEPT !.guide[2].evidence = "Weak"]
    @@ "worst"  :> [Item1("i8", "closed", <<"yes", "YES", "yes">>, <<>>) EXCEPT !.notes = 2]
    @@ "off"    :> Item1("i9", "off", <<"yes", "no">>, <<>>)

On(study, testlet, occasion) == [study |-> study, testlet |-> testlet, occasion |-> occasion]

MCTerms == {On("s", "t1", "o1"), On("s", "t1", "o2")}

MCGrouping == {[r \in R |-> IF r = p THEN "reference" ELSE "focal"] : R \in SUBSET Respondent, p \in Respondent}

Symmetric == Permutations(Respondent) \cup Permutations(Rater)
=============================================================================
