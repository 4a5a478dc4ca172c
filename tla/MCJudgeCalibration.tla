-------------------------- MODULE MCJudgeCalibration --------------------------
(***************************************************************************)
(* Two questions of two variants each, mixed and with a control ahead of   *)
(* its baseline, or one question of three variants; and lists that are     *)
(* refused.  The gateway admits two calls at a time.                       *)
(***************************************************************************)
EXTENDS JudgeCalibration

Case1(id, variant, gold) == [id |-> id, variant |-> variant, status |-> "held_out", gold |-> gold]

Mixed == <<Case1("a", "option_only", "low"), Case1("b", "baseline", NoRow),
           Case1("a", "baseline", NoRow), Case1("b", "shuffled_options", "high")>>

Single == <<Case1("a", "baseline", "high"), Case1("a", "shuffled_options", "high"),
            Case1("a", "replaced_distractor", "low")>>

MCSubmitted ==
    {Mixed, Single, <<Mixed[1], Mixed[2]>>, <<Mixed[3]>>, <<Mixed[1], Mixed[3], Mixed[3]>>,
     <<Mixed[1], [Mixed[3] EXCEPT !.status = "unknown"]>>,
     <<Mixed[1], [Mixed[3] EXCEPT !.gold = "none such"]>>}
=============================================================================
