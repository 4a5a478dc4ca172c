------------------------------- MODULE Flexilevel -------------------------------
(***************************************************************************)
(* The flexilevel test (flexilevel_administer of                           *)
(* crates/mlsirm-core/src/exposure.rs; its entry point in                  *)
(* python/fast_mlsirm/exposure.py checks the arguments and calls it): a    *)
(* person answers half of the items of a pool ordered by difficulty, each  *)
(* answer choosing the next item, and the last of these choices tells how  *)
(* many answers were right.                                                *)
(***************************************************************************)
EXTENDS Integers

CONSTANTS
    FlexItems       \* n_items of the pool

ASSUME FlexilevelAssumption == FlexItems \in Nat /\ FlexItems >= 3 /\ FlexItems % 2 = 1

VARIABLES
    flexing,    \* "idle", "asking" or "scored"
    lord,       \* the item to ask next, counted from the median
    turn,       \* answers given, v - 1 in the code
    asked,      \* the items answered
    latest,     \* the one asked last
    wasRight,   \* whether it was answered right
    rights,     \* right answers
    selfScore   \* what the self-scoring rule says: right answers, and red

flexVars == <<flexing, lord, turn, asked, latest, wasRight, rights, selfScore>>

Asks == (FlexItems + 1) \div 2

FlexInit ==
    /\ flexing = "asking" /\ lord = 0 /\ turn = 0 /\ asked = {} /\ latest = 0 /\ wasRight = FALSE
    /\ rights = 0 /\ selfScore = [rights |-> 0, red |-> FALSE]

\* (fault: below the median the way up is one item short)
LordStepOff(i, v, right) ==
    IF right THEN (IF i >= 0 THEN i + 1 ELSE i + v - 1) ELSE (IF i >= 0 THEN i - v ELSE i - 1)

\* flexilevel_next: item i was the v-th asked.
LordStep(i, v, right) ==
    IF right THEN (IF i >= 0 THEN i + 1 ELSE i + v) ELSE (IF i >= 0 THEN i - v ELSE i - 1)

AnswerFlex(right) ==
    /\ flexing = "asking" /\ turn < Asks
    /\ turn' = turn + 1
    /\ asked' = asked \cup {lord} /\ latest' = lord /\ wasRight' = right
    /\ rights' = IF right THEN rights + 1 ELSE rights
    /\ lord' = LordStep(lord, turn', right)
    /\ UNCHANGED <<flexing, selfScore>>

\* The item that would come next gives the number of right answers.
ScoreFlex ==
    /\ flexing = "asking" /\ turn = Asks
    /\ flexing' = "scored"
    /\ selfScore' = [rights |-> IF lord > 0 THEN lord ELSE Asks + lord, red |-> lord < 0]
    /\ UNCHANGED <<lord, turn, asked, latest, wasRight, rights>>

FlexNext == ScoreFlex \/ \E right \in BOOLEAN : AnswerFlex(right)

FlexSpec == FlexInit /\ [][FlexNext]_flexVars

-----------------------------------------------------------------------------
(* Properties *)

\* The items within reach of the indices, the one after the last included.
Reach == -Asks .. Asks

\* Lord's index arithmetic is the rule it stands for: after a right answer comes
\* the easiest item not yet asked that is harder, after a wrong one the hardest
\* not yet asked that is easier, always an item of the pool; and the item that
\* would come next tells how many answers were right, and whether the last was.
FollowsLordsRule ==
    flexing # "idle" /\ turn > 0 =>
        /\ turn < Asks => lord \in 1 - Asks .. Asks - 1
        /\ lord \in Reach \ asked
        /\ wasRight => lord > latest /\ \A j \in Reach \ asked : j > latest => lord <= j
        /\ ~wasRight => lord < latest /\ \A j \in Reach \ asked : j < latest => lord >= j
        /\ flexing = "scored" => selfScore = [rights |-> rights, red |-> ~wasRight]

=============================================================================
