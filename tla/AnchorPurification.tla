-------------------------- MODULE AnchorPurification --------------------------
(***************************************************************************)
(* Anchor sets for polytomous DIF (python/fast_mlsirm/polytomous.py): each *)
(* focal group is purified against the reference group                     *)
(* (detect_dif_polytomous_purified), and the anchors are intersected       *)
(* (detect_dif_anchor_sets_polytomous).                                    *)
(*                                                                         *)
(* A sweep tests every item against the anchor and itself; what it flags   *)
(* is unknown.  An item whose augmented fit does not converge is one that  *)
(* is not flagged.  Left out: the statistics, which are those of the last  *)
(* sweep.                                                                  *)
(***************************************************************************)
EXTENDS Naturals, FiniteSets

CONSTANTS
    Columns,        \* the items of the data
    FocalGroups,    \* the focal groups are 1 .. FocalGroups, in their order
    MaxSweeps       \* max_rounds is at most this (50 in the code)

ASSUME PurificationAssumption ==
    IsFiniteSet(Columns) /\ Columns # {} /\ FocalGroups \in Nat \ {0} /\ MaxSweeps \in Nat

Groups == 1 .. FocalGroups

VARIABLES
    purifying,      \* "idle", "sweep", "judge" or "done"
    roundsCap,      \* max_rounds
    floor,          \* min_anchor_items
    group,          \* the focal group under way
    anchor,         \* its anchor
    flagged,        \* the items its latest sweep flagged
    sweeps,         \* its rounds after the first sweep
    purified        \* the report of each group that is done

purificationVars == <<purifying, roundsCap, floor, group, anchor, flagged, sweeps, purified>>

NoReport == [anchor |-> {}, flagged |-> {}, against |-> {}, reason |-> "none"]

PurificationInit ==
    /\ purifying = "sweep" /\ group = 1 /\ anchor = Columns /\ flagged = {} /\ sweeps = 0
    /\ roundsCap \in 0 .. MaxSweeps /\ floor \in 1 .. Cardinality(Columns)
    /\ purified = [g \in Groups |-> NoReport]

\* The sweep over the whole test.
FirstSweep ==
    /\ purifying = "sweep"
    /\ flagged' \in SUBSET Columns
    /\ purifying' = "judge"
    /\ UNCHANGED <<roundsCap, floor, group, anchor, sweeps, purified>>

Unflagged == Columns \ flagged

\* The report of this group is ready: the sweep was against `against` and flagged
\* `flags`.  The next group starts over.
Report(kept, flags, against, why) ==
    /\ purified' = [purified EXCEPT ![group] = [anchor |-> kept, flagged |-> flags,
                                                against |-> against, reason |-> why]]
    /\ IF group = FocalGroups
       THEN purifying' = "done" /\ UNCHANGED <<group, anchor, flagged, sweeps>>
       ELSE /\ purifying' = "sweep" /\ group' = group + 1
            /\ anchor' = Columns /\ flagged' = {} /\ sweeps' = 0
    /\ UNCHANGED <<roundsCap, floor>>

MayGoOn == purifying = "judge" /\ sweeps < roundsCap

\* Too few items are left to test against: the small set is reported all the same.
TooFewAnchors ==
    /\ MayGoOn /\ Cardinality(Unflagged) < floor
    /\ Report(Unflagged, flagged, anchor, "insufficient_anchor_items")

AlreadyStable ==
    /\ MayGoOn /\ Cardinality(Unflagged) >= floor /\ Unflagged = anchor
    /\ Report(anchor, flagged, anchor, "stable_flag_set")

\* Another sweep, against the items not flagged; the flags it repeats are final.
SweepAgain ==
    /\ MayGoOn /\ Cardinality(Unflagged) >= floor /\ Unflagged # anchor
    /\ \E flags \in SUBSET Columns :
           IF flags = flagged
           THEN Report(Unflagged, flags, Unflagged, "stable_flag_set")
           ELSE /\ flagged' = flags /\ anchor' = Unflagged /\ sweeps' = sweeps + 1
                /\ UNCHANGED <<purifying, roundsCap, floor, group, purified>>

\* (fault: a group whose last sweep still moved is called stable)
CallStable ==
    /\ purifying = "judge" /\ sweeps = roundsCap
    /\ Report(anchor, flagged, anchor, "stable_flag_set")

\* The rounds are used up.  With max_rounds = 0 the reason stays what it was
\* initialised to, whatever was flagged.
RoundsUsedUp ==
    /\ purifying = "judge" /\ sweeps = roundsCap
    /\ Report(anchor, flagged, anchor,
                 IF roundsCap > 0 /\ Unflagged # anchor THEN "max_rounds_reached"
                                                        ELSE "stable_flag_set")

PurificationNext ==
    FirstSweep \/ TooFewAnchors \/ AlreadyStable \/ SweepAgain \/ RoundsUsedUp

Untrustworthy == {g \in Groups : purified[g].reason # "stable_flag_set"}
Intersection  == {i \in Columns : \A g \in Groups : i \in purified[g].anchor}

PurificationSpec == PurificationInit /\ [][PurificationNext]_purificationVars

-----------------------------------------------------------------------------
(* Properties *)

\* The items a trustworthy intersection offers as anchors were tested, against
\* every focal group, with exactly the anchor reported for that group, and not
\* flagged; and no group tested against fewer anchors than the floor.  (With a
\* cap of no rounds nothing is purified and the claim is not made.)
TrustedAnchorsHold ==
    (purifying = "done" /\ Untrustworthy = {} /\ roundsCap > 0) =>
        \A g \in Groups :
            /\ purified[g].against = purified[g].anchor
            /\ purified[g].flagged \cap Intersection = {}
            /\ Cardinality(purified[g].anchor) >= floor

=============================================================================
