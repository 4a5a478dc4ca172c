---------------------------- MODULE ItemScreening ----------------------------
(***************************************************************************)
(* select_items (python/fast_mlsirm/fitstats.py): the items are fitted,    *)
(* the fit is screened, the items that fail are removed, and what is left  *)
(* is fitted again, for a limited number of rounds.                        *)
(*                                                                         *)
(* The estimates are unknown: a fit converges or not, and the statistics   *)
(* of a round may flag any item in any way.  Left out: person fit, which   *)
(* only weighs one of these statistics, and the report of each round.      *)
(***************************************************************************)
EXTENDS Naturals, FiniteSets

CONSTANTS
    Bank,           \* the columns of the data, in their order
    Dimension,      \* factor_id
    MaxRounds,      \* max_rounds
    ItemsPerDim,    \* min_items_per_dim
    FlagsToRemove   \* min_flags_to_remove

ASSUME ScreeningAssumption ==
    /\ Bank \subseteq Nat /\ IsFiniteSet(Bank) /\ Bank # {}
    /\ MaxRounds \in Nat \ {0} /\ ItemsPerDim \in Nat \ {0} /\ FlagsToRemove \in 1 .. 4

Dimensions == {Dimension[i] : i \in Bank}
Of(d, items) == {i \in items : Dimension[i] = d}

VARIABLES
    screening,  \* "idle", "fit", "screen", "refit", "done" or "raised"
    active,     \* the items still in the form
    fitted,     \* fitted_active: the items of the latest fit
    round,      \* rounds completed
    reasons     \* for each item removed, the flags it was removed for

screeningVars == <<screening, active, fitted, round, reasons>>

ScreeningInit ==
    /\ screening = "fit" /\ active = Bank /\ fitted = {} /\ round = 0
    /\ reasons = [i \in Bank |-> {}]

\* An optimizer that ends without converging ends the call.
FitActive ==
    /\ screening = "fit"
    /\ fitted' = active
    /\ screening' \in {"screen", "raised"}
    /\ UNCHANGED <<active, round, reasons>>

\* What a round may find of an item: that it is sparse, and how many of the four
\* other flags it has.  Fewer than FlagsToRemove - 1 tell no more than these two.
Verdicts == [sparse : BOOLEAN, soft : {FlagsToRemove - 1, FlagsToRemove}]

Condemned(verdict) == verdict.sparse \/ verdict.soft >= FlagsToRemove

Why(verdict) ==
    (IF verdict.sparse THEN {"sparse"} ELSE {}) \cup (IF verdict.soft > 0 THEN {"soft"} ELSE {})

Missing(d, kept) ==
    IF Cardinality(Of(d, kept)) < ItemsPerDim
    THEN ItemsPerDim - Cardinality(Of(d, kept)) ELSE 0

\* The first of the dropped items of a dimension come back, up to its floor.
Restored(d, kept) ==
    LET dropped == Of(d, active) \ kept
    IN  {i \in dropped : Cardinality({j \in dropped : j < i}) < Missing(d, kept)}

Surviving(condemned) ==
    LET kept == active \ condemned
    IN  kept \cup UNION {Restored(d, kept) : d \in Dimensions}

Screen ==
    /\ screening = "screen"
    /\ round' = round + 1
    /\ \E verdict \in [active -> Verdicts] :
           LET kept    == Surviving({i \in active : Condemned(verdict[i])})
               removed == active \ kept
           IN  /\ active' = kept
               /\ reasons' = [i \in Bank |-> IF i \in removed THEN Why(verdict[i])
                                                              ELSE reasons[i]]
               /\ screening' = IF removed = {} \/ round' = MaxRounds THEN "refit" ELSE "fit"
    /\ UNCHANGED fitted

\* (fault: the last fit is returned, whatever items it was of)
ReturnLastFit ==
    /\ screening = "refit"
    /\ screening' = "done"
    /\ UNCHANGED <<active, fitted, round, reasons>>

\* After the rounds: the items left are fitted, unless the last fit was of them.
FinalRefit ==
    /\ screening = "refit"
    /\ IF fitted = active THEN screening' = "done" ELSE screening' \in {"done", "raised"}
    /\ fitted' = active
    /\ UNCHANGED <<active, round, reasons>>

ScreeningNext == FitActive \/ Screen \/ FinalRefit

ScreeningSpec == ScreeningInit /\ [][ScreeningNext]_screeningVars

-----------------------------------------------------------------------------
(* Properties *)

\* However many rounds remove items, final_result is the fit of exactly the items
\* reported as kept; the items reported as removed are the others, each with the
\* flags it was removed for; and no dimension has fewer than min_items_per_dim
\* left, or fewer than it began with if those were fewer.
FinalFitIsOfWhatIsKept ==
    screening = "done" =>
        /\ fitted = active
        /\ \A i \in Bank : i \in active <=> reasons[i] = {}
        /\ \A d \in Dimensions :
               Cardinality(Of(d, active)) >= ItemsPerDim \/ Of(d, active) = Of(d, Bank)

=============================================================================
