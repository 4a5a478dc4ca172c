--------------------------- MODULE ConstructionProofs ---------------------------
(***************************************************************************)
(* Proofs about the procedures a test is built with, each from the         *)
(* inductive invariant of its own:                                         *)
(*  - bootstrap: results are the seeds' own up to the replicates completed,*)
(*    so what has converged is what the seeds make converge;               *)
(*  - screening: what comes back fills each dimension up to its floor, or  *)
(*    up to what it had;                                                   *)
(*  - purification: every report a group has was either untrustworthy, or  *)
(*    tested against the anchor it names;                                  *)
(*  - assembly: what is still needed fits into the places left, from the   *)
(*    first choice on, and while an acceptable form exists an item of a    *)
(*    label in need, or of one that form has more of, is a candidate;      *)
(*  - flexilevel: the items answered and the one to ask next are together  *)
(*    an interval around the median, which every right answer extends by   *)
(*    one upwards and every wrong one downwards; its ends count answers;   *)
(*  - joint maximum likelihood: L-BFGS iterates over usable points only,   *)
(*    with iterations left and no verdict yet, and there is a best         *)
(*    candidate exactly when there is any.  Comparisons are those of       *)
(*    doubles: a NaN is neither below nor above anything.                  *)
(***************************************************************************)
EXTENDS BifactorBootstrap, ItemScreening, AnchorPurification, FormAssembly, Flexilevel,
        JmleFit, CountingLemmas

-----------------------------------------------------------------------------
(* The bootstrap run *)

\* A batch is the next replicates; those of it that are done have their result,
\* and so have all replicates of the batches before.
BatchesAreInOrder ==
    /\ completed \in 0 .. Requested /\ batches \in Nat
    /\ batch = {} \/ (completed < Requested /\ batch = NextBatch)
    /\ pending \subseteq batch
    /\ results \in [Replicates -> {"none", "converged", "failed"}]
    /\ \A b \in 1 .. completed : results[b] = Flag(b)
    /\ \A b \in batch \ pending : results[b] = Flag(b)

RuleNeedsTwoChecks ==
    /\ endpoints # {} => batches >= 2
    /\ stopped => batch = {} /\ completed < Requested /\ batches >= 3 /\ endpoints # {}

EndIsFinal ==
    /\ outcome \in {"running", "returned", "raised"}
    /\ outcome # "running" => batch = {}

BootstrapInv == BatchesAreInOrder /\ RuleNeedsTwoChecks /\ EndIsFinal /\ EndsTruthfully

\* A batch ends where the next one begins, or with the last replicate.
LEMMA BatchSizeCounts ==
    ASSUME completed \in 0 .. Requested, completed < Requested
    PROVE  /\ Cardinality(NextBatch) \in Nat \ {0}
           /\ completed + Cardinality(NextBatch) \in 1 .. Requested
           /\ 1 .. (completed + Cardinality(NextBatch)) = (1 .. completed) \cup NextBatch
<1> DEFINE last == IF completed + BatchSize <= Requested THEN completed + BatchSize ELSE Requested
<1>1. /\ last \in (completed + 1) .. Requested /\ completed \in Nat
      /\ Requested \in Nat /\ BatchSize \in Nat \ {0}
  BY ArgumentsAssumption
<1>2. NextBatch = (completed + 1) .. last
  BY <1>1 DEF NextBatch, Replicates
<1> HIDE DEF last
<1>3. Cardinality(NextBatch) = last - completed
  BY <1>1, <1>2, FS_Interval
<1> QED BY <1>1, <1>2, <1>3

\* Each step of the run keeps the invariant.
LEMMA BootstrapBegins == Init => BootstrapInv
BY ArgumentsAssumption DEF Init, BootstrapInv, BatchesAreInOrder, RuleNeedsTwoChecks, EndIsFinal,
                           EndsTruthfully

\* A batch begins.
LEMMA BeginPreserves == ASSUME BootstrapInv, Begin PROVE BootstrapInv'
<1> USE DEF BootstrapInv, Begin
<1>1. BatchesAreInOrder'
  BY DEF BatchesAreInOrder, NextBatch, Flag
<1>2. RuleNeedsTwoChecks' /\ EndIsFinal' /\ EndsTruthfully'
  BY DEF RuleNeedsTwoChecks, EndIsFinal, EndsTruthfully
<1> QED BY <1>1, <1>2

\* A replicate ends, well or not.
LEMMA FinishPreserves == ASSUME BootstrapInv, NEW b \in Replicates, Finish(b) PROVE BootstrapInv'
<1> USE DEF BootstrapInv, Finish
<1>1. BatchesAreInOrder'
  <2>1. /\ pending' \subseteq batch' /\ NextBatch' = NextBatch
        /\ results' \in [Replicates -> {"none", "converged", "failed"}]
    BY DEF BatchesAreInOrder, NextBatch, Flag
  <2>2. ASSUME NEW c \in 1 .. completed PROVE results'[c] = Flag(c)
    BY DEF BatchesAreInOrder, NextBatch
  <2>3. ASSUME NEW c \in batch \ pending' PROVE results'[c] = Flag(c)
    BY DEF BatchesAreInOrder, NextBatch
  <2> QED BY <2>1, <2>2, <2>3 DEF BatchesAreInOrder, Flag
<1>2. RuleNeedsTwoChecks' /\ EndIsFinal' /\ EndsTruthfully'
  BY DEF RuleNeedsTwoChecks, EndIsFinal, EndsTruthfully
<1> QED BY <1>1, <1>2

\* A batch ends.
LEMMA EndBatchPreserves == ASSUME BootstrapInv, EndBatch PROVE BootstrapInv'
<1> USE DEF BootstrapInv
<1>1. /\ batch = NextBatch /\ completed < Requested /\ pending = {} /\ outcome = "running"
      /\ completed \in 0 .. Requested /\ batches \in Nat
      /\ UNCHANGED <<fate, results, pending, expired, outcome>>
  BY DEF EndBatch, BatchesAreInOrder, EndIsFinal
<1>2. completed' = completed + Cardinality(NextBatch) /\ batches' = batches + 1 /\ batch' = {}
  BY <1>1 DEF EndBatch
<1>3. completed' \in 1 .. Requested /\ 1 .. completed' = (1 .. completed) \cup NextBatch
  BY <1>1, <1>2, BatchSizeCounts
<1>4. BatchesAreInOrder'
  <2>1. \A b \in 1 .. completed' : results'[b] = Flag(b)'
    BY <1>1, <1>3 DEF BatchesAreInOrder, Flag
  <2> QED BY <1>1, <1>2, <1>3, <2>1 DEF BatchesAreInOrder
<1>5. RuleNeedsTwoChecks'
  <2>1. ~stopped
    BY <1>1 DEF RuleNeedsTwoChecks, EndBatch
  <2>2. /\ Checks => batches' >= 2 /\ completed' < Requested
        /\ endpoints # {} => batches' >= 3
    BY <1>1, <1>2 DEF Checks, RuleNeedsTwoChecks
  <2>3. CASE UNCHANGED <<stopped, endpoints>>
    BY <1>1, <1>2, <2>1, <2>2, <2>3 DEF RuleNeedsTwoChecks
  <2>4. CASE Checks /\ endpoints # {} /\ endpoints' # {}
    BY <1>1, <1>2, <2>2, <2>4 DEF RuleNeedsTwoChecks
  <2>5. CASE Checks /\ ~stopped'
    BY <1>1, <1>2, <2>2, <2>5 DEF RuleNeedsTwoChecks
  <2> QED BY <2>1, <2>3, <2>4, <2>5 DEF EndBatch
<1>6. EndIsFinal' /\ EndsTruthfully'
  BY <1>1, <1>2 DEF EndIsFinal, EndsTruthfully
<1> QED BY <1>4, <1>5, <1>6

\* The driver decides how the run ends.
LEMMA ConcludePreserves == ASSUME BootstrapInv, Conclude PROVE BootstrapInv'
<1> USE DEF BootstrapInv, Conclude
<1>1. BatchesAreInOrder' /\ RuleNeedsTwoChecks' /\ EndIsFinal'
  BY DEF BatchesAreInOrder, RuleNeedsTwoChecks, EndIsFinal, NextBatch, Flag
<1>2. Converged = {} <=> ~\E b \in 1 .. completed : fate[b]
  BY DEF BatchesAreInOrder, Converged, Flag
<1>3. EndsTruthfully'
  BY <1>2 DEF EndsTruthfully, RuleNeedsTwoChecks, BatchesAreInOrder
<1> QED BY <1>1, <1>3

\* The deadline passes.
LEMMA ExpirePreserves == ASSUME BootstrapInv, Expire PROVE BootstrapInv'
BY DEF BootstrapInv, Expire, BatchesAreInOrder, RuleNeedsTwoChecks, EndIsFinal, EndsTruthfully,
       NextBatch, Flag

\* However the replicates of a batch interleave, whatever the seeds and whenever
\* the budget runs out, the run ends with the truth about itself.
THEOREM BootstrapEndsTruthfully == Spec => []EndsTruthfully
<1>1. BootstrapInv /\ [Next]_vars => BootstrapInv'
  <2>1. ASSUME BootstrapInv, UNCHANGED vars PROVE BootstrapInv'
    BY <2>1 DEF vars, BootstrapInv, BatchesAreInOrder, RuleNeedsTwoChecks, EndIsFinal,
                EndsTruthfully, NextBatch, Flag
  <2> QED BY <2>1, BeginPreserves, FinishPreserves, EndBatchPreserves, ConcludePreserves,
             ExpirePreserves DEF Next
<1> QED BY <1>1, BootstrapBegins, PTL DEF Spec, BootstrapInv

-----------------------------------------------------------------------------
(* Item screening *)

\* An item has a reason exactly if it was removed.
RemovedHaveReasons ==
    /\ active \subseteq Bank /\ reasons \in [Bank -> SUBSET {"sparse", "soft"}]
    /\ \A i \in Bank : i \in active <=> reasons[i] = {}

FloorIsKept ==
    \A d \in Dimensions : Cardinality(Of(d, active)) >= ItemsPerDim \/ Of(d, active) = Of(d, Bank)

ScreeningInv ==
    RemovedHaveReasons /\ FloorIsKept /\ (screening = "done" => fitted = active)

\* Of a finite set of numbers, those with fewer than m before them are m or all.
LEMMA FirstOfThem ==
    ASSUME NEW S \in SUBSET Nat, IsFiniteSet(S), NEW m \in Nat
    PROVE  LET first == {i \in S : Cardinality({j \in S : j < i}) < m}
           IN  first = S \/ Cardinality(first) >= m
<1> DEFINE Before(i) == {j \in S : j < i}
           first == {i \in S : Cardinality(Before(i)) < m}
<1>1. SUFFICES ASSUME first # S PROVE Cardinality(first) >= m
  OBVIOUS
<1>2. PICK i \in S \ first : \A j \in S \ first : i <= j
  <2>1. S \ first \subseteq Nat /\ S \ first # {}
    BY <1>1
  <2> HIDE DEF first
  <2> QED BY <2>1, LeastNumber
<1>3. Before(i) \subseteq first
  <2> SUFFICES ASSUME NEW j \in S, j < i PROVE j \in first
    OBVIOUS
  <2> HIDE DEF first
  <2> QED BY <1>2
<1>4. IsFiniteSet(first) /\ IsFiniteSet(Before(i))
  BY FS_Subset
<1>5. Cardinality(Before(i)) <= Cardinality(first)
  <2> HIDE DEF first, Before
  <2> QED BY <1>3, <1>4, FS_Subset
<1>6. Cardinality(Before(i)) >= m
  <2>1. Cardinality(Before(i)) \in Nat
    BY <1>4, FS_CardinalityType
  <2> QED BY <1>2, <2>1
<1>7. Cardinality(first) \in Nat /\ Cardinality(Before(i)) \in Nat
  <2> HIDE DEF first, Before
  <2> QED BY <1>4, FS_CardinalityType
<1> HIDE DEF first, Before
<1> QED BY <1>5, <1>6, <1>7

\* What comes back fills a dimension up to its floor, or up to what it had.
LEMMA RestoredFills ==
    ASSUME active \subseteq Bank, NEW condemned \in SUBSET active, NEW d \in Dimensions
    PROVE  \/ Cardinality(Of(d, Surviving(condemned))) >= ItemsPerDim
           \/ Of(d, Surviving(condemned)) = Of(d, active)
<1> DEFINE kept == active \ condemned
           dropped == Of(d, active) \ kept
           back == Restored(d, kept)
           survivors == Of(d, Surviving(condemned))
<1>1. IsFiniteSet(active) /\ active \in SUBSET Nat
  BY ScreeningAssumption, FS_Subset
<1>2. IsFiniteSet(Of(d, kept)) /\ IsFiniteSet(dropped) /\ IsFiniteSet(back) /\ IsFiniteSet(survivors)
  <2>1. /\ Of(d, kept) \in SUBSET active /\ dropped \in SUBSET active
        /\ back \in SUBSET active /\ survivors \in SUBSET active
    BY DEF Of, Restored, Surviving
  <2> HIDE DEF kept, dropped, back, survivors
  <2> QED BY <1>1, <2>1, FS_Subset
<1>3. Of(d, kept) \cup back \subseteq survivors /\ survivors \subseteq Of(d, active)
  BY DEF Of, Restored, Surviving
<1>4. Of(d, kept) \cap back = {}
  BY DEF Of, Restored
<1>5. Cardinality(Of(d, kept)) \in Nat /\ Cardinality(back) \in Nat /\ Cardinality(survivors) \in Nat
  <2> HIDE DEF kept, back, survivors
  <2> QED BY <1>2, FS_CardinalityType
<1>6. Missing(d, kept) \in Nat /\ Cardinality(Of(d, kept)) + Missing(d, kept) >= ItemsPerDim
  <2> HIDE DEF kept
  <2> QED BY <1>5, ScreeningAssumption DEF Missing
<1>7. back = dropped \/ Cardinality(back) >= Missing(d, kept)
  <2>1. back = {i \in dropped : Cardinality({j \in dropped : j < i}) < Missing(d, kept)}
    BY DEF Restored
  <2>2. dropped \in SUBSET Nat
    BY <1>1 DEF Of
  <2> HIDE DEF dropped, back, kept
  <2> QED BY <1>2, <1>6, <2>1, <2>2, FirstOfThem
<1>8. CASE back = dropped
  <2>1. Of(d, active) \subseteq Of(d, kept) \cup back
    BY <1>8 DEF Of
  <2> HIDE DEF kept, back, dropped, survivors
  <2>2. survivors = Of(d, active)
    BY <1>3, <2>1
  <2> QED BY <2>2 DEF survivors
<1>9. CASE Cardinality(back) >= Missing(d, kept)
  <2> HIDE DEF kept, back, dropped, survivors
  <2>1. Cardinality(Of(d, kept) \cup back) = Cardinality(Of(d, kept)) + Cardinality(back)
    <3>1. Cardinality(Of(d, kept) \cap back) = 0
      BY <1>4, FS_EmptySet
    <3>2. Cardinality(Of(d, kept) \cup back)
             = Cardinality(Of(d, kept)) + Cardinality(back) - Cardinality(Of(d, kept) \cap back)
      BY <1>2, FS_Union
    <3> QED BY <1>5, <3>1, <3>2
  <2>2. Cardinality(Of(d, kept) \cup back) <= Cardinality(survivors)
    BY <1>2, <1>3, FS_Subset
  <2>3. Cardinality(survivors) >= ItemsPerDim
    BY <1>5, <1>6, <1>9, <2>1, <2>2, ScreeningAssumption
  <2> QED BY <2>3 DEF survivors
<1> QED BY <1>7, <1>8, <1>9

\* A screening round keeps or drops items.
LEMMA ScreenPreserves == ASSUME ScreeningInv, Screen PROVE ScreeningInv'
<1> USE DEF ScreeningInv
<1>1. PICK verdict \in [active -> Verdicts] :
          LET kept    == Surviving({i \in active : Condemned(verdict[i])})
              removed == active \ kept
          IN  /\ active' = kept
              /\ reasons' = [i \in Bank |-> IF i \in removed THEN Why(verdict[i])
                                                             ELSE reasons[i]]
              /\ screening' = IF removed = {} \/ round' = MaxRounds THEN "refit" ELSE "fit"
  BY DEF Screen
<1> DEFINE condemned == {i \in active : Condemned(verdict[i])}
           kept == Surviving(condemned)
           removed == active \ kept
<1>2. kept \subseteq active /\ removed \subseteq condemned
  BY DEF Surviving, Restored, Of
<1>3. ASSUME NEW i \in condemned
      PROVE  Why(verdict[i]) # {} /\ Why(verdict[i]) \subseteq {"sparse", "soft"}
  <2>1. verdict[i] \in Verdicts /\ Condemned(verdict[i])
    OBVIOUS
  <2> QED BY <2>1, ScreeningAssumption DEF Verdicts, Condemned, Why
<1> HIDE DEF condemned, kept
<1>4. RemovedHaveReasons'
  BY <1>1, <1>2, <1>3 DEF RemovedHaveReasons, kept, condemned
<1>5. FloorIsKept'
  <2> SUFFICES ASSUME NEW d \in Dimensions
               PROVE  \/ Cardinality(Of(d, active')) >= ItemsPerDim
                      \/ Of(d, active') = Of(d, Bank)
    BY DEF FloorIsKept
  <2>1. active' = Surviving(condemned) /\ condemned \in SUBSET active /\ active \subseteq Bank
    BY <1>1 DEF kept, condemned, RemovedHaveReasons
  <2>2. \/ Cardinality(Of(d, active')) >= ItemsPerDim
        \/ Of(d, active') = Of(d, active)
    BY <2>1, RestoredFills
  <2> QED BY <2>2 DEF FloorIsKept
<1>6. screening' # "done"
  BY <1>1
<1> QED BY <1>4, <1>5, <1>6

\* Whatever the statistics of the rounds say, the fit returned is of the items
\* kept, the removed ones have their reasons, and no dimension falls below its
\* floor, or below what it had.
THEOREM ScreeningFitsWhatItKeeps == ScreeningSpec => []FinalFitIsOfWhatIsKept
<1>1. ScreeningInit => ScreeningInv
  BY DEF ScreeningInit, ScreeningInv, RemovedHaveReasons, FloorIsKept
<1>2. ScreeningInv /\ [ScreeningNext]_screeningVars => ScreeningInv'
  <2> SUFFICES ASSUME ScreeningInv, [ScreeningNext]_screeningVars PROVE ScreeningInv'
    OBVIOUS
  <2>1. CASE FitActive \/ FinalRefit \/ UNCHANGED screeningVars
    <3>1. UNCHANGED <<active, reasons>> /\ (screening' = "done" => fitted' = active')
      BY <2>1 DEF FitActive, FinalRefit, screeningVars, ScreeningInv
    <3> QED BY <3>1 DEF ScreeningInv, RemovedHaveReasons, FloorIsKept
  <2> QED BY <2>1, ScreenPreserves DEF ScreeningNext
<1>3. ScreeningInv => FinalFitIsOfWhatIsKept
  BY DEF ScreeningInv, FinalFitIsOfWhatIsKept, RemovedHaveReasons, FloorIsKept
<1> QED BY <1>1, <1>2, <1>3, PTL DEF ScreeningSpec

-----------------------------------------------------------------------------
(* Anchor purification *)

\* The groups that have their report
Reported(g) == g < group \/ purifying = "done"

Trusted(report) ==
    (report.reason = "stable_flag_set" /\ roundsCap > 0) =>
        /\ report.against = report.anchor /\ report.flagged \cap report.anchor = {}
        /\ Cardinality(report.anchor) >= floor

AnchorsHoldTheFloor ==
    /\ group \in Groups /\ sweeps \in Nat /\ roundsCap \in Nat
    /\ floor \in 1 .. Cardinality(Columns)
    /\ DOMAIN purified = Groups
    /\ Cardinality(anchor) >= floor
    /\ purifying = "done" => group = FocalGroups

PurificationInv == AnchorsHoldTheFloor /\ \A g \in Groups : Reported(g) => Trusted(purified[g])

\* A report that may be trusted keeps the invariant, whether or not another group
\* is left.
LEMMA ReportKeeps ==
    ASSUME PurificationInv, NEW kept, NEW flags, NEW against, NEW why,
           purifying # "done", Report(kept, flags, against, why),
           Trusted([anchor |-> kept, flagged |-> flags, against |-> against, reason |-> why])
    PROVE  PurificationInv'
<1> DEFINE report == [anchor |-> kept, flagged |-> flags, against |-> against, reason |-> why]
<1>1. /\ purified' = [purified EXCEPT ![group] = report]
      /\ UNCHANGED <<roundsCap, floor>>
      /\ \/ group = FocalGroups /\ purifying' = "done" /\ UNCHANGED <<group, anchor, flagged, sweeps>>
         \/ /\ group # FocalGroups /\ purifying' = "sweep" /\ group' = group + 1
            /\ anchor' = Columns /\ flagged' = {} /\ sweeps' = 0
  BY DEF Report
<1>2. AnchorsHoldTheFloor'
  <2>1. Cardinality(Columns) \in Nat /\ FocalGroups \in Nat
    BY PurificationAssumption, FS_CardinalityType
  <2> QED BY <1>1, <2>1 DEF PurificationInv, AnchorsHoldTheFloor, Groups
<1>3. ASSUME NEW g \in Groups, Reported(g)' PROVE Trusted(purified[g])'
  <2>1. purified[group]' = purified'[group'] /\ purified'[group] = report
    BY <1>1 DEF PurificationInv, AnchorsHoldTheFloor
  <2>2. CASE g = group
    BY <1>1, <2>1, <2>2 DEF Trusted
  <2>3. CASE g # group
    <3>1. Reported(g)
      BY <1>1, <1>3, <2>3, PurificationAssumption DEF Reported, Groups, PurificationInv, AnchorsHoldTheFloor
    <3>2. purified'[g] = purified[g]
      BY <1>1, <2>3 DEF PurificationInv, AnchorsHoldTheFloor
    <3> QED BY <1>1, <3>1, <3>2 DEF Trusted, PurificationInv
  <2> QED BY <2>2, <2>3
<1> QED BY <1>2, <1>3 DEF PurificationInv

\* Whatever the sweeps flag, the anchors a trusted intersection offers were tested
\* against every group with the anchor reported for it, and not flagged.
THEOREM AnchorsAreTrusted == PurificationSpec => []TrustedAnchorsHold
<1>1. PurificationInit => PurificationInv
  <2> SUFFICES ASSUME PurificationInit PROVE PurificationInv
    OBVIOUS
  <2>1. Cardinality(Columns) \in Nat
    BY PurificationAssumption, FS_CardinalityType
  <2> QED BY <2>1, PurificationAssumption
          DEF PurificationInit, PurificationInv, AnchorsHoldTheFloor, Reported, Groups
<1>2. PurificationInv /\ [PurificationNext]_purificationVars => PurificationInv'
  <2> SUFFICES ASSUME PurificationInv, [PurificationNext]_purificationVars PROVE PurificationInv'
    OBVIOUS
  <2> USE DEF PurificationInv
  <2>1. ASSUME UNCHANGED <<roundsCap, floor, group, purified>>, purifying' # "done",
               sweeps' \in Nat, Cardinality(anchor') >= floor
        PROVE  PurificationInv'
    BY <2>1 DEF AnchorsHoldTheFloor, Reported, Trusted
  <2>2. CASE FirstSweep
    BY <2>1, <2>2 DEF FirstSweep, AnchorsHoldTheFloor
  <2>3. CASE TooFewAnchors
    <3>1. Trusted([anchor |-> Unflagged, flagged |-> flagged, against |-> anchor,
                   reason |-> "insufficient_anchor_items"])
      BY DEF Trusted
    <3> QED BY <2>3, <3>1, ReportKeeps DEF TooFewAnchors, MayGoOn
  <2>4. CASE AlreadyStable
    <3>1. Trusted([anchor |-> anchor, flagged |-> flagged, against |-> anchor,
                   reason |-> "stable_flag_set"])
      BY <2>4 DEF Trusted, AlreadyStable, Unflagged
    <3> QED BY <2>4, <3>1, ReportKeeps DEF AlreadyStable, MayGoOn
  <2>5. CASE SweepAgain
    <3>1. PICK flags \in SUBSET Columns :
              IF flags = flagged
              THEN Report(Unflagged, flags, Unflagged, "stable_flag_set")
              ELSE /\ flagged' = flags /\ anchor' = Unflagged /\ sweeps' = sweeps + 1
                   /\ UNCHANGED <<purifying, roundsCap, floor, group, purified>>
      BY <2>5 DEF SweepAgain
    <3>2. Cardinality(Unflagged) >= floor /\ purifying = "judge"
      BY <2>5 DEF SweepAgain, MayGoOn
    <3>3. CASE flags = flagged
      <4>1. Trusted([anchor |-> Unflagged, flagged |-> flags, against |-> Unflagged,
                     reason |-> "stable_flag_set"])
        BY <3>2, <3>3 DEF Trusted, Unflagged
      <4> QED BY <3>1, <3>2, <3>3, <4>1, ReportKeeps
    <3>4. CASE flags # flagged
      BY <2>1, <3>1, <3>2, <3>4 DEF AnchorsHoldTheFloor
    <3> QED BY <3>3, <3>4
  <2>6. CASE RoundsUsedUp
    <3> DEFINE why == IF roundsCap > 0 /\ Unflagged # anchor THEN "max_rounds_reached"
                                                             ELSE "stable_flag_set"
    <3>1. Trusted([anchor |-> anchor, flagged |-> flagged, against |-> anchor, reason |-> why])
      BY DEF Trusted, Unflagged, AnchorsHoldTheFloor
    <3> QED BY <2>6, <3>1, ReportKeeps DEF RoundsUsedUp
  <2>7. CASE UNCHANGED purificationVars
    BY <2>7 DEF purificationVars, AnchorsHoldTheFloor, Reported, Trusted
  <2> QED BY <2>2, <2>3, <2>4, <2>5, <2>6, <2>7 DEF PurificationNext
<1>3. PurificationInv => TrustedAnchorsHold
  BY DEF PurificationInv, TrustedAnchorsHold, Reported, Trusted, Untrustworthy, Intersection
<1> QED BY <1>1, <1>2, <1>3, PTL DEF PurificationSpec

-----------------------------------------------------------------------------
(* Form assembly *)

NeededOf(items)  == [l \in Labels |-> Needed(l, items)]
CountedOf(items) == [l \in Labels |-> Counted(l, items)]

\* What is still needed fits into what is left to select, from the first choice on.
NeedsFit ==
    form # {} => Total(NeededOf(form), Labels)[Labels] <= order.length - Cardinality(form)

FormIsWithinLimits ==
    /\ order \in Orders /\ form \subseteq Pool
    /\ \A l \in Labels : Counted(l, form) <= order.maximum[l]
    /\ \A i \in form : i \notin order.excluded /\ ~Overexposed(i)
    /\ assembly = "selecting" => /\ 1 <= order.length /\ Cardinality(form) <= order.length
                                 /\ \A l \in Labels : order.minimum[l] <= order.maximum[l]

AssemblyInv == FormIsWithinLimits /\ NeedsFit /\ RefusesOnlyTheImpossible

\* The items all blueprint cells need together.
LEMMA SumOfNeeds ==
    ASSUME NEW items
    PROVE  MapThenSumSet(LAMBDA l : Needed(l, items), Labels) = Total(NeededOf(items), Labels)[Labels]
<1>1. MapThenSumSet(LAMBDA l : Needed(l, items), Labels) = Sum(NeededOf(items), Labels)
  BY DEF Sum, MapThenSumSet, MapThenFoldSet, NeededOf
<1> QED BY <1>1, SumIsTotal

\* Counts are numbers, and so is what is needed.
LEMMA CountsAreNumbers ==
    ASSUME order \in Orders, NEW items \in SUBSET Pool
    PROVE  /\ IsFiniteSet(items) /\ Cardinality(items) \in Nat
           /\ \A l : IsFiniteSet({i \in items : Content[i] = l}) /\ Counted(l, items) \in Nat
           /\ order.length \in Nat
           /\ \A l \in Labels : order.minimum[l] \in Nat /\ order.maximum[l] \in Nat
           /\ \A l \in Labels : Needed(l, items) \in Nat
           /\ NeededOf(items) \in [Labels -> Nat] /\ CountedOf(items) \in [Labels -> Nat]
<1>1. IsFiniteSet(items) /\ Cardinality(items) \in Nat
  BY AssemblyAssumption, FS_Subset, FS_CardinalityType
<1>2. ASSUME NEW l PROVE IsFiniteSet({i \in items : Content[i] = l}) /\ Counted(l, items) \in Nat
  BY <1>1, FS_Subset, FS_CardinalityType DEF Counted
<1>3. order.length \in Nat /\ \A l \in Labels : order.minimum[l] \in Nat /\ order.maximum[l] \in Nat
  BY AssemblyAssumption
<1>4. ASSUME NEW l \in Labels PROVE Needed(l, items) \in Nat
  <2>1. Counted(l, items) \in Nat /\ order.minimum[l] \in Nat
    BY <1>2, <1>3
  <2> QED BY <2>1 DEF Needed
<1> QED BY <1>1, <1>2, <1>3, <1>4 DEF NeededOf, CountedOf

\* The items of a form are those of its labels.
LEMMA CountsAddUp ==
    ASSUME order \in Orders, NEW items \in SUBSET Pool
    PROVE  Total(CountedOf(items), Labels)[Labels] = Cardinality(items)
<1>1. /\ IsFiniteSet(items) /\ CountedOf(items) \in [Labels -> Nat] /\ IsFiniteSet(Labels)
      /\ \A l \in Labels : CountedOf(items)[l] = Cardinality({i \in items : Content[i] = l})
  BY CountsAreNumbers, AssemblyAssumption DEF CountedOf, Counted
<1>2. Total(CountedOf(items), Labels)[Labels] = Cardinality({i \in items : Content[i] \in Labels})
  BY <1>1, TotalCounts
<1>3. {i \in items : Content[i] \in Labels} = items
  BY AssemblyAssumption
<1> QED BY <1>2, <1>3

\* One more item is one more of its label.
LEMMA OneMoreItem ==
    ASSUME order \in Orders, NEW items \in SUBSET Pool, NEW i \in Pool \ items
    PROVE  /\ Cardinality(items \cup {i}) = Cardinality(items) + 1
           /\ Counted(Content[i], items \cup {i}) = Counted(Content[i], items) + 1
           /\ \A l \in Labels \ {Content[i]} : Counted(l, items \cup {i}) = Counted(l, items)
<1>1. Cardinality(items \cup {i}) = Cardinality(items) + 1
  BY CountsAreNumbers, FS_AddElement
<1>2. Counted(Content[i], items \cup {i}) = Counted(Content[i], items) + 1
  <2> DEFINE own == {j \in items : Content[j] = Content[i]}
  <2>1. {j \in items \cup {i} : Content[j] = Content[i]} = own \cup {i} /\ i \notin own
    OBVIOUS
  <2>2. IsFiniteSet(own)
    BY CountsAreNumbers
  <2> HIDE DEF own
  <2>3. Cardinality(own \cup {i}) = Cardinality(own) + 1
    BY <2>1, <2>2, FS_AddElement
  <2> QED BY <2>1, <2>3 DEF Counted, own
<1>3. ASSUME NEW l \in Labels \ {Content[i]} PROVE Counted(l, items \cup {i}) = Counted(l, items)
  <2>1. {j \in items \cup {i} : Content[j] = l} = {j \in items : Content[j] = l}
    OBVIOUS
  <2> QED BY <2>1 DEF Counted
<1> QED BY <1>1, <1>2, <1>3

\* An item that is needed lowers the need for its label, and no item raises any.
LEMMA NeedFalls ==
    ASSUME order \in Orders, NEW items \in SUBSET Pool, NEW i \in Pool \ items
    PROVE  /\ \A l \in Labels \ {Content[i]} : Needed(l, items \cup {i}) = Needed(l, items)
           /\ Needed(Content[i], items) > 0 =>
                  Needed(Content[i], items) = Needed(Content[i], items \cup {i}) + 1
           /\ Needed(Content[i], items) = 0 => Needed(Content[i], items \cup {i}) = 0
<1> DEFINE c == Content[i]
<1>1. c \in Labels
  BY AssemblyAssumption
<1>2. \A l \in Labels \ {c} : Needed(l, items \cup {i}) = Needed(l, items)
  BY OneMoreItem DEF Needed
<1>3. /\ Counted(c, items \cup {i}) = Counted(c, items) + 1
      /\ Counted(c, items) \in Nat /\ order.minimum[c] \in Nat
  BY <1>1, OneMoreItem, CountsAreNumbers
<1> HIDE DEF c
<1>4. /\ Needed(c, items) > 0 => Needed(c, items) = Needed(c, items \cup {i}) + 1
      /\ Needed(c, items) = 0 => Needed(c, items \cup {i}) = 0
  BY <1>3 DEF Needed
<1> QED BY <1>2, <1>4 DEF c

\* While an acceptable form exists and this one is short, there is an item to take:
\* one of a label still needed, or of one that the acceptable form has more of.
LEMMA CandidateExists ==
    ASSUME AssemblyInv, assembly = "selecting", Cardinality(form) < order.length,
           NEW items \in SUBSET Pool, Acceptable(items)
    PROVE  Candidates # {}
<1>1. /\ order \in Orders /\ form \in SUBSET Pool /\ items \in SUBSET Pool /\ IsFiniteSet(Labels)
  BY AssemblyAssumption DEF AssemblyInv, FormIsWithinLimits
<1>2. /\ Cardinality(items) = order.length /\ order.length \in Nat /\ Cardinality(form) \in Nat
      /\ \A l \in Labels : /\ Counted(l, items) \in Nat /\ Counted(l, form) \in Nat
                           /\ order.minimum[l] \in Nat /\ order.maximum[l] \in Nat
                           /\ Needed(l, form) \in Nat
                           /\ Counted(l, items) >= order.minimum[l]
                           /\ Counted(l, items) <= order.maximum[l]
  <2>1. Cardinality(items) = order.length /\ order.length \in Nat /\ Cardinality(form) \in Nat
    BY <1>1, CountsAreNumbers DEF Acceptable
  <2>2. ASSUME NEW l \in Labels
        PROVE  /\ Counted(l, items) \in Nat /\ Counted(l, form) \in Nat
               /\ order.minimum[l] \in Nat /\ order.maximum[l] \in Nat
               /\ Needed(l, form) \in Nat
    BY <1>1, CountsAreNumbers
  <2>3. ASSUME NEW l \in Labels
        PROVE  Counted(l, items) >= order.minimum[l] /\ Counted(l, items) <= order.maximum[l]
    BY <2>2 DEF Acceptable
  <2> QED BY <2>1, <2>2, <2>3
<1>3. /\ NeededOf(form) \in [Labels -> Nat] /\ CountedOf(form) \in [Labels -> Nat]
      /\ CountedOf(items) \in [Labels -> Nat]
  BY <1>1, CountsAreNumbers
\* The needs fit into what is left.
<1>4. Total(NeededOf(form), Labels)[Labels] <= order.length - Cardinality(form)
  <2>1. CASE form # {}
    BY <2>1 DEF AssemblyInv, NeedsFit
  <2>2. CASE form = {}
    <3>1. Cardinality(form) = 0 /\ \A l \in Labels : Counted(l, form) = 0
      <4>1. \A l : {i \in form : Content[i] = l} = {}
        BY <2>2
      <4> QED BY <2>2, <4>1, FS_EmptySet DEF Counted
    <3>2. ASSUME NEW l \in Labels PROVE NeededOf(form)[l] <= CountedOf(items)[l]
      BY <1>2, <3>1 DEF NeededOf, CountedOf, Needed
    <3>3. Total(NeededOf(form), Labels)[Labels] <= Total(CountedOf(items), Labels)[Labels]
      BY <1>1, <1>3, <3>2, TotalMonotone
    <3> QED BY <1>1, <1>2, <3>1, <3>3, CountsAddUp
  <2> QED BY <2>1, <2>2
\* What the acceptable form has of a label that this one has too little of is eligible.
<1>5. ASSUME NEW l \in Labels, Counted(l, form) < order.maximum[l]
      PROVE  {i \in items : Content[i] = l} \ form \subseteq {i \in Eligible : Content[i] = l}
  BY <1>1, <1>5 DEF Eligible, Acceptable
<1>6. ASSUME NEW l \in Labels
      PROVE  /\ IsFiniteSet({i \in items : Content[i] = l} \ form)
             /\ Cardinality({i \in items : Content[i] = l} \ form) \in Nat
             /\ Cardinality({i \in items : Content[i] = l} \ form)
                    >= Counted(l, items) - Counted(l, form)
  <2> DEFINE have == {i \in items : Content[i] = l}
             own == {i \in form : Content[i] = l}
  <2>1. IsFiniteSet(have) /\ IsFiniteSet(own) /\ have \ form = have \ own
    BY <1>1, CountsAreNumbers
  <2>2. Counted(l, items) = Cardinality(have) /\ Counted(l, form) = Cardinality(own)
    BY DEF Counted
  <2> HIDE DEF have, own
  <2>3. Cardinality(have \ own) = Cardinality(have) - Cardinality(have \cap own)
    BY <2>1, FS_Difference
  <2>4. Cardinality(have \cap own) <= Cardinality(own) /\ IsFiniteSet(have \ own)
    BY <2>1, FS_Intersection, FS_Difference
  <2>5. Cardinality(have \ own) \in Nat /\ Cardinality(have \cap own) \in Nat
        /\ Cardinality(have) \in Nat /\ Cardinality(own) \in Nat
    BY <2>1, <2>4, FS_Intersection, FS_CardinalityType
  <2>6. /\ IsFiniteSet(have \ form) /\ Cardinality(have \ form) \in Nat
        /\ Cardinality(have \ form) >= Cardinality(have) - Cardinality(own)
    BY <2>1, <2>3, <2>4, <2>5
  <2> QED BY <2>2, <2>6 DEF have
<1>7. Eligible \in SUBSET Pool
  BY DEF Eligible
\* Every need can be met from what is eligible.
<1>8. ASSUME NEW l \in Labels PROVE Counted(l, Eligible) >= Needed(l, form)
  <2>1. Counted(l, Eligible) \in Nat
    BY <1>1, <1>7, CountsAreNumbers
  <2>2. CASE Counted(l, form) < order.minimum[l]
    <3>1. Counted(l, form) < order.maximum[l]
      BY <1>2, <2>2
    <3>2. IsFiniteSet({i \in Eligible : Content[i] = l})
      BY <1>1, <1>7, CountsAreNumbers
    <3>3. Cardinality({i \in items : Content[i] = l} \ form) <= Counted(l, Eligible)
      BY <1>5, <3>1, <3>2, FS_Subset DEF Counted
    <3>4. Needed(l, form) = order.minimum[l] - Counted(l, form)
      BY <2>2 DEF Needed
    <3> HIDE DEF Counted
    <3> QED BY <1>2, <1>6, <2>1, <3>3, <3>4
  <2>3. CASE ~(Counted(l, form) < order.minimum[l])
    BY <2>1, <2>3 DEF Needed
  <2> QED BY <2>2, <2>3
\* The item to take
<1>9. PICK i \in Eligible : Needed(Content[i], form) > 0 \/ \A l \in Labels : Needed(l, form) = 0
  <2>1. ASSUME NEW l \in Labels, Counted(l, form) < Counted(l, items)
        PROVE  \E i \in Eligible : Content[i] = l
    <3>1. {i \in items : Content[i] = l} \ form # {}
      BY <1>2, <1>6, <2>1, FS_EmptySet
    <3>2. Counted(l, form) < order.maximum[l]
      BY <1>2, <2>1
    <3> QED BY <1>5, <3>1, <3>2
  <2>2. CASE \E l \in Labels : Needed(l, form) > 0
    <3>1. PICK l \in Labels : Needed(l, form) > 0
      BY <2>2
    <3>2. Counted(l, form) < Counted(l, items)
      BY <1>2, <3>1 DEF Needed
    <3> QED BY <2>1, <3>1, <3>2
  <2>3. CASE \A l \in Labels : Needed(l, form) = 0
    <3>1. \E l \in Labels : Counted(l, form) < Counted(l, items)
      <4>1. SUFFICES ASSUME \A l \in Labels : Counted(l, items) <= Counted(l, form) PROVE FALSE
        BY <1>2
      <4>2. \A l \in Labels : CountedOf(items)[l] <= CountedOf(form)[l]
        BY <4>1 DEF CountedOf
      <4>3. Total(CountedOf(items), Labels)[Labels] <= Total(CountedOf(form), Labels)[Labels]
        BY <1>1, <1>3, <4>2, TotalMonotone
      <4> QED BY <1>1, <1>2, <4>3, CountsAddUp
    <3> QED BY <2>1, <2>3, <3>1
  <2> QED BY <1>2, <2>2, <2>3
<1> DEFINE c == Content[i]
           grown == form \cup {i}
           rest == Eligible \ {i}
<1>10. /\ i \in Pool \ form /\ c \in Labels /\ grown \in SUBSET Pool /\ rest \in SUBSET Pool
       /\ i \in Pool \ rest /\ rest \cup {i} = Eligible
  BY <1>1, AssemblyAssumption DEF Eligible
<1>11. /\ Cardinality(grown) = Cardinality(form) + 1 /\ NeededOf(grown) \in [Labels -> Nat]
       /\ \A l \in Labels : Needed(l, grown) \in Nat
  BY <1>1, <1>10, OneMoreItem, CountsAreNumbers
<1>12. Total(NeededOf(grown), Labels)[Labels] <= order.length - Cardinality(grown)
  <2>1. CASE Needed(c, form) > 0
    <3>1. /\ NeededOf(form)[c] = NeededOf(grown)[c] + 1
          /\ \A l \in Labels \ {c} : NeededOf(form)[l] = NeededOf(grown)[l]
      BY <1>1, <1>10, <2>1, NeedFalls DEF NeededOf
    <3> HIDE DEF c, grown
    <3>2. Total(NeededOf(form), Labels)[Labels] = Total(NeededOf(grown), Labels)[Labels] + 1
      BY <1>1, <1>3, <1>10, <1>11, <3>1, TotalOneMore
    <3>3. Total(NeededOf(grown), Labels)[Labels] \in Nat
      BY <1>1, <1>11, TotalBounds
    <3> QED BY <1>2, <1>4, <1>11, <3>2, <3>3
  <2>2. CASE \A l \in Labels : Needed(l, form) = 0
    <3>1. \A l \in Labels : Needed(l, grown) = 0
      BY <1>1, <1>10, <2>2, NeedFalls
    <3> HIDE DEF grown
    <3>2. \A l \in Labels : NeededOf(grown)[l] = 0
      BY <3>1 DEF NeededOf
    <3>3. Total(NeededOf(grown), Labels)[Labels] = 0
      BY <1>1, <1>11, <3>2, TotalZero
    <3> QED BY <1>2, <1>11, <3>3
  <2> QED BY <1>9, <2>1, <2>2
<1>13. ASSUME NEW l \in Labels PROVE Counted(l, rest) >= Needed(l, grown)
  <2>1. Counted(l, rest) \in Nat /\ Counted(l, Eligible) \in Nat
    BY <1>1, <1>7, <1>10, CountsAreNumbers
  <2>2. CASE l # c
    <3>1. Counted(l, rest \cup {i}) = Counted(l, rest)
      <4> HIDE DEF rest
      <4> QED BY <1>1, <1>10, <2>2, OneMoreItem
    <3>2. Needed(l, grown) = Needed(l, form)
      BY <1>1, <1>10, <2>2, NeedFalls
    <3> QED BY <1>8, <1>10, <3>1, <3>2
  <2>3. CASE l = c
    <3>1. Counted(l, Eligible) = Counted(l, rest) + 1
      BY <1>1, <1>10, <2>3, OneMoreItem
    <3>2. /\ Needed(l, form) > 0 => Needed(l, form) = Needed(l, grown) + 1
          /\ Needed(l, form) = 0 => Needed(l, grown) = 0
      BY <1>1, <1>10, <2>3, NeedFalls
    <3> HIDE DEF c, grown, rest
    <3> QED BY <1>2, <1>8, <1>11, <2>1, <3>1, <3>2
  <2> QED BY <2>2, <2>3
<1>14. ContentFeasible(grown, rest)
  BY <1>12, <1>13, SumOfNeeds DEF ContentFeasible
<1> QED BY <1>14 DEF Candidates

\* Before anything is selected: a request that is turned away has no form.
LEMMA AssemblyBegins == AssemblyInit => AssemblyInv
<1> SUFFICES ASSUME AssemblyInit PROVE AssemblyInv
  OBVIOUS
<1>1. /\ order \in Orders /\ form = {} /\ form \in SUBSET Pool /\ order.length \in Nat
      /\ assembly = IF OrderAdmitted(order) THEN "selecting" ELSE "refused"
  BY AssemblyAssumption DEF AssemblyInit
<1>2. FormIsWithinLimits
  <2>1. Cardinality(form) = 0 /\ \A l : Counted(l, form) = 0
    <3>1. \A l : {i \in form : Content[i] = l} = {}
      BY <1>1
    <3> QED BY <1>1, <3>1, FS_EmptySet DEF Counted
  <2>2. \A l \in Labels : order.maximum[l] \in Nat
    BY <1>1, CountsAreNumbers
  <2>3. \A l \in Labels : Counted(l, form) <= order.maximum[l]
    BY <2>1, <2>2
  <2>4. assembly = "selecting" => 1 <= order.length /\ Cardinality(form) <= order.length
                                  /\ \A l \in Labels : order.minimum[l] <= order.maximum[l]
    BY <1>1, <2>1 DEF OrderAdmitted
  <2> QED BY <1>1, <2>3, <2>4 DEF FormIsWithinLimits
<1>3. NeedsFit
  BY <1>1 DEF NeedsFit
<1>4. ASSUME assembly = "refused", order.length > 0, NEW items \in SUBSET Pool, Acceptable(items)
      PROVE  FALSE
  <2>1. ~OrderAdmitted(order)
    BY <1>1, <1>4
  <2>2. order.length <= Cardinality(Pool)
    BY <1>4, AssemblyAssumption, FS_Subset DEF Acceptable
  <2>3. PICK l \in Labels : ~(order.minimum[l] <= order.maximum[l])
    BY <1>1, <1>4, <2>1, <2>2 DEF OrderAdmitted
  <2>4. Counted(l, items) \in Nat /\ order.minimum[l] \in Nat /\ order.maximum[l] \in Nat
    BY <1>1, CountsAreNumbers
  <2>5. Counted(l, items) \in order.minimum[l] .. order.maximum[l]
    BY <1>4 DEF Acceptable
  <2> QED BY <2>3, <2>4, <2>5
<1>5. RefusesOnlyTheImpossible
  BY <1>1, <1>4 DEF RefusesOnlyTheImpossible
<1> QED BY <1>2, <1>3, <1>5 DEF AssemblyInv

\* An item is chosen for a cell.
LEMMA ChoosePreserves == ASSUME AssemblyInv, Choose PROVE AssemblyInv'
<1>1. PICK i \in Candidates : form' = form \cup {i}
  BY DEF Choose
<1>2. /\ assembly = "selecting" /\ assembly' = assembly /\ order' = order
      /\ Cardinality(form) < order.length /\ order \in Orders /\ form \in SUBSET Pool
  BY DEF Choose, AssemblyInv, FormIsWithinLimits
<1>3. /\ i \in Pool \ form /\ i \notin order.excluded /\ ~Overexposed(i)
      /\ Counted(Content[i], form) < order.maximum[Content[i]]
      /\ ContentFeasible(form \cup {i}, Eligible \ {i})
  BY <1>1 DEF Candidates, Eligible
<1>4. /\ Cardinality(form) \in Nat /\ order.length \in Nat /\ Content[i] \in Labels
      /\ \A l \in Labels : Counted(l, form) \in Nat /\ order.maximum[l] \in Nat
  BY <1>2, <1>3, AssemblyAssumption, CountsAreNumbers
<1>5. FormIsWithinLimits'
  <2>1. Cardinality(form \cup {i}) = Cardinality(form) + 1
    BY <1>2, <1>3, OneMoreItem
  <2>2. Cardinality(form') <= order'.length
    BY <1>1, <1>2, <1>4, <2>1
  <2>3. ASSUME NEW l \in Labels PROVE Counted(l, form \cup {i}) <= order.maximum[l]
    <3>1. CASE l = Content[i]
      <4>1. Counted(l, form \cup {i}) = Counted(l, form) + 1
        BY <1>2, <1>3, <3>1, OneMoreItem
      <4> HIDE DEF Counted
      <4> QED BY <1>3, <1>4, <3>1, <4>1
    <3>2. CASE l # Content[i]
      <4>1. Counted(l, form \cup {i}) = Counted(l, form)
        BY <1>2, <1>3, <3>2, OneMoreItem
      <4> QED BY <4>1 DEF AssemblyInv, FormIsWithinLimits
    <3> QED BY <3>1, <3>2
  <2>4. \A l \in Labels : Counted(l, form)' <= order'.maximum[l]
    BY <1>1, <1>2, <2>3 DEF Counted
  <2>5. \A j \in form' : j \notin order'.excluded /\ ~Overexposed(j)'
    BY <1>1, <1>2, <1>3 DEF AssemblyInv, FormIsWithinLimits, Overexposed
  <2>6. 1 <= order'.length /\ \A l \in Labels : order'.minimum[l] <= order'.maximum[l]
    BY <1>2 DEF AssemblyInv, FormIsWithinLimits
  <2>7. order' \in Orders /\ form' \subseteq Pool
    BY <1>1, <1>2, <1>3
  <2> QED BY <2>2, <2>4, <2>5, <2>6, <2>7 DEF FormIsWithinLimits
<1>6. NeedsFit'
  <2>1. Total(NeededOf(form \cup {i}), Labels)[Labels]
            <= order.length - Cardinality(form \cup {i})
    BY <1>3, SumOfNeeds DEF ContentFeasible
  <2>2. NeededOf(form)' = NeededOf(form \cup {i})
    BY <1>1, <1>2 DEF NeededOf, Needed, Counted
  <2> QED BY <1>1, <1>2, <2>1, <2>2 DEF NeedsFit, Total, Totals
<1>7. RefusesOnlyTheImpossible'
  BY <1>2 DEF RefusesOnlyTheImpossible
<1> QED BY <1>5, <1>6, <1>7 DEF AssemblyInv

\* An order is refused.
LEMMA RefusePreserves == ASSUME AssemblyInv, Refuse PROVE AssemblyInv'
<1>1. /\ assembly = "selecting" /\ Cardinality(form) < order.length /\ Candidates = {}
      /\ assembly' = "refused" /\ order' = order /\ form' = form
  BY DEF Refuse
<1>2. FormIsWithinLimits' /\ NeedsFit'
  BY <1>1 DEF AssemblyInv, FormIsWithinLimits, NeedsFit, Counted, Overexposed, NeededOf, Needed,
              Total, Totals
<1>3. ~\E items \in SUBSET Pool : Acceptable(items)
  BY <1>1, CandidateExists
<1>4. RefusesOnlyTheImpossible'
  BY <1>1, <1>3 DEF RefusesOnlyTheImpossible, Acceptable, Counted, Overexposed
<1> QED BY <1>2, <1>4 DEF AssemblyInv

\* A form of full length lacks nothing, so the check that is repeated on it passes.
LEMMA DeliverPreserves == ASSUME AssemblyInv, Deliver PROVE AssemblyInv'
<1>1. /\ assembly = "selecting" /\ Cardinality(form) = order.length
      /\ order' = order /\ form' = form
      /\ assembly' = IF \A l \in Labels : Needed(l, form) = 0 THEN "assembled" ELSE "refused"
      /\ order \in Orders /\ form \in SUBSET Pool /\ IsFiniteSet(Labels)
      /\ 1 <= order.length
  BY AssemblyAssumption DEF Deliver, AssemblyInv, FormIsWithinLimits
<1>2. /\ order.length \in Nat /\ NeededOf(form) \in [Labels -> Nat]
      /\ \A l \in Labels : /\ Needed(l, form) \in Nat /\ Counted(l, form) \in Nat
                           /\ order.minimum[l] \in Nat /\ order.maximum[l] \in Nat
  BY <1>1, CountsAreNumbers
<1>3. form # {}
  BY <1>1, FS_EmptySet
<1>4. ASSUME NEW l \in Labels PROVE Needed(l, form) = 0
  <2>1. Total(NeededOf(form), Labels)[Labels] <= 0
    BY <1>1, <1>2, <1>3 DEF AssemblyInv, NeedsFit
  <2>2. Total(NeededOf(form), Labels)[Labels] \in Nat
    BY <1>1, <1>2, TotalBounds
  <2>3. NeededOf(form)[l] <= Total(NeededOf(form), Labels)[Labels]
    BY <1>1, <1>2, TotalBounds
  <2>4. NeededOf(form)[l] = Needed(l, form)
    BY DEF NeededOf
  <2> QED BY <1>2, <2>1, <2>2, <2>3, <2>4
<1>5. Acceptable(form)
  <2>1. ASSUME NEW l \in Labels PROVE Counted(l, form) \in order.minimum[l] .. order.maximum[l]
    <3>1. Counted(l, form) <= order.maximum[l]
      BY DEF AssemblyInv, FormIsWithinLimits
    <3>2. Counted(l, form) >= order.minimum[l]
      BY <1>2, <1>4 DEF Needed
    <3> QED BY <1>2, <3>1, <3>2
  <2> QED BY <1>1, <2>1 DEF Acceptable, AssemblyInv, FormIsWithinLimits
<1>6. FormIsWithinLimits' /\ NeedsFit'
  BY <1>1, <1>4 DEF AssemblyInv, FormIsWithinLimits, NeedsFit, Counted, Overexposed, NeededOf, Needed,
              Total, Totals
<1>7. RefusesOnlyTheImpossible'
  BY <1>1, <1>4, <1>5 DEF RefusesOnlyTheImpossible, Acceptable, Counted, Overexposed
<1> QED BY <1>6, <1>7 DEF AssemblyInv

\* Whatever the pool, the labels, the request and the candidates chosen, the
\* greedy selection finds a form that meets the constraints exactly if there is one.
THEOREM SelectionIsComplete == AssemblySpec => []RefusesOnlyTheImpossible
<1>1. ASSUME AssemblyInv, UNCHANGED assemblyVars PROVE AssemblyInv'
  <2>1. assembly' = assembly /\ order' = order /\ form' = form
    BY <1>1 DEF assemblyVars
  <2>2. FormIsWithinLimits'
    BY <1>1, <2>1 DEF AssemblyInv, FormIsWithinLimits, Counted, Overexposed
  <2>3. NeedsFit'
    BY <1>1, <2>1 DEF AssemblyInv, NeedsFit, Counted, NeededOf, Needed, Total, Totals
  <2>4. RefusesOnlyTheImpossible'
    BY <1>1, <2>1 DEF AssemblyInv, RefusesOnlyTheImpossible, Acceptable, Counted, Overexposed
  <2> QED BY <2>2, <2>3, <2>4 DEF AssemblyInv
<1>2. AssemblyInv /\ [AssemblyNext]_assemblyVars => AssemblyInv'
  BY <1>1, ChoosePreserves, RefusePreserves, DeliverPreserves DEF AssemblyNext
<1>3. AssemblyInv => RefusesOnlyTheImpossible
  BY DEF AssemblyInv
<1> QED BY <1>2, <1>3, AssemblyBegins, PTL DEF AssemblySpec

-----------------------------------------------------------------------------
(* The flexilevel test *)

\* An index tells on which end the next item lies and how many answers led there.
Extent ==
    /\ turn \in 0 .. Asks /\ rights \in 0 .. turn /\ wasRight \in BOOLEAN
    /\ flexing \in {"asking", "scored"}
    /\ turn = 0 => lord = 0
    /\ (turn > 0 /\ wasRight) => rights > 0 /\ lord = rights
    /\ (turn > 0 /\ ~wasRight) => rights < turn /\ lord = rights - turn

\* What has been answered is the rest of the interval.
Contiguous == asked = (rights - turn .. rights) \ {lord} /\ (turn > 0 => latest \in asked)

Settled ==
    flexing = "scored" => turn = Asks /\ selfScore = [rights |-> rights, red |-> ~wasRight]

FlexInv == Extent /\ Contiguous /\ Settled

\* Half of an odd number of items, the median counted, is two at least.
LEMMA AsksPositive == Asks \in Nat /\ Asks >= 2
BY FlexilevelAssumption DEF Asks

\* One answer extends the interval by one on its side.
LEMMA StepExtends ==
    ASSUME Extent, NEW right \in BOOLEAN
    PROVE  LordStep(lord, turn + 1, right)
           = IF right THEN rights + 1 ELSE rights - (turn + 1)
BY AsksPositive DEF Extent, LordStep

\* An answer moves the index up or down.
LEMMA AnswerFlexPreserves ==
    ASSUME FlexInv, NEW right \in BOOLEAN, AnswerFlex(right)
    PROVE  FlexInv'
<1>1. /\ turn' = turn + 1 /\ turn < Asks /\ flexing = "asking" /\ flexing' = flexing
      /\ wasRight' = right /\ rights' = IF right THEN rights + 1 ELSE rights
      /\ asked' = asked \cup {lord} /\ latest' = lord
  BY DEF AnswerFlex
<1>2. lord' = IF right THEN rights + 1 ELSE rights - (turn + 1)
  BY <1>1, StepExtends DEF AnswerFlex, FlexInv
<1>3. turn \in Nat /\ rights \in Nat /\ rights <= turn /\ Asks \in Nat
  BY AsksPositive DEF FlexInv, Extent
<1>4. Extent'
  BY <1>1, <1>2, <1>3, AsksPositive DEF Extent, FlexInv, Asks
<1>5. asked \cup {lord} = rights - turn .. rights
  BY <1>3, AsksPositive DEF FlexInv, Extent, Contiguous
<1>6. Contiguous'
  <2>1. CASE right
    BY <2>1, <1>1, <1>2, <1>3, <1>5 DEF Contiguous
  <2>2. CASE ~right
    BY <2>2, <1>1, <1>2, <1>3, <1>5 DEF Contiguous
  <2>3. QED
    BY <2>1, <2>2
<1>7. Settled'
  BY <1>1 DEF Settled
<1>8. QED
  BY <1>4, <1>6, <1>7 DEF FlexInv

\* The score counts the right answers.
LEMMA ScoreFlexPreserves ==
    ASSUME FlexInv, ScoreFlex
    PROVE  FlexInv'
<1>1. turn = Asks /\ UNCHANGED <<lord, turn, asked, latest, wasRight, rights>>
      /\ flexing' = "scored"
      /\ selfScore' = [rights |-> IF lord > 0 THEN lord ELSE Asks + lord, red |-> lord < 0]
  BY DEF ScoreFlex
<1>2. Extent' /\ Contiguous'
  BY <1>1 DEF FlexInv, Extent, Contiguous, Asks
<1>3. (IF lord > 0 THEN lord ELSE Asks + lord) = rights /\ (lord < 0) = ~wasRight
  BY <1>1, AsksPositive DEF FlexInv, Extent
<1>4. Settled'
  BY <1>1, <1>3 DEF Settled, Asks
<1>5. QED
  BY <1>2, <1>4 DEF FlexInv

\* The index stays where the rule puts it.
LEMMA FlexInductive == FlexSpec => []FlexInv
<1>1. FlexInit => FlexInv
  <2> SUFFICES ASSUME FlexInit PROVE FlexInv
    OBVIOUS
  <2>1. Extent
    <3>1. wasRight \in BOOLEAN
      BY Zenon DEF FlexInit
    <3>2. turn = 0 /\ rights = 0 /\ lord = 0 /\ flexing = "asking"
      BY DEF FlexInit
    <3>3. QED
      BY <3>1, <3>2, AsksPositive DEF Extent
  <2>2. (0 - 0 .. 0) \ {0} = {}
    OBVIOUS
  <2>3. Contiguous /\ Settled
    BY <2>2 DEF FlexInit, Contiguous, Settled
  <2>4. QED
    BY <2>1, <2>3 DEF FlexInv
<1>2. FlexInv /\ [FlexNext]_flexVars => FlexInv'
  <2> SUFFICES ASSUME FlexInv, [FlexNext]_flexVars PROVE FlexInv'
    OBVIOUS
  <2>1. CASE ScoreFlex
    BY <2>1, ScoreFlexPreserves
  <2>2. CASE \E right \in BOOLEAN : AnswerFlex(right)
    BY <2>2, AnswerFlexPreserves
  <2>3. CASE UNCHANGED flexVars
    BY <2>3 DEF flexVars, FlexInv, Extent, Contiguous, Settled, Asks
  <2>4. QED
    BY <2>1, <2>2, <2>3 DEF FlexNext
<1>3. QED
  BY <1>1, <1>2, PTL DEF FlexSpec

\* Whatever the number of items and whatever the answers, the index that
\* flexilevel_next computes is the item the verbal rule names, the index lies in
\* the pool as long as an item is to be asked, and the self-score is right.
THEOREM IndexIsTheRule == FlexSpec => []FollowsLordsRule
<1>1. FlexInv => FollowsLordsRule
  <2> SUFFICES ASSUME FlexInv, flexing # "idle", turn > 0 PROVE FollowsLordsRule
    BY DEF FollowsLordsRule
  <2>1. turn \in 1 .. Asks /\ rights \in 0 .. turn /\ Asks \in Nat
    BY AsksPositive DEF FlexInv, Extent
  <2>2. CASE wasRight
    <3>1. lord = rights /\ rights > 0 /\ asked = rights - turn .. rights - 1 /\ latest \in asked
      BY <2>1, <2>2 DEF FlexInv, Extent, Contiguous
    <3>2. QED
      BY <2>1, <2>2, <3>1 DEF FollowsLordsRule, Reach, FlexInv, Settled
  <2>3. CASE ~wasRight
    <3>1. /\ lord = rights - turn /\ rights < turn
          /\ asked = rights - turn + 1 .. rights /\ latest \in asked
      BY <2>1, <2>3 DEF FlexInv, Extent, Contiguous
    <3>2. QED
      BY <2>1, <2>3, <3>1 DEF FollowsLordsRule, Reach, FlexInv, Settled
  <2>4. QED
    BY <2>2, <2>3 DEF FlexInv, Extent
<1>2. QED
  BY <1>1, FlexInductive, PTL

-----------------------------------------------------------------------------
(* The joint maximum likelihood fit *)

\* The phases of a restart and the iterations that are left in them.
PhasesAreBounded ==
    /\ pc = "adam"  => t < AdamIterations
    /\ pc = "lbfgs" => t > 0

LbfgsIsUsable == pc = "lbfgs" => Usable(x)

BestIsACandidate == best.status = "none" <=> finals = {}

FitInv ==
    /\ FitTypeOK /\ PhasesAreBounded
    /\ LbfgsIsUsable /\ EndsAtUsablePoint
    /\ BestIsACandidate /\ BestOfRestarts

\* Both optimizers get at least one iteration and not more than configured.
LEMMA Iterations ==
    ASSUME n \in Nat
    PROVE  AdamIterations \in 1 .. MaxIter /\ LbfgsIterations \in 1 .. MaxIter
<1>1. MaxIter # 1 => MaxIter \div 2 \in 1 .. MaxIter
  BY ConfigAssumption
<1> QED BY <1>1, ConfigAssumption DEF AdamIterations, LbfgsIterations

\* A fit starts well.
LEMMA InitFitInv == FitInit => FitInv
<1> SUFFICES ASSUME FitInit PROVE FitInv
  OBVIOUS
<1>1. FitTypeOK
  BY ConfigAssumption DEF FitInit, FitTypeOK, Values, Inf, NaN, Statuses, Optimizers
<1> QED BY <1>1 DEF FitInit, FitInv, PhasesAreBounded, LbfgsIsUsable, EndsAtUsablePoint,
                     BestIsACandidate, BestOfRestarts

\* A new restart forgets the last one's point and verdict, not its objective.
LEMMA RestartPreserves == ASSUME FitInv, BeginRestart PROVE FitInv'
<1> USE DEF FitInv, BeginRestart
<1>1. FitTypeOK'
  BY ConfigAssumption DEF FitTypeOK, problem, Values, Inf, NaN, Statuses
<1>2. PhasesAreBounded'
  BY Iterations DEF FitTypeOK, PhasesAreBounded, AdamIterations, problem
<1>3. LbfgsIsUsable' /\ EndsAtUsablePoint'
  BY DEF LbfgsIsUsable, EndsAtUsablePoint
<1>4. BestIsACandidate' /\ BestOfRestarts'
  BY DEF BestIsACandidate, BestOfRestarts
<1> QED BY <1>1, <1>2, <1>3, <1>4

\* Adam ends a restart at a usable point, or says so.
LEMMA AdamPreserves == ASSUME FitInv, Adam PROVE FitInv'
<1> USE DEF FitInv, Adam
<1>1. AdamIterations \in 1 .. MaxIter /\ AdamIterations' = AdamIterations
  BY Iterations DEF FitTypeOK, AdamBadValue, AdamConverges, AdamMoves, problem, AdamIterations
<1>2. CASE AdamBadValue
  <2> USE <1>2 DEF AdamBadValue, AdamEnds, AfterAdam
  <2>1. FitTypeOK'
    BY DEF FitTypeOK, problem, Statuses
  <2>2. PhasesAreBounded' /\ LbfgsIsUsable' /\ EndsAtUsablePoint'
    BY DEF PhasesAreBounded, LbfgsIsUsable, EndsAtUsablePoint
  <2>3. BestIsACandidate' /\ BestOfRestarts'
    BY DEF BestIsACandidate, BestOfRestarts
  <2> QED BY <2>1, <2>2, <2>3
<1>3. CASE AdamConverges
  <2> USE <1>3 DEF AdamConverges, AdamEnds, AfterAdam
  <2>1. FitTypeOK'
    <3>1. f[x] \in Values /\ n' \in Nat
      BY DEF FitTypeOK
    <3>2. t' \in 0 .. MaxIter
      BY <1>1, ConfigAssumption DEF FitTypeOK, PhasesAreBounded
    <3> QED BY <3>1, <3>2 DEF FitTypeOK, problem, Statuses
  <2>2. PhasesAreBounded' /\ LbfgsIsUsable' /\ EndsAtUsablePoint'
    BY DEF PhasesAreBounded, LbfgsIsUsable, EndsAtUsablePoint, Usable, problem
  <2>3. BestIsACandidate' /\ BestOfRestarts'
    BY DEF BestIsACandidate, BestOfRestarts
  <2> QED BY <2>1, <2>2, <2>3
<1>4. CASE AdamMoves
  <2> USE <1>4 DEF AdamMoves, AdamEnds, AfterAdam
  <2>1. FitTypeOK'
    <3>1. f[x] \in Values /\ n' \in Nat
      BY DEF FitTypeOK
    <3>2. t' \in 0 .. MaxIter
      BY <1>1, ConfigAssumption DEF FitTypeOK, PhasesAreBounded
    <3> QED BY <3>1, <3>2 DEF FitTypeOK, problem, Statuses
  <2>2. PhasesAreBounded' /\ LbfgsIsUsable' /\ EndsAtUsablePoint'
    BY <1>1 DEF PhasesAreBounded, LbfgsIsUsable, EndsAtUsablePoint, Usable, problem
  <2>3. BestIsACandidate' /\ BestOfRestarts'
    BY DEF BestIsACandidate, BestOfRestarts
  <2> QED BY <2>1, <2>2, <2>3
<1> QED BY <1>2, <1>3, <1>4

\* L-BFGS refuses a start it cannot use and never leaves the usable points.
LEMMA LbfgsPreserves == ASSUME FitInv, Lbfgs PROVE FitInv'
<1> USE DEF FitInv, Lbfgs
<1>1. CASE LbfgsRaises \/ LbfgsBadStart
  <2> USE <1>1 DEF LbfgsRaises, LbfgsBadStart
  <2>1. FitTypeOK'
    BY DEF FitTypeOK, problem, Statuses
  <2>2. PhasesAreBounded' /\ LbfgsIsUsable' /\ EndsAtUsablePoint'
    BY DEF PhasesAreBounded, LbfgsIsUsable, EndsAtUsablePoint
  <2>3. BestIsACandidate' /\ BestOfRestarts'
    BY DEF BestIsACandidate, BestOfRestarts
  <2> QED BY <2>1, <2>2, <2>3
<1>2. CASE LbfgsStarts
  <2> USE <1>2 DEF LbfgsStarts
  <2>1. LbfgsIterations \in 1 .. MaxIter
    BY Iterations DEF FitTypeOK
  <2>2. FitTypeOK'
    BY <2>1 DEF FitTypeOK, problem, Statuses
  <2>3. PhasesAreBounded' /\ LbfgsIsUsable' /\ EndsAtUsablePoint'
    BY <2>1 DEF PhasesAreBounded, LbfgsIsUsable, EndsAtUsablePoint, Usable, problem
  <2>4. BestIsACandidate' /\ BestOfRestarts'
    BY DEF BestIsACandidate, BestOfRestarts
  <2> QED BY <2>2, <2>3, <2>4
<1>3. CASE GradientSmall \/ LineSearchFails
  <2> USE <1>3 DEF GradientSmall, LineSearchFails, LbfgsEnds
  <2>1. FitTypeOK'
    BY DEF FitTypeOK, problem, Statuses
  <2>2. PhasesAreBounded' /\ LbfgsIsUsable' /\ EndsAtUsablePoint'
    BY DEF PhasesAreBounded, LbfgsIsUsable, EndsAtUsablePoint, Usable, problem
  <2>3. BestIsACandidate' /\ BestOfRestarts'
    BY DEF BestIsACandidate, BestOfRestarts
  <2> QED BY <2>1, <2>2, <2>3
<1>4. CASE LbfgsMoves
  <2> USE <1>4 DEF LbfgsMoves
  <2>1. PICK p \in Points : Accepts(p) /\ x' = p /\ prev' = f[p] /\ n' = n + 1 /\ t' = t - 1
    OBVIOUS
  <2>2. FitTypeOK'
    <3>1. f[p] \in Values /\ n' \in Nat
      BY <2>1 DEF FitTypeOK
    <3>2. t' \in 0 .. MaxIter
      BY <2>1, ConfigAssumption DEF FitTypeOK, PhasesAreBounded
    <3> QED BY <2>1, <3>1, <3>2 DEF FitTypeOK, problem, Statuses
  <2>3. PhasesAreBounded' /\ LbfgsIsUsable' /\ EndsAtUsablePoint'
    BY <2>1 DEF PhasesAreBounded, LbfgsIsUsable, EndsAtUsablePoint, Accepts, Usable, problem, FitTypeOK
  <2>4. BestIsACandidate' /\ BestOfRestarts'
    BY DEF BestIsACandidate, BestOfRestarts
  <2> QED BY <2>2, <2>3, <2>4
<1> QED BY <1>1, <1>2, <1>3, <1>4

\* A candidate displaces the best one only if it is below it.
LEMMA ReportPreserves == ASSUME FitInv, ReportFit PROVE FitInv'
<1> USE DEF FitInv, ReportFit
<1>1. PICK v \in Values :
          /\ best' = IF Improves(v) THEN [objective |-> v, status |-> status] ELSE best
          /\ finals' = finals \cup {v}
  OBVIOUS
<1>2. FitTypeOK'
  BY <1>1 DEF FitTypeOK, problem, Statuses
<1>3. PhasesAreBounded' /\ LbfgsIsUsable' /\ EndsAtUsablePoint'
  BY DEF PhasesAreBounded, LbfgsIsUsable, EndsAtUsablePoint
<1>4. BestIsACandidate'
  BY <1>1 DEF FitTypeOK, BestIsACandidate, Improves, Statuses
<1>5. BestOfRestarts'
  <2>1. v \in Nat /\ best.objective \in Nat /\ \A w \in finals : w \in Nat
    BY ConfigAssumption DEF FitTypeOK, Values, NaN
  <2>2. CASE best.status = "none"
    BY <1>1, <2>1, <2>2 DEF BestOfRestarts, BestIsACandidate, Improves, Less
  <2>3. CASE best.status # "none" /\ Less(v, best.objective)
    BY <1>1, <2>1, <2>3 DEF BestOfRestarts, Improves, Less
  <2>4. CASE best.status # "none" /\ ~Less(v, best.objective)
    BY <1>1, <2>4 DEF BestOfRestarts, Improves
  <2> QED BY <2>2, <2>3, <2>4
<1> QED BY <1>2, <1>3, <1>4, <1>5

\* Every step
LEMMA NextFitInv == FitInv /\ [FitNext]_fitVars => FitInv'
<1>1. ASSUME FitInv, UNCHANGED fitVars PROVE FitInv'
  BY <1>1 DEF fitVars, FitInv, FitTypeOK, PhasesAreBounded, LbfgsIsUsable, EndsAtUsablePoint, Usable,
              BestIsACandidate, BestOfRestarts, AdamIterations
<1> QED BY <1>1, RestartPreserves, AdamPreserves, LbfgsPreserves, ReportPreserves DEF FitNext

\* The invariant holds of every behaviour.
LEMMA FitInvariance == FitSpec => []FitInv
BY InitFitInv, NextFitInv, PTL DEF FitSpec

-----------------------------------------------------------------------------
\* The restarts, iterations and values stay within their bounds.
THEOREM FitTypes == FitSpec => []FitTypeOK
BY FitInvariance, PTL DEF FitInv

\* A restart that ends with L-BFGS, or says that it converged, ends where the
\* objective and its gradient are finite, unless it reports nan_or_inf.
THEOREM RestartsEndUsably == FitSpec => []EndsAtUsablePoint
BY FitInvariance, PTL DEF FitInv

\* No candidate of any restart is below the fit returned, which may be NaN itself.
THEOREM ReturnedIsBest == FitSpec => []BestOfRestarts
BY FitInvariance, PTL DEF FitInv
=============================================================================
