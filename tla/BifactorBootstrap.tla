-------------------------- MODULE BifactorBootstrap --------------------------
(***************************************************************************)
(* One run of run_bifactor_bootstrap                                       *)
(* (python/fast_mlsirm/bifactor_bootstrap.py): replicates are refitted in  *)
(* batches, each batch by a pool of threads; between batches the compute   *)
(* budget and the Monte Carlo stopping rule may end the run.               *)
(*                                                                         *)
(* Whether a replicate converges is decided by its seed, hence fixed.  The *)
(* interval endpoints are a function of the converged replicates: the same *)
(* replicates have the same endpoints, and otherwise the movement is left  *)
(* open.                                                                   *)
(*                                                                         *)
(* Left out: validation, resampling, fitting, and the summaries.           *)
(***************************************************************************)
EXTENDS Naturals, FiniteSets

CONSTANTS
    Requested,  \* n_replicates
    BatchSize,  \* batch_size
    Jobs,       \* n_jobs, resolved
    Stopping    \* mc_stopping_ratio > 0

ASSUME ArgumentsAssumption ==
    /\ Requested \in Nat \ {0} /\ BatchSize \in Nat \ {0} /\ Jobs \in Nat \ {0}
    /\ Stopping \in BOOLEAN

Replicates == 1 .. Requested

VARIABLES
    fate,       \* whether each replicate converges
    results,    \* results[b]: what was stored for replicate b
    batch,      \* replicates of the batch under way
    pending,    \* those whose future has not completed
    completed,  \* completed_reps
    batches,    \* batches_completed
    endpoints,  \* the converged replicates of the previous check; {} before one
    expired,    \* the compute budget is used up
    stopped,    \* stopped_early
    outcome     \* "running", "returned" or "raised"

vars == <<fate, results, batch, pending, completed, batches, endpoints, expired, stopped, outcome>>

Flag(b) == IF fate[b] THEN "converged" ELSE "failed"

NextBatch == {b \in Replicates : completed < b /\ b <= completed + BatchSize}

Converged == {b \in 1 .. completed : results[b] = "converged"}

Init ==
    /\ fate \in [Replicates -> BOOLEAN]
    /\ results = [b \in Replicates |-> "none"]
    /\ batch = {} /\ pending = {} /\ completed = 0 /\ batches = 0
    /\ endpoints = {} /\ expired = FALSE /\ stopped = FALSE /\ outcome = "running"

-----------------------------------------------------------------------------

Begin ==
    /\ outcome = "running" /\ batch = {} /\ completed < Requested /\ ~stopped
    /\ ~expired
    /\ batch' = NextBatch /\ pending' = NextBatch
    /\ UNCHANGED <<fate, results, completed, batches, endpoints, expired, stopped, outcome>>

\* A replicate is done.  One worker, or a batch of one, runs them in order.
Finish(b) ==
    /\ b \in pending
    /\ Jobs = 1 => \A other \in pending : b <= other
    /\ pending' = pending \ {b}
    /\ results' = [results EXCEPT ![b] = Flag(b)]
    /\ UNCHANGED <<fate, batch, completed, batches, endpoints, expired, stopped, outcome>>

\* _endpoint_movement < mc_stopping_ratio, from the converged replicates of the
\* previous check to those of this one.
MovementSmall(before, now) ==
    IF before = now THEN {TRUE} ELSE BOOLEAN

\* The rule is looked at from the second batch on, and not after the last.
Checks == Stopping /\ batches' >= 2 /\ completed' < Requested

\* The batch is done: count it and apply the stopping rule.
EndBatch ==
    /\ batch # {} /\ pending = {}
    /\ completed' = completed + Cardinality(batch)
    /\ batches' = batches + 1
    /\ batch' = {}
    /\ LET now == {b \in 1 .. completed' : results[b] = "converged"}
       IN  IF Checks /\ now # {}
           THEN /\ IF endpoints # {} THEN stopped' \in MovementSmall(endpoints, now)
                                     ELSE UNCHANGED stopped
                /\ endpoints' = IF stopped' THEN endpoints ELSE now
           ELSE UNCHANGED <<stopped, endpoints>>
    /\ UNCHANGED <<fate, results, pending, expired, outcome>>

\* (fault: replicates that failed are summarised with the others)
ConcludeFromAny ==
    /\ outcome = "running" /\ batch = {}
    /\ completed = Requested \/ stopped \/ expired
    /\ outcome' = IF completed = 0 THEN "raised" ELSE "returned"
    /\ UNCHANGED <<fate, results, batch, pending, completed, batches, endpoints, expired, stopped>>

Conclude ==
    /\ outcome = "running" /\ batch = {}
    /\ completed = Requested \/ stopped \/ expired
    /\ outcome' = IF Converged = {} THEN "raised" ELSE "returned"
    /\ UNCHANGED <<fate, results, batch, pending, completed, batches, endpoints, expired, stopped>>

Expire ==
    /\ ~expired /\ expired' = TRUE
    /\ UNCHANGED <<fate, results, batch, pending, completed, batches, endpoints, stopped, outcome>>

Next == Begin \/ EndBatch \/ Conclude \/ Expire \/ \E b \in Replicates : Finish(b)

Spec == Init /\ [][Next]_vars

\* The replicates terminate and the calling thread is scheduled.
Fairness ==
    WF_vars(Begin \/ EndBatch \/ Conclude \/ \E b \in Replicates : Finish(b))

FairSpec == Spec /\ Fairness

-----------------------------------------------------------------------------
(* Properties *)

TypeOK ==
    /\ fate \in [Replicates -> BOOLEAN]
    /\ results \in [Replicates -> {"none", "converged", "failed"}]
    /\ batch \subseteq Replicates /\ pending \subseteq batch
    /\ completed \in 0 .. Requested /\ batches \in 0 .. Requested
    /\ endpoints \subseteq Replicates
    /\ expired \in BOOLEAN /\ stopped \in BOOLEAN
    /\ outcome \in {"running", "returned", "raised"}

\* A run is summarised from at least one converged replicate, and refused when
\* every replicate it completed failed.  Only the budget and the stopping rule end
\* it short; stopped_early says that replicates were spared and that the rule had
\* two checks to compare.
EndsTruthfully ==
    outcome # "running" =>
        /\ outcome = "returned" <=> \E b \in 1 .. completed : fate[b]
        /\ stopped => completed < Requested /\ batches >= 3 /\ endpoints # {}
        /\ completed < Requested /\ ~expired => stopped

=============================================================================
