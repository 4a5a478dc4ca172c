------------------------------- MODULE JmleFit -------------------------------
(***************************************************************************)
(* A joint-maximum-likelihood fit: the restart loop of fit                 *)
(* (python/fast_mlsirm/fit.py) around the Rust optimizers adam, lbfgs and  *)
(* run_optimizer (crates/mlsirm-core/src/jmle_opt.rs).                     *)
(*                                                                         *)
(* A parameter vector is a member of Points and the objective is a         *)
(* function of it, unknown but fixed.  Its values are compared as IEEE     *)
(* doubles are: the numbers below Inf are finite, and every comparison     *)
(* with NaN is false.  Where an update or a line search goes is left open. *)
(*                                                                         *)
(* Left out: the other estimators, moments, curvature pairs and search     *)
(* directions, and the likelihood trace, which follows the objective's.    *)
(***************************************************************************)
EXTENDS Naturals

CONSTANTS
    Points,     \* packed parameter vectors
    Levels,     \* number of finite objective values told apart
    MaxIter,    \* config.max_iter
    Restarts    \* config.n_restarts

ASSUME ConfigAssumption ==
    MaxIter \in Nat \ {0} /\ Restarts \in Nat \ {0} /\ Levels \in Nat \ {0}

Inf    == Levels
NaN    == Levels + 1
Values == 0 .. NaN

Finite(v)      == v < Inf
Less(v, w)     == v # NaN /\ w # NaN /\ v < w
AtMost(v, w)   == v # NaN /\ w # NaN /\ v <= w

\* How the optimizers end, and the error of an inadmissible start.
Statuses == {"max_iter_reached", "converged", "nan_or_inf", "line_search_failed"}

VARIABLES
    optimizer,  \* config.optimizer
    f,          \* the objective
    rough,      \* points whose gradient is not finite
    overflowed, \* points with a coordinate that is not finite
    restart,    \* restarts begun
    pc,         \* "restart", "adam", "lbfgs_start", "lbfgs", "report", "returned", "raised"
    x,          \* current point of this restart
    prev,       \* the last objective value put in the trace of this phase
    t,          \* iterations of this phase
    n,          \* n_iter: entries of the trace
    status,
    best,       \* objective and status of the best candidate; status "none" before it
    finals      \* ghost: objectives of all candidates so far

fitVars == <<optimizer, f, rough, overflowed, restart, pc, x, prev, t, n, status, best, finals>>
problem == <<optimizer, f, rough, overflowed>>

Usable(p) == Finite(f[p]) /\ p \notin rough

AdamIterations ==
    IF optimizer = "adam" \/ MaxIter = 1 THEN MaxIter ELSE MaxIter \div 2

LbfgsIterations ==
    IF optimizer = "lbfgs" THEN MaxIter ELSE IF n < MaxIter THEN MaxIter - n ELSE 1

Optimizers == {"adam", "lbfgs", "adam_lbfgs"}

FitInit ==
    /\ optimizer \in Optimizers
    /\ f \in [Points -> Values] /\ rough \in SUBSET Points
    /\ overflowed \in SUBSET {p \in Points : ~Finite(f[p]) /\ p \in rough}
    /\ restart = 0 /\ pc = "restart"
    /\ x \in Points \ overflowed
    /\ prev = Inf /\ t = 0 /\ n = 0 /\ status = "max_iter_reached"
    /\ best = [objective |-> NaN, status |-> "none"]
    /\ finals = {}

-----------------------------------------------------------------------------

\* _initial_params of the next restart is finite, whatever the seed.
BeginRestart ==
    /\ pc = "restart" /\ restart < Restarts
    /\ restart' = restart + 1
    /\ x' \in Points \ overflowed
    /\ prev' = Inf /\ t' = 0 /\ n' = 0 /\ status' = "max_iter_reached"
    /\ pc' = IF optimizer = "lbfgs" THEN "lbfgs_start" ELSE "adam"
    /\ UNCHANGED <<problem, best, finals>>

AfterAdam == IF optimizer = "adam" THEN "report" ELSE "lbfgs_start"

AdamEnds(s) == status' = s /\ pc' = AfterAdam

\* One iteration of adam: evaluate, stop or move.  The point it moves to last
\* is returned without having been evaluated.
AdamBadValue ==
    /\ pc = "adam" /\ ~Usable(x)
    /\ AdamEnds("nan_or_inf")
    /\ UNCHANGED <<problem, restart, x, prev, t, n, best, finals>>

\* The relative change is below the tolerance: certainly when there is none.
AdamConverges ==
    /\ pc = "adam" /\ Usable(x) /\ t > 0
    /\ n' = n + 1 /\ t' = t + 1 /\ prev' = f[x]
    /\ AdamEnds("converged")
    /\ UNCHANGED <<problem, restart, x, best, finals>>

AdamMoves ==
    /\ pc = "adam" /\ Usable(x) /\ (t = 0 \/ prev # f[x])
    /\ n' = n + 1 /\ t' = t + 1 /\ prev' = f[x]
    /\ x' \in Points
    /\ IF t' < AdamIterations THEN UNCHANGED <<status, pc>> ELSE AdamEnds("max_iter_reached")
    /\ UNCHANGED <<problem, restart, best, finals>>

\* lbfgs refuses a point that is not finite, and the fit raises with it.
LbfgsRaises ==
    /\ pc = "lbfgs_start" /\ x \in overflowed
    /\ pc' = "raised"
    /\ UNCHANGED <<problem, restart, x, prev, t, n, status, best, finals>>

LbfgsBadStart ==
    /\ pc = "lbfgs_start" /\ x \notin overflowed /\ ~Usable(x)
    /\ pc' = "report" /\ status' = "nan_or_inf"
    /\ UNCHANGED <<problem, restart, x, prev, t, n, best, finals>>

\* The trace starts with the value at the start.  t' is set to what is left.
LbfgsStarts ==
    /\ pc = "lbfgs_start" /\ Usable(x)
    /\ prev' = f[x] /\ n' = n + 1
    /\ t' = LbfgsIterations
    /\ pc' = "lbfgs" /\ status' = "max_iter_reached"
    /\ UNCHANGED <<problem, restart, x, best, finals>>

LbfgsEnds(s) ==
    /\ pc = "lbfgs"
    /\ pc' = "report" /\ status' = s
    /\ UNCHANGED <<problem, restart, x, prev, t, n, best, finals>>

GradientSmall     == LbfgsEnds("converged")
LineSearchFails   == LbfgsEnds("line_search_failed")

\* (fault: the gradient of the candidate is not looked at)
AcceptsAnyGradient(p) == AtMost(f[p], f[x])

\* The Armijo condition, the slope being negative.
Accepts(p) == Usable(p) /\ AtMost(f[p], f[x])

\* The step taken: the last allowed, one with a negligible reduction, or any.
LbfgsMoves ==
    /\ pc = "lbfgs"
    /\ \E p \in Points :
        /\ Accepts(p)
        /\ x' = p /\ prev' = f[p] /\ n' = n + 1 /\ t' = t - 1
        /\ \/ pc' = "report" /\ status' = "converged"
           \/ /\ f[p] # f[x]
              /\ pc' = (IF t' > 0 THEN "lbfgs" ELSE "report") /\ UNCHANGED status
    /\ UNCHANGED <<problem, restart, best, finals>>

\* (fault: the comparison is the other way round)
KeepsHighest(v) == best.status = "none" \/ Less(best.objective, v)

Improves(v) == best.status = "none" \/ Less(v, best.objective)

\* The final objective is evaluated at the normalised point, where penalties
\* may differ but an overflow or a NaN does not go away.
ReportFit ==
    /\ pc = "report"
    /\ \E v \in Values :
        /\ Finite(v) <=> Finite(f[x])
        /\ f[x] = NaN => v = NaN
        /\ best' = IF Improves(v) THEN [objective |-> v, status |-> status] ELSE best
        /\ finals' = finals \cup {v}
    /\ pc' = IF restart = Restarts THEN "returned" ELSE "restart"
    /\ UNCHANGED <<problem, restart, x, prev, t, n, status>>

Adam  == AdamBadValue \/ AdamConverges \/ AdamMoves
Lbfgs == LbfgsRaises \/ LbfgsBadStart \/ LbfgsStarts \/ GradientSmall
         \/ LineSearchFails \/ LbfgsMoves

FitNext == BeginRestart \/ Adam \/ Lbfgs \/ ReportFit

FitSpec == FitInit /\ [][FitNext]_fitVars /\ WF_fitVars(FitNext)

-----------------------------------------------------------------------------
(* Properties *)

FitTypeOK ==
    /\ optimizer \in Optimizers
    /\ f \in [Points -> Values] /\ rough \subseteq Points /\ overflowed \subseteq Points
    /\ restart \in 0 .. Restarts
    /\ pc \in {"restart", "adam", "lbfgs_start", "lbfgs", "report", "returned", "raised"}
    /\ x \in Points /\ prev \in Values /\ t \in 0 .. MaxIter /\ n \in Nat
    /\ status \in Statuses
    /\ best \in [objective : Values, status : Statuses \cup {"none"}]
    /\ finals \subseteq Values

\* A restart that does not report nan_or_inf ends, if L-BFGS ran last, at a
\* point with a finite objective and gradient; one that reports convergence
\* always does.
EndsAtUsablePoint ==
    pc = "report" /\ status # "nan_or_inf" =>
        (optimizer # "adam" \/ status = "converged" => Usable(x))

\* The fit returned is at least as good as every other restart's, NaN aside.
BestOfRestarts ==
    best.status # "none" /\ best.objective # NaN =>
        \A v \in finals : ~Less(v, best.objective)

\* Line 213: a fit that cannot be found is an error, "Optimization failed to
\* find a valid fit": if some restart reached a finite objective, the fit
\* returned has one.
FindsValidFit ==
    pc = "returned" /\ (\E v \in finals : Finite(v)) => Finite(best.objective)
=============================================================================
