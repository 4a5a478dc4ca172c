----------------------------- MODULE FormAssembly -----------------------------
(***************************************************************************)
(* assemble_to_target (python/fast_mlsirm/ata.py): a form of a given       *)
(* length is assembled one item at a time, under minimum and maximum       *)
(* numbers of items of each content, exclusions and exposure limits.       *)
(*                                                                         *)
(* Which candidate brings the form nearest to the target is a matter of    *)
(* the information matrix and, between equals, of the generator: any       *)
(* candidate may be chosen.  Left out: the argument checks that are about  *)
(* types, the target curve and the shortfall.                              *)
(***************************************************************************)
EXTENDS Integers, FiniteSets, FiniteSetsExt

CONSTANTS
    Pool,       \* the items of the bank
    Content,    \* content: the label of each item
    Labels,     \* labels a constraint may name, those of no item too
    Orders      \* the requests a caller may come with: length, minimum and
                \*     maximum per label, excluded items, and usage counts with
                \*     their limit

ASSUME AssemblyAssumption ==
    /\ IsFiniteSet(Pool) /\ IsFiniteSet(Labels) /\ \A i \in Pool : Content[i] \in Labels
    /\ \A order \in Orders :
           /\ order.length \in Nat /\ order.excluded \subseteq Pool
           /\ order.minimum \in [Labels -> Nat] /\ order.maximum \in [Labels -> Nat]

VARIABLES
    assembly,   \* "idle", "selecting", "assembled" or "refused"
    order,      \* the request
    form        \* the items selected so far

assemblyVars == <<assembly, order, form>>

\* The checks that end the call before anything is selected.
OrderAdmitted(o) ==
    /\ 1 <= o.length /\ o.length <= Cardinality(Pool)
    /\ \A l \in Labels : o.minimum[l] <= o.maximum[l]

AssemblyInit ==
    /\ order \in Orders /\ form = {}
    /\ assembly = IF OrderAdmitted(order) THEN "selecting" ELSE "refused"

Counted(l, items) == Cardinality({i \in items : Content[i] = l})

\* Prior use reaches the limit; a limit of 0 leaves no item.
Overexposed(i) == order.limited /\ order.used[i] >= order.exposureMax

Eligible ==
    {i \in Pool \ (form \cup order.excluded) :
        ~Overexposed(i) /\ Counted(Content[i], form) < order.maximum[Content[i]]}

Needed(l, items) ==
    IF Counted(l, items) < order.minimum[l] THEN order.minimum[l] - Counted(l, items) ELSE 0

\* (fault: only the supply of each content is looked at)
SupplyLeft(items, rest) ==
    \A l \in Labels : Counted(l, rest) >= Needed(l, items)

\* _content_feasible
ContentFeasible(items, rest) ==
    /\ MapThenSumSet(LAMBDA l : Needed(l, items), Labels) <= order.length - Cardinality(items)
    /\ \A l \in Labels : Counted(l, rest) >= Needed(l, items)

Candidates == {i \in Eligible : ContentFeasible(form \cup {i}, Eligible \ {i})}

Choose ==
    /\ assembly = "selecting" /\ Cardinality(form) < order.length
    /\ \E i \in Candidates : form' = form \cup {i}
    /\ UNCHANGED <<assembly, order>>

Refuse ==
    /\ assembly = "selecting" /\ Cardinality(form) < order.length /\ Candidates = {}
    /\ assembly' = "refused"
    /\ UNCHANGED <<order, form>>

\* The minimums are checked once more on the whole form.
Deliver ==
    /\ assembly = "selecting" /\ Cardinality(form) = order.length
    /\ assembly' = IF \A l \in Labels : Needed(l, form) = 0 THEN "assembled" ELSE "refused"
    /\ UNCHANGED <<order, form>>

AssemblyNext == Choose \/ Refuse \/ Deliver

AssemblySpec == AssemblyInit /\ [][AssemblyNext]_assemblyVars

-----------------------------------------------------------------------------
(* Properties *)

\* A form that meets every constraint of the request.
Acceptable(items) ==
    /\ Cardinality(items) = order.length
    /\ \A l \in Labels :
           Counted(l, items) \in order.minimum[l] .. order.maximum[l]
    /\ \A i \in items : i \notin order.excluded /\ ~Overexposed(i)

\* The greedy selection never paints itself into a corner: whatever it chooses on
\* the way, it ends with a form that meets the constraints, and it refuses only
\* when there is no such form ("if no form satisfying the constraints can be
\* assembled"), or when an empty form is asked for.
RefusesOnlyTheImpossible ==
    /\ assembly = "assembled" => Acceptable(form)
    /\ assembly = "refused" /\ order.length > 0 => ~\E items \in SUBSET Pool : Acceptable(items)

=============================================================================
