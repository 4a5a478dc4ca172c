---------------------------- MODULE ItemBankProofs ----------------------------
(***************************************************************************)
(* Theorems about the item bank, for every set of identifiers, artifacts,  *)
(* uses and packets and for every limit.                                   *)
(*                                                                         *)
(* The inductive invariant is Chained: every held lineage starts at pilot  *)
(* admission, each record but the first was made from the one before by a  *)
(* transition the gates allow, and evidence and scope only ever carry      *)
(* over.  The safety properties of ItemBank follow from it, and so does    *)
(* that every step of the item bank is, for ItemGovernance, an admission,  *)
(* a decision, or no change of the histories.                              *)
(***************************************************************************)
EXTENDS ItemBankRefinement, SequenceTheorems, FiniteSetTheorems, TLAPS

\* after was created from before by an accepted transition.
Link(before, after) ==
    \E target \in States, additions \in Packets, uses \in SUBSET Uses :
        /\ CanTransition(before, target, additions, uses)
        /\ after = Successor(before, target, additions, uses)

\* The first three records of a lineage are the only ones in their states.
Shaped(l) ==
    \A i \in 1..Len(l) : /\ l[i].state = "piloting"   <=> i = 1
                         /\ l[i].state = "calibrated" <=> i = 2
                         /\ l[i].state = "approved"   <=> i = 3

Linked(l) == \A i \in 1..(Len(l) - 1) : Link(l[i], l[i + 1])

Growing(l) ==
    \A i, j \in 1..Len(l) : i <= j => l[i].evidence \subseteq l[j].evidence

Consistent(l) == \A i \in 1..Len(l) : ConsistentIds(l[i].evidence)

Scoped(l) ==
    \A i, j \in 1..Len(l) : i <= j /\ l[i].uses # {} => l[j].uses = l[i].uses

Chained ==
    \A l \in held : Shaped(l) /\ Linked(l) /\ Growing(l) /\ Consistent(l) /\ Scoped(l)

IInv == TypeOK /\ Chained

-----------------------------------------------------------------------------
(* One step *)

\* A successor of a well-formed record is a well-formed record.
LEMMA SuccessorType ==
    ASSUME NEW record \in Record, NEW target \in States,
           NEW additions \in Packets, NEW uses \in SUBSET Uses
    PROVE  Successor(record, target, additions, uses) \in Record
<1>1. additions \subseteq Reference
  BY PacketsAssumption
<1>2. BoundConcerns(target, additions) \subseteq Concerns
  BY DEF BoundConcerns
<1>3. QED
  BY <1>1, <1>2 DEF Successor, Record

\* A lineage held after a step was held before it, is a new pilot record, or
\* extends a held lineage by one accepted transition.
LEMMA NewLineages ==
    ASSUME Next
    PROVE  \A l \in held' :
              \/ l \in held
              \/ l = <<PilotRecord>>
              \/ \E parent \in held, target \in States, additions \in Packets,
                    uses \in SUBSET Uses :
                    /\ CanTransition(Last(parent), target, additions, uses)
                    /\ l = Append(parent, Successor(Last(parent), target, additions, uses))
<1>1. CASE BuildPilotRecord
  BY <1>1 DEF BuildPilotRecord
<1>2. CASE \E lineage \in held, target \in States, additions \in Packets,
              uses \in SUBSET Uses, keep \in BOOLEAN :
                Transition(lineage, target, additions, uses, keep)
  BY <1>2 DEF Transition
<1>3. QED
  BY <1>1, <1>2 DEF Next

\* An accepted transition keeps the evidence, adds to it exactly what was
\* supplied, keeps identifiers consistent, and keeps a declared scope.
LEMMA LinkFacts ==
    ASSUME NEW before \in Record, NEW target \in States,
           NEW additions \in Packets, NEW uses \in SUBSET Uses,
           CanTransition(before, target, additions, uses),
           NEW after, after = Successor(before, target, additions, uses)
    PROVE  /\ after.state = target
           /\ before.evidence \subseteq after.evidence
           /\ after.evidence \ before.evidence = additions
           /\ ConsistentIds(after.evidence)
           /\ before.uses # {} => after.uses = before.uses
<1>1. /\ after.state = target
      /\ after.evidence = before.evidence \cup additions
      /\ after.uses = uses
  BY DEF Successor
<1>2. /\ additions \cap before.evidence = {}
      /\ ConsistentIds(before.evidence \cup additions)
      /\ before.uses # {} => uses = before.uses
  BY DEF CanTransition, Combinable, Normalizable, ScopeAllowed
<1>3. QED
  BY <1>1, <1>2

\* The state graph, as a relation between neighbouring states.
LEMMA StateGraph ==
    ASSUME NEW before \in Record, NEW target \in States,
           <<before.state, target>> \in AllowedTransitions
    PROVE  /\ target # "piloting"
           /\ target = "calibrated" <=> before.state = "piloting"
           /\ target = "approved" <=> before.state = "calibrated"
           /\ target = "active" => before.state \in {"approved", "suspended"}
           /\ target = "suspended" => before.state = "active"
           /\ target = "retired" => before.state \in {"active", "suspended"}
           /\ before.state = "approved" => target = "active"
BY DEF AllowedTransitions, States, Record

\* Extending a chained lineage by one accepted transition chains.
LEMMA AppendChains ==
    ASSUME NEW parent \in Lineage, parent[1] = PilotRecord,
           Shaped(parent), Linked(parent), Growing(parent),
           Consistent(parent), Scoped(parent),
           NEW target \in States, NEW additions \in Packets, NEW uses \in SUBSET Uses,
           CanTransition(Last(parent), target, additions, uses),
           NEW l, l = Append(parent, Successor(Last(parent), target, additions, uses))
    PROVE  /\ l \in Lineage /\ l[1] = PilotRecord
           /\ Shaped(l) /\ Linked(l) /\ Growing(l) /\ Consistent(l) /\ Scoped(l)
<1> DEFINE n == Len(parent)
           before == parent[n]
           after == Successor(before, target, additions, uses)
<1>1. /\ parent \in Seq(Record) /\ n = Len(parent) /\ n \in Nat /\ n >= 1
      /\ Last(parent) = before /\ before \in Record
  BY DEF Lineage, Last
<1>2. after \in Record
  BY <1>1, SuccessorType
<1>3. /\ l \in Seq(Record) /\ Len(l) = n + 1 /\ l # <<>>
      /\ l[n + 1] = after
      /\ \A i \in 1..n : l[i] = parent[i]
  BY <1>1, <1>2
<1>4. CanTransition(before, target, additions, uses)
  BY <1>1
<1>5. /\ after.state = target
      /\ before.evidence \subseteq after.evidence
      /\ ConsistentIds(after.evidence)
      /\ before.uses # {} => after.uses = before.uses
  BY <1>1, <1>4, LinkFacts
<1> HIDE DEF n, after
<1>6. Shaped(l)
  <2>1. <<before.state, target>> \in AllowedTransitions
    BY <1>4 DEF CanTransition
  <2>2. /\ target # "piloting"
        /\ target = "calibrated" <=> before.state = "piloting"
        /\ target = "approved" <=> before.state = "calibrated"
    BY <1>1, <2>1, StateGraph
  <2>3. /\ before.state = "piloting"   <=> n = 1
        /\ before.state = "calibrated" <=> n = 2
    <3>1. n \in 1..Len(parent)
      BY <1>1
    <3>2. QED
      BY <3>1 DEF Shaped
  <2>4. /\ l[n + 1].state = "piloting"   <=> n + 1 = 1
        /\ l[n + 1].state = "calibrated" <=> n + 1 = 2
        /\ l[n + 1].state = "approved"   <=> n + 1 = 3
    <3>1. l[n + 1].state = target
      BY <1>3, <1>5
    <3>2. n \in Nat /\ n >= 1
      BY <1>1
    <3>3. n + 1 # 1 /\ (n + 1 = 2 <=> n = 1) /\ (n + 1 = 3 <=> n = 2)
      BY <3>2
    <3>4. QED
      BY <3>1, <3>3, <2>2, <2>3
  <2>5. ASSUME NEW i \in 1..n
        PROVE  /\ l[i].state = "piloting"   <=> i = 1
               /\ l[i].state = "calibrated" <=> i = 2
               /\ l[i].state = "approved"   <=> i = 3
    BY <1>1, <1>3 DEF Shaped
  <2>6. QED
    BY <1>1, <1>3, <2>4, <2>5 DEF Shaped
<1>7. Linked(l)
  <2>1. Link(before, after)
    BY <1>4 DEF Link, after
  <2>2. ASSUME NEW i \in 1..(n - 1)
        PROVE  Link(l[i], l[i + 1])
    BY <1>1, <1>3 DEF Linked
  <2>3. Link(l[n], l[n + 1])
    BY <1>1, <1>3, <2>1
  <2>4. QED
    BY <1>1, <1>3, <2>2, <2>3 DEF Linked
<1>8. Growing(l)
  BY <1>1, <1>3, <1>5 DEF Growing
<1>9. Consistent(l)
  BY <1>1, <1>3, <1>5 DEF Consistent
<1>10. Scoped(l)
  BY <1>1, <1>3, <1>5 DEF Scoped
<1>11. QED
  BY <1>1, <1>3, <1>6, <1>7, <1>8, <1>9, <1>10 DEF Lineage

\* A pilot record alone is a chained lineage.
LEMMA PilotChains ==
    ASSUME NEW l, l = <<PilotRecord>>
    PROVE  /\ l \in Lineage /\ l[1] = PilotRecord
           /\ Shaped(l) /\ Linked(l) /\ Growing(l) /\ Consistent(l) /\ Scoped(l)
<1>1. PilotRecord \in Record
  BY DEF PilotRecord, Record, States
<1>2. l \in Seq(Record) /\ Len(l) = 1 /\ l[1] = PilotRecord /\ l # <<>>
  BY <1>1
<1>3. Shaped(l) /\ Linked(l) /\ Growing(l) /\ Scoped(l)
  BY <1>2 DEF Shaped, Linked, Growing, Scoped, PilotRecord
<1>4. Consistent(l)
  BY <1>2 DEF Consistent, ConsistentIds, PilotRecord
<1>5. QED
  BY <1>2, <1>3, <1>4 DEF Lineage

\* A step keeps the lineages well-formed.
LEMMA StepKeepsChains ==
    ASSUME IInv, [Next]_held
    PROVE  IInv'
<1>1. CASE UNCHANGED held
  BY <1>1 DEF IInv, TypeOK, Chained
<1>2. CASE Next
  <2>1. ASSUME NEW l \in held'
        PROVE  /\ l \in Lineage /\ l[1] = PilotRecord
               /\ Shaped(l) /\ Linked(l) /\ Growing(l) /\ Consistent(l) /\ Scoped(l)
    <3>1. CASE l \in held
      BY <3>1 DEF IInv, TypeOK, Chained
    <3>2. CASE l = <<PilotRecord>>
      BY <3>2, PilotChains
    <3>3. CASE \E parent \in held, target \in States, additions \in Packets,
                  uses \in SUBSET Uses :
                  /\ CanTransition(Last(parent), target, additions, uses)
                  /\ l = Append(parent, Successor(Last(parent), target, additions, uses))
      <4>1. PICK parent \in held, target \in States, additions \in Packets,
                 uses \in SUBSET Uses :
                  /\ CanTransition(Last(parent), target, additions, uses)
                  /\ l = Append(parent, Successor(Last(parent), target, additions, uses))
        BY <3>3
      <4>2. /\ parent \in Lineage /\ parent[1] = PilotRecord
            /\ Shaped(parent) /\ Linked(parent) /\ Growing(parent)
            /\ Consistent(parent) /\ Scoped(parent)
        BY DEF IInv, TypeOK, Chained
      <4>3. QED
        BY <4>1, <4>2, AppendChains
    <3>4. QED
      BY <1>2, <2>1, <3>1, <3>2, <3>3, NewLineages
  <2>2. QED
    BY <2>1 DEF IInv, TypeOK, Chained
<1>3. QED
  BY <1>1, <1>2

\* Type correctness and the chain of every held record, in every behaviour.
THEOREM ChainsInvariant == Spec => []IInv
<1>1. Init => IInv
  BY DEF Init, IInv, TypeOK, Chained
<1>2. IInv /\ [Next]_held => IInv'
  BY StepKeepsChains
<1>3. QED
  BY <1>1, <1>2, PTL DEF Spec

\* Every held record is a well-formed lineage that starts at pilot admission.
THEOREM TypeCorrectness == Spec => []TypeOK
<1>1. IInv => TypeOK
  BY DEF IInv
<1>2. QED
  BY <1>1, ChainsInvariant, PTL

-----------------------------------------------------------------------------
(* What the chain says of one lineage *)

\* Evidence only grows along a lineage and an identifier keeps its artifact.
THEOREM EvidenceAccumulation == Spec => []EvidenceAccumulates
<1>1. ASSUME IInv PROVE EvidenceAccumulates
  <2>1. SUFFICES ASSUME NEW l \in held, NEW i \in 1..Len(l), NEW j \in 1..Len(l), i < j
                 PROVE  /\ l[i].evidence \subseteq l[j].evidence
                        /\ ConsistentIds(l[i].evidence \cup l[j].evidence)
    BY DEF EvidenceAccumulates
  <2>2. l[i].evidence \subseteq l[j].evidence
    BY <1>1, <2>1 DEF IInv, Chained, Growing
  <2>3. ConsistentIds(l[j].evidence)
    BY <1>1 DEF IInv, Chained, Consistent
  <2>4. l[i].evidence \cup l[j].evidence = l[j].evidence
    BY <2>2
  <2>5. QED
    BY <2>2, <2>3, <2>4
<1>2. QED
  BY <1>1, ChainsInvariant, PTL

\* A declared scope is the scope of every later record.
THEOREM ScopeIsPermanent == Spec => []ScopeNeverChanges
<1>1. IInv => ScopeNeverChanges
  BY DEF IInv, Chained, Scoped, ScopeNeverChanges
<1>2. QED
  BY <1>1, ChainsInvariant, PTL

\* The transition behind a record, and what it supplied.
LEMMA StepOf ==
    ASSUME IInv, NEW l \in held, NEW i \in 2..Len(l)
    PROVE  /\ l[i - 1] \in Record /\ l[i] \in Record
           /\ Added(l, i) \in Packets
           /\ <<l[i - 1].state, l[i].state>> \in AllowedTransitions
           /\ Supplied(l[i - 1], l[i].state, KindsOf(Added(l, i)))
           /\ FreshOnReactivation(l[i - 1], l[i].state, Added(l, i))
           /\ l[i].concerns = BoundConcerns(l[i].state, Added(l, i))
           /\ l[i].evidence = l[i - 1].evidence \cup Added(l, i)
           /\ Added(l, i) \cap l[i - 1].evidence = {}
           /\ l[i].state \in ScopedStates => l[i].uses # {}
<1>1. l \in Seq(Record) /\ Linked(l)
  BY DEF IInv, TypeOK, Chained, Lineage
<1>2. i - 1 \in 1..(Len(l) - 1) /\ i - 1 \in 1..Len(l) /\ i \in 1..Len(l) /\ (i - 1) + 1 = i
  BY <1>1
<1>3. l[i - 1] \in Record /\ l[i] \in Record
  BY <1>1, <1>2
<1>4. Link(l[i - 1], l[i])
  BY <1>1, <1>2 DEF Linked
<1>5. PICK target \in States, additions \in Packets, uses \in SUBSET Uses :
         /\ CanTransition(l[i - 1], target, additions, uses)
         /\ l[i] = Successor(l[i - 1], target, additions, uses)
  BY <1>4 DEF Link
<1>6. l[i].state = target /\ Added(l, i) = additions
  BY <1>3, <1>5, LinkFacts DEF Added
<1>7. /\ l[i].concerns = BoundConcerns(target, additions)
      /\ l[i].evidence = l[i - 1].evidence \cup additions
      /\ l[i].uses = uses
  BY <1>5 DEF Successor
<1>8. /\ <<l[i - 1].state, target>> \in AllowedTransitions
      /\ Supplied(l[i - 1], target, KindsOf(additions))
      /\ FreshOnReactivation(l[i - 1], target, additions)
      /\ additions \cap l[i - 1].evidence = {}
      /\ target \in ScopedStates => uses # {}
  BY <1>5 DEF CanTransition, Combinable, ScopeAllowed
<1>9. QED
  BY <1>3, <1>5, <1>6, <1>7, <1>8

\* Use rests on measurement, on a DIF decision and on a later approval.
THEOREM UseIsEarned == Spec => []UseRestsOnEvidence
<1>1. ASSUME IInv PROVE UseRestsOnEvidence
  <2>1. SUFFICES ASSUME NEW l \in held, Last(l).state \in ScopedStates
                 PROVE  /\ Len(l) >= 3
                        /\ {"calibration", "item_fit", "item_information"}
                             \subseteq KindsOf(l[2].evidence)
                        /\ \E kind \in {"dif", "dif_not_applicable"} :
                              kind \in KindsOf(l[2].evidence)
                        /\ l[2].evidence \subseteq Last(l).evidence
                        /\ "approval" \in KindsOf(Added(l, 3))
    BY DEF UseRestsOnEvidence
  <2> DEFINE n == Len(l)
  <2>2. /\ n \in Nat /\ n >= 1 /\ n = Len(l) /\ Last(l) = l[n]
        /\ Shaped(l) /\ Growing(l)
    BY <1>1 DEF IInv, TypeOK, Chained, Lineage, Last
  <2> HIDE DEF n
  <2>3. n >= 3
    <3>1. l[n].state # "piloting" /\ l[n].state # "calibrated"
      BY <2>1, <2>2 DEF ScopedStates
    <3>2. n \in 1..Len(l)
      BY <2>2
    <3>3. n # 1 /\ n # 2
      BY <3>1, <3>2, <2>2 DEF Shaped
    <3>4. QED
      BY <3>3, <2>2
  <2>4. 2 \in 1..Len(l) /\ 3 \in 1..Len(l) /\ n \in 1..Len(l)
        /\ 2 \in 2..Len(l) /\ 3 \in 2..Len(l)
    BY <2>2, <2>3
  <2>5. l[2].state = "calibrated" /\ l[3].state = "approved"
    BY <2>2, <2>4 DEF Shaped
  <2>6. /\ Supplied(l[1], "calibrated", KindsOf(Added(l, 2)))
        /\ l[2].evidence = l[1].evidence \cup Added(l, 2)
    <3>1. /\ Supplied(l[2 - 1], l[2].state, KindsOf(Added(l, 2)))
          /\ l[2].evidence = l[2 - 1].evidence \cup Added(l, 2)
      BY <1>1, <2>4, StepOf
    <3>2. 2 - 1 = 1
      OBVIOUS
    <3>3. QED
      BY <3>1, <3>2, <2>5
  <2>7. KindsOf(Added(l, 2)) \subseteq KindsOf(l[2].evidence)
    BY <2>6 DEF KindsOf
  <2>8. /\ {"calibration", "item_fit", "item_information"} \subseteq KindsOf(l[2].evidence)
        /\ \E kind \in {"dif", "dif_not_applicable"} : kind \in KindsOf(l[2].evidence)
    BY <2>6, <2>7 DEF Supplied
  <2>9. "approval" \in KindsOf(Added(l, 3))
    BY <1>1, <2>4, <2>5, StepOf DEF Supplied
  <2>10. l[2].evidence \subseteq Last(l).evidence
    BY <2>2, <2>3, <2>4 DEF Growing
  <2>11. QED
    BY <2>2, <2>3, <2>8, <2>9, <2>10
<1>2. QED
  BY <1>1, ChainsInvariant, PTL

\* No artifact backs two authorisations of use along one lineage.
THEOREM ApprovalsAreSingleUse == Spec => []ApprovalsNeverReused
<1>1. ASSUME IInv PROVE ApprovalsNeverReused
  <2>1. SUFFICES ASSUME NEW l \in held, NEW i \in 2..Len(l), NEW j \in 2..Len(l),
                        i < j, Authorises(l, i), Authorises(l, j)
                 PROVE  /\ OfKind(Added(l, j), {"approval"}) # {}
                        /\ ArtifactsOf(OfKind(Added(l, i), {"approval"}))
                             \cap ArtifactsOf(OfKind(Added(l, j), {"approval"})) = {}
    BY <1>1 DEF ApprovalsNeverReused
  <2>2. Shaped(l) /\ Growing(l) /\ l \in Seq(Record)
    BY <1>1 DEF IInv, TypeOK, Chained, Lineage
  <2>3. /\ i \in 1..Len(l) /\ j \in 1..Len(l) /\ j - 1 \in 1..Len(l)
        /\ i <= j - 1 /\ j # 1
    BY <2>1, <2>2
  <2>4. l[j].state = "active" /\ l[j - 1].state = "suspended"
    <3>1. CASE l[j].state = "approved"
      <4>1. i = 2 /\ j = 3
        BY <2>1, <2>2, <2>3, <3>1 DEF Shaped
      <4>2. l[i].state = "calibrated"
        BY <2>2, <2>3, <4>1 DEF Shaped
      <4>3. QED
        BY <2>1, <4>2 DEF Authorises
    <3>2. QED
      BY <2>1, <3>1 DEF Authorises
  <2>5. /\ "approval" \in KindsOf(Added(l, j))
        /\ ArtifactsOf(OfKind(Added(l, j), {"approval"} \cup l[j - 1].concerns))
             \cap ArtifactsOf(l[j - 1].evidence) = {}
    BY <1>1, <2>1, <2>4, StepOf DEF Supplied, FreshOnReactivation
  <2>6. Added(l, i) \subseteq l[j - 1].evidence
    <3>1. Added(l, i) \subseteq l[i].evidence
      BY DEF Added
    <3>2. l[i].evidence \subseteq l[j - 1].evidence
      BY <2>2, <2>3 DEF Growing
    <3>3. QED
      BY <3>1, <3>2
  <2>7. OfKind(Added(l, j), {"approval"}) # {}
    BY <2>5 DEF KindsOf, OfKind
  <2>8. ArtifactsOf(OfKind(Added(l, i), {"approval"})) \subseteq ArtifactsOf(l[j - 1].evidence)
    BY <2>6 DEF ArtifactsOf, OfKind
  <2>9. ArtifactsOf(OfKind(Added(l, j), {"approval"}))
          \subseteq ArtifactsOf(OfKind(Added(l, j), {"approval"} \cup l[j - 1].concerns))
    BY DEF ArtifactsOf, OfKind
  <2>10. QED
    BY <2>5, <2>7, <2>8, <2>9
<1>2. QED
  BY <1>1, ChainsInvariant, PTL

\* Each concern that suspended an item is answered by other artifacts.
THEOREM ConcernsAreAnswered == Spec => []ConcernsAnsweredAfresh
<1>1. ASSUME IInv PROVE ConcernsAnsweredAfresh
  <2>1. SUFFICES ASSUME NEW l \in held, NEW i \in 2..(Len(l) - 1),
                        l[i].state = "suspended", l[i + 1].state = "active",
                        NEW kind \in KindsOf(Added(l, i)) \cap Concerns
                 PROVE  /\ OfKind(Added(l, i + 1), {kind}) # {}
                        /\ ArtifactsOf(OfKind(Added(l, i + 1), {kind}))
                             \cap ArtifactsOf(OfKind(Added(l, i), {kind})) = {}
    BY <1>1 DEF ConcernsAnsweredAfresh
  <2> DEFINE answer == Added(l, i + 1)
             concern == Added(l, i)
  <2>2. i \in 2..Len(l) /\ i + 1 \in 2..Len(l) /\ (i + 1) - 1 = i
    BY <1>1, <2>1 DEF IInv, TypeOK, Lineage
  <2>3. kind \in l[i].concerns /\ concern \subseteq l[i].evidence
    <3>1. /\ l[i].concerns = BoundConcerns(l[i].state, Added(l, i))
          /\ l[i].evidence = l[i - 1].evidence \cup Added(l, i)
      BY <1>1, <2>2, StepOf
    <3>2. QED
      BY <2>1, <3>1 DEF BoundConcerns
  <2>4. /\ Supplied(l[i], "active", KindsOf(answer))
        /\ FreshOnReactivation(l[i], "active", answer)
    <3>1. /\ Supplied(l[(i + 1) - 1], l[i + 1].state, KindsOf(answer))
          /\ FreshOnReactivation(l[(i + 1) - 1], l[i + 1].state, answer)
      BY <1>1, <2>2, StepOf
    <3>2. QED
      BY <2>1, <2>2, <3>1
  <2> HIDE DEF answer, concern
  <2>5. kind \in KindsOf(answer)
    BY <2>1, <2>3, <2>4 DEF Supplied
  <2>6. ArtifactsOf(OfKind(answer, {"approval"} \cup l[i].concerns))
          \cap ArtifactsOf(l[i].evidence) = {}
    BY <2>1, <2>4 DEF FreshOnReactivation
  <2>7. OfKind(answer, {kind}) # {}
    BY <2>5 DEF KindsOf, OfKind
  <2>8. ArtifactsOf(OfKind(answer, {kind}))
          \subseteq ArtifactsOf(OfKind(answer, {"approval"} \cup l[i].concerns))
    BY <2>3 DEF ArtifactsOf, OfKind
  <2>9. ArtifactsOf(OfKind(concern, {kind})) \subseteq ArtifactsOf(l[i].evidence)
    BY <2>3 DEF ArtifactsOf, OfKind
  <2>10. QED
    BY <2>6, <2>7, <2>8, <2>9 DEF answer, concern
<1>2. QED
  BY <1>1, ChainsInvariant, PTL

-----------------------------------------------------------------------------
(* The way out of use *)

\* A reference list below the limit does not name every identifier and artifact a
\* caller can come up with.
SomethingIsNew ==
    \A refs \in SUBSET Reference :
        IsFiniteSet(refs) /\ Cardinality(refs) < MaxEvidence =>
            /\ \E id \in Ids : \A ref \in refs : ref.id # id
            /\ \E artifact \in Artifacts : artifact \notin ArtifactsOf(refs)

EvidenceIsFinite == \A l \in held : \A i \in 1..Len(l) : IsFiniteSet(l[i].evidence)

\* A transition adds finitely many references.
LEMMA StepKeepsFinite ==
    ASSUME IInv, EvidenceIsFinite, [Next]_held
    PROVE  EvidenceIsFinite'
<1>1. CASE UNCHANGED held
  BY <1>1 DEF EvidenceIsFinite
<1>2. CASE Next
  <2>1. ASSUME NEW l \in held', NEW i \in 1..Len(l) PROVE IsFiniteSet(l[i].evidence)
    <3>1. CASE l \in held
      BY <3>1 DEF EvidenceIsFinite
    <3>2. CASE l = <<PilotRecord>>
      <4>1. l[i].evidence = {}
        BY <3>2 DEF PilotRecord
      <4>2. QED
        BY <4>1, FS_EmptySet
    <3>3. ASSUME NEW parent \in held, NEW target \in States, NEW additions \in Packets,
                 NEW uses \in SUBSET Uses,
                 l = Append(parent, Successor(Last(parent), target, additions, uses))
          PROVE  IsFiniteSet(l[i].evidence)
      <4>1. parent \in Seq(Record) /\ parent # <<>>
        BY DEF IInv, TypeOK, Lineage
      <4>2. Len(parent) \in 1..Len(parent) /\ Last(parent) = parent[Len(parent)]
        BY <4>1 DEF Last
      <4>3. IsFiniteSet(Last(parent).evidence) /\ IsFiniteSet(additions)
        BY <4>2, PacketsAssumption DEF EvidenceIsFinite
      <4>4. CASE i \in 1..Len(parent)
        BY <3>3, <4>1, <4>4 DEF EvidenceIsFinite
      <4>5. CASE i = Len(parent) + 1
        <5>1. l[i].evidence = Last(parent).evidence \cup additions
          BY <3>3, <4>1, <4>5 DEF Successor
        <5>2. QED
          BY <4>3, <5>1, FS_Union
      <4>6. QED
        BY <3>3, <4>1, <4>4, <4>5
    <3>4. QED
      BY <1>2, <3>1, <3>2, <3>3, NewLineages
  <2>2. QED
    BY <2>1 DEF EvidenceIsFinite
<1>3. QED
  BY <1>1, <1>2

\* References filed under some kinds are of these kinds.
LEMMA KindsOfFiled ==
    ASSUME NEW kinds, NEW id, NEW artifact
    PROVE  KindsOf(Filed(kinds, id, artifact)) = kinds
<1>1. ASSUME NEW kind \in kinds PROVE kind \in KindsOf(Filed(kinds, id, artifact))
  <2>1. [kind |-> kind, id |-> id, artifact |-> artifact] \in Filed(kinds, id, artifact)
    BY DEF Filed
  <2>2. [kind |-> kind, id |-> id, artifact |-> artifact].kind = kind
    OBVIOUS
  <2>3. QED
    BY <2>1, <2>2 DEF KindsOf
<1>2. ASSUME NEW ref \in Filed(kinds, id, artifact) PROVE ref.kind \in kinds
  BY DEF Filed
<1>3. QED
  BY <1>1, <1>2 DEF KindsOf

\* References filed under one new identifier and artifact, as many as there is
\* room for, can be added.
LEMMA FiledCombines ==
    ASSUME NEW evidence \in SUBSET Reference, IsFiniteSet(evidence), ConsistentIds(evidence),
           NEW kinds \in SUBSET Kinds, IsFiniteSet(kinds),
           Cardinality(evidence) + Cardinality(kinds) <= MaxEvidence,
           NEW id \in Ids, \A ref \in evidence : ref.id # id,
           NEW artifact \in Artifacts
    PROVE  Combinable(evidence, Filed(kinds, id, artifact))
<1> DEFINE additions == Filed(kinds, id, artifact)
<1>1. \A ref \in additions : ref.id = id /\ ref.artifact = artifact
  BY DEF Filed
<1>2. IsFiniteSet(additions) /\ Cardinality(additions) <= Cardinality(kinds)
  <2> DEFINE file == [kind \in kinds |-> [kind |-> kind, id |-> id, artifact |-> artifact]]
  <2>1. additions = {file[kind] : kind \in kinds}
    BY DEF Filed
  <2>2. file \in Surjection(kinds, additions)
    BY <2>1 DEF Surjection
  <2> HIDE DEF file, additions
  <2>3. QED
    BY <2>2, FS_Surjection
<1>3. ConsistentIds(additions) /\ ConsistentIds(evidence \cup additions)
  BY <1>1 DEF ConsistentIds
<1>4. additions \cap evidence = {}
  BY <1>1
<1> HIDE DEF additions
<1>5. /\ Cardinality(evidence) \in Nat /\ Cardinality(additions) \in Nat
      /\ Cardinality(kinds) \in Nat /\ MaxEvidence \in Nat
  BY <1>2, FS_CardinalityType, BoundsAssumption
<1>6. Cardinality(evidence \cup additions) <= MaxEvidence
  <2>1. Cardinality(evidence \cup additions)
           = Cardinality(evidence) + Cardinality(additions) - Cardinality(evidence \cap additions)
    BY <1>2, FS_Union
  <2>2. Cardinality(evidence \cap additions) = 0
    <3>1. evidence \cap additions = {}
      BY <1>4
    <3>2. QED
      BY <3>1, FS_EmptySet
  <2>3. QED
    BY <1>2, <1>5, <2>1, <2>2
<1>7. Combinable(evidence, additions)
  BY <1>2, <1>3, <1>4, <1>5, <1>6 DEF Combinable, Normalizable
<1>8. QED
  BY <1>7 DEF additions

\* There are seven concerns.
LEMMA ConcernsAreFinite == IsFiniteSet(Concerns)
<1>1. IsFiniteSet({}) /\ \A S, x : IsFiniteSet(S) => IsFiniteSet(S \cup {x})
  BY FS_EmptySet, FS_AddElement
<1>2. Concerns = (((((({} \cup {"dif"}) \cup {"drift"}) \cup {"exposure"}) \cup {"linking"})
                   \cup {"evidence_validity"}) \cup {"content_validity"}) \cup {"security_privacy"}
  BY DEF Concerns
<1>3. QED
  BY <1>1, <1>2

\* Whatever has been filed before, an item in use can be retired and a suspended
\* one reactivated, as long as there is room for what the gate asks for and
\* something new to name.
THEOREM ExitsStayOpen == ASSUME SomethingIsNew PROVE Spec => []ExitsOpenBelowLimit
<1>1. Spec => []EvidenceIsFinite
  <2>1. Init => EvidenceIsFinite
    BY DEF Init, EvidenceIsFinite
  <2>2. IInv /\ EvidenceIsFinite /\ [Next]_held => EvidenceIsFinite'
    BY StepKeepsFinite
  <2>3. QED
    BY <2>1, <2>2, ChainsInvariant, PTL DEF Spec
<1>2. ASSUME IInv, EvidenceIsFinite PROVE ExitsOpenBelowLimit
  <2>1. SUFFICES ASSUME NEW l \in held, NEW record, record = Last(l),
                        record.state \in {"active", "suspended"},
                        Cardinality(record.evidence) < MaxEvidence
                 PROVE  /\ CanRetire(record)
                        /\ record.state = "suspended"
                             /\ Cardinality(record.evidence) + Cardinality(record.concerns)
                                  < MaxEvidence
                             => CanReactivate(record)
    <3>1. ASSUME NEW l \in held, Last(l).state = "suspended",
                 Cardinality(Last(l).evidence) + Cardinality(Last(l).concerns) < MaxEvidence
          PROVE  Cardinality(Last(l).evidence) < MaxEvidence
      <4>1. Last(l) \in Record /\ Last(l) = l[Len(l)] /\ Len(l) \in 1..Len(l)
        BY <1>2 DEF IInv, TypeOK, Lineage, Last
      <4>2. IsFiniteSet(Last(l).evidence)
        BY <1>2, <4>1 DEF EvidenceIsFinite
      <4>3. IsFiniteSet(Last(l).concerns)
        <5>1. IsFiniteSet(Concerns)
          BY ConcernsAreFinite
        <5>2. QED
          BY <4>1, <5>1, FS_Subset DEF Record
      <4>4. QED
        BY <3>1, <4>2, <4>3, FS_CardinalityType, BoundsAssumption
    <3>2. QED
      BY <2>1, <3>1 DEF ExitsOpenBelowLimit
  <2> DEFINE n == Len(l)
  <2>2. /\ l \in Seq(Record) /\ n \in Nat \ {0} /\ record = l[n] /\ record \in Record
        /\ n \in 1..Len(l)
    BY <1>2, <2>1 DEF IInv, TypeOK, Lineage, Last
  <2>3. n \in 2..Len(l)
    BY <1>2, <2>1, <2>2 DEF IInv, Chained, Shaped
  <2>4. /\ record.evidence \in SUBSET Reference /\ IsFiniteSet(record.evidence)
        /\ ConsistentIds(record.evidence) /\ record.uses \in SUBSET Uses
        /\ record.concerns \in SUBSET Concerns
    BY <1>2, <2>2 DEF EvidenceIsFinite, IInv, Chained, Consistent, Record
  <2>5. /\ record.concerns = BoundConcerns(record.state, Added(l, n))
        /\ Supplied(l[n - 1], record.state, KindsOf(Added(l, n)))
        /\ record.uses # {}
    <3>1. /\ l[n].concerns = BoundConcerns(l[n].state, Added(l, n))
          /\ Supplied(l[n - 1], l[n].state, KindsOf(Added(l, n)))
          /\ l[n].state \in ScopedStates => l[n].uses # {}
      <4> HIDE DEF n
      <4>1. QED
        BY <1>2, <2>1, <2>3, StepOf
    <3>2. QED
      BY <2>1, <2>2, <3>1 DEF ScopedStates
  <2>6. PICK id \in Ids, artifact \in Artifacts :
           (\A ref \in record.evidence : ref.id # id) /\ artifact \notin ArtifactsOf(record.evidence)
    BY <2>1, <2>4 DEF SomethingIsNew
  <2>7. Cardinality(record.evidence) \in Nat /\ MaxEvidence \in Nat
    BY <2>4, FS_CardinalityType, BoundsAssumption
  <2>8. CanRetire(record)
    <3>1. Cardinality({"retirement"}) = 1 /\ IsFiniteSet({"retirement"})
      BY FS_Singleton
    <3>2. Combinable(record.evidence, Filed({"retirement"}, id, artifact))
      BY <2>1, <2>4, <2>6, <2>7, <3>1, FiledCombines DEF Kinds
    <3>3. KindsOf(Filed({"retirement"}, id, artifact)) = {"retirement"}
      BY KindsOfFiled
    <3>4. CanTransition(record, "retired", Filed({"retirement"}, id, artifact), record.uses)
      BY <2>1, <2>5, <3>2, <3>3 DEF CanTransition, AllowedTransitions, OneDifClass, Supplied,
                                    ScopeAllowed, FreshOnReactivation
    <3>5. QED
      BY <3>4 DEF CanRetire, CanLeave
  <2>9. ASSUME record.state = "suspended",
               Cardinality(record.evidence) + Cardinality(record.concerns) < MaxEvidence
        PROVE  CanReactivate(record)
    <3> DEFINE kinds == {"approval"} \cup record.concerns
               additions == Filed(kinds, id, artifact)
    <3>1. IsFiniteSet(record.concerns) /\ Cardinality(record.concerns) \in Nat
      BY <2>4, ConcernsAreFinite, FS_Subset, FS_CardinalityType
    <3>2. IsFiniteSet(kinds) /\ Cardinality(kinds) <= Cardinality(record.concerns) + 1
      <4>1. "approval" \notin record.concerns
        BY <2>4 DEF Concerns
      <4>2. kinds = record.concerns \cup {"approval"}
        OBVIOUS
      <4>3. /\ IsFiniteSet(record.concerns \cup {"approval"})
            /\ Cardinality(record.concerns \cup {"approval"}) = Cardinality(record.concerns) + 1
        BY <3>1, <4>1, FS_AddElement
      <4> HIDE DEF kinds
      <4>4. QED
        BY <3>1, <4>2, <4>3
    <3>3. kinds \in SUBSET Kinds
      BY <2>4 DEF Kinds
    <3>4. Cardinality(record.evidence) + Cardinality(kinds) <= MaxEvidence
      <4>1. Cardinality(kinds) \in Nat
        BY <3>2, FS_CardinalityType
      <4> HIDE DEF kinds
      <4>2. QED
        BY <2>7, <2>9, <3>1, <3>2, <4>1
    <3>5. KindsOf(additions) = kinds
      BY KindsOfFiled
    <3>6. \A wanted : ArtifactsOf(OfKind(additions, wanted)) \subseteq {artifact}
      BY DEF ArtifactsOf, OfKind, Filed
    <3>7. Combinable(record.evidence, additions)
      <4> HIDE DEF kinds
      <4>1. QED
        BY <2>4, <2>6, <3>2, <3>3, <3>4, FiledCombines
    <3>8. record.concerns # {}
      BY <2>5, <2>9 DEF BoundConcerns, Supplied
    <3>9. FreshOnReactivation(record, "active", additions)
      BY <2>6, <3>6 DEF FreshOnReactivation
    <3>10. Supplied(record, "active", KindsOf(additions)) /\ OneDifClass("active", KindsOf(additions))
      BY <2>9, <3>5, <3>8 DEF Supplied, OneDifClass
    <3>11. CanTransition(record, "active", additions, record.uses)
      BY <2>5, <2>9, <3>7, <3>9, <3>10 DEF CanTransition, AllowedTransitions, ScopeAllowed
    <3>12. QED
      BY <3>11 DEF CanReactivate, CanLeave
  <2>10. QED
    BY <2>8, <2>9
<1>3. QED
  BY <1>1, <1>2, ChainsInvariant, PTL

-----------------------------------------------------------------------------
(* The item bank implements ItemGovernance *)

\* The authorising approvals of a record are among its evidence.
LEMMA DecisionType ==
    ASSUME NEW l \in Lineage, NEW i \in 1..Len(l)
    PROVE  /\ DecisionAt(l, i) \in Governance!Decision
           /\ DecisionAt(l, i).signatures \subseteq ArtifactsOf(l[i].evidence)
<1>1. l[i] \in Record
  BY DEF Lineage
<1>2. ArtifactsOf(OfKind(Added(l, i), {"approval"})) \subseteq ArtifactsOf(l[i].evidence)
  BY DEF ArtifactsOf, OfKind, Added
<1>3. ArtifactsOf(l[i].evidence) \subseteq Artifacts
  BY <1>1 DEF ArtifactsOf, Record, Reference
<1>4. /\ DecisionAt(l, i).signatures \subseteq ArtifactsOf(l[i].evidence)
      /\ DecisionAt(l, i).state = l[i].state
      /\ DecisionAt(l, i).scope = l[i].uses
      /\ DecisionAt(l, i).open = l[i].concerns
  BY <1>2 DEF DecisionAt
<1>5. /\ l[i].state \in States /\ l[i].uses \in SUBSET Uses
      /\ l[i].concerns \in SUBSET Concerns
  BY <1>1 DEF Record
<1>6. DecisionAt(l, i) \in Governance!Decision
  BY <1>2, <1>3, <1>5 DEF DecisionAt, Governance!Decision, States
<1>7. QED
  BY <1>4, <1>6

\* The governance history of a lineage: one decision for each of its records.
LEMMA HistoryType ==
    ASSUME NEW l \in Lineage
    PROVE  /\ History(l) \in Seq(Governance!Decision)
           /\ Len(History(l)) = Len(l)
           /\ \A i \in 1..Len(l) : History(l)[i] = DecisionAt(l, i)
           /\ Last(History(l)) = DecisionAt(l, Len(l))
<1>1. l \in Seq(Record) /\ Len(l) \in Nat /\ Len(l) \in 1..Len(l)
  BY DEF Lineage
<1>2. \A i \in 1..Len(l) : DecisionAt(l, i) \in Governance!Decision
  BY DecisionType
<1>3. History(l) \in [1..Len(l) -> Governance!Decision]
  BY <1>2 DEF History
<1>4. History(l) \in Seq(Governance!Decision) /\ Len(History(l)) = Len(l)
  BY <1>1, <1>3, LenProperties, SeqDef
<1>5. \A i \in 1..Len(l) : History(l)[i] = DecisionAt(l, i)
  BY DEF History
<1>6. QED
  BY <1>1, <1>4, <1>5 DEF Last

\* Extending a lineage extends its history by one decision.
LEMMA HistoryAppend ==
    ASSUME NEW l \in Lineage, NEW record \in Record,
           NEW longer \in Lineage, longer = Append(l, record)
    PROVE  /\ Len(longer) = Len(l) + 1
           /\ History(longer) = Append(History(l), DecisionAt(longer, Len(l) + 1))
<1> DEFINE n == Len(l)
           D == Governance!Decision
<1>1. /\ l \in Seq(Record) /\ n \in Nat
      /\ Len(longer) = n + 1
      /\ longer[n + 1] = record
      /\ \A i \in 1..n : longer[i] = l[i]
  BY AppendProperties DEF Lineage
<1>2. n + 1 \in 1..Len(longer) /\ DecisionAt(longer, n + 1) \in D
  <2> HIDE DEF n
  <2>1. n + 1 \in 1..Len(longer)
    BY <1>1
  <2>2. QED
    BY <2>1, DecisionType
<1>3. ASSUME NEW i \in 1..n
      PROVE  DecisionAt(longer, i) = DecisionAt(l, i)
  <2>1. longer[i] = l[i] /\ (i > 1 => longer[i - 1] = l[i - 1])
    BY <1>1
  <2>2. QED
    BY <2>1, <1>1 DEF DecisionAt, Authorises, Added
<1> DEFINE h == Append(History(l), DecisionAt(longer, n + 1))
<1>4. /\ History(l) \in Seq(D) /\ Len(History(l)) = n
      /\ \A i \in 1..n : History(l)[i] = DecisionAt(l, i)
  BY HistoryType
<1>5. /\ h \in Seq(D) /\ Len(h) = n + 1
      /\ \A i \in 1..n : h[i] = DecisionAt(l, i)
      /\ h[n + 1] = DecisionAt(longer, n + 1)
  BY <1>2, <1>4, AppendProperties
<1>6. /\ History(longer) \in Seq(D) /\ Len(History(longer)) = n + 1
      /\ \A i \in 1..(n + 1) : History(longer)[i] = DecisionAt(longer, i)
  BY <1>1, HistoryType
<1> HIDE DEF h, D, n
<1>7. \A i \in 1..(n + 1) : History(longer)[i] = h[i]
  BY <1>1, <1>3, <1>5, <1>6
<1>8. History(longer) = h
  BY <1>5, <1>6, <1>7, SeqEqual
<1>9. QED
  BY <1>1, <1>8 DEF h, n

\* Signatures spent along a lineage are artifacts its last record knows, and
\* none is spent before approval.
LEMMA SpentIsKnown ==
    ASSUME NEW l \in Lineage, Shaped(l), Growing(l)
    PROVE  /\ Governance!Spent(History(l)) \subseteq ArtifactsOf(l[Len(l)].evidence)
           /\ Len(l) = 2 => Governance!Spent(History(l)) = {}
<1>1. /\ l \in Seq(Record) /\ Len(l) \in Nat /\ Len(l) \in 1..Len(l)
      /\ Len(History(l)) = Len(l)
      /\ \A i \in 1..Len(l) : History(l)[i] = DecisionAt(l, i)
  BY HistoryType DEF Lineage
<1>2. Governance!Spent(History(l)) = UNION {DecisionAt(l, i).signatures : i \in 1..Len(l)}
  BY <1>1 DEF Governance!Spent
<1>3. ASSUME NEW i \in 1..Len(l)
      PROVE  DecisionAt(l, i).signatures \subseteq ArtifactsOf(l[Len(l)].evidence)
  <2>1. DecisionAt(l, i).signatures \subseteq ArtifactsOf(l[i].evidence)
    BY DecisionType
  <2>2. l[i].evidence \subseteq l[Len(l)].evidence
    BY <1>1 DEF Growing
  <2>3. QED
    BY <2>1, <2>2 DEF ArtifactsOf
<1>4. ASSUME Len(l) = 2, NEW i \in 1..Len(l)
      PROVE  DecisionAt(l, i).signatures = {}
  <2>1. CASE i = 1
    BY <2>1 DEF DecisionAt
  <2>2. CASE i = 2
    <3>1. l[2].state = "calibrated"
      BY <1>4, <2>2 DEF Shaped
    <3>2. ~Authorises(l, i)
      BY <2>2, <3>1 DEF Authorises
    <3>3. QED
      BY <3>2 DEF DecisionAt
  <2>3. QED
    BY <1>4, <2>1, <2>2
<1>5. QED
  BY <1>2, <1>3, <1>4

\* An accepted transition is a decision that may follow the history.
LEMMA TransitionDecides ==
    ASSUME NEW parent \in Lineage, parent[1] = PilotRecord,
           Shaped(parent), Linked(parent), Growing(parent),
           Consistent(parent), Scoped(parent),
           NEW target \in States, NEW additions \in Packets, NEW uses \in SUBSET Uses,
           CanTransition(Last(parent), target, additions, uses),
           NEW l, l = Append(parent, Successor(Last(parent), target, additions, uses))
    PROVE  /\ History(l) = Append(History(parent), Last(History(l)))
           /\ Last(History(l)) \in Governance!Decision
           /\ Governance!Decide(History(parent), Last(History(l)))
<1> DEFINE n == Len(parent)
           before == parent[n]
           after == Successor(before, target, additions, uses)
           decision == DecisionAt(l, n + 1)
           earlier == DecisionAt(parent, n)
<1>1. /\ parent \in Seq(Record) /\ n = Len(parent) /\ n \in Nat /\ n >= 1
      /\ n \in 1..Len(parent) /\ Last(parent) = before /\ before \in Record
  BY DEF Lineage, Last
<1>2. /\ CanTransition(before, target, additions, uses)
      /\ after \in Record /\ l = Append(parent, after)
  BY <1>1, SuccessorType
<1>3. l \in Lineage
  BY AppendChains
<1>4. /\ Len(l) = n + 1 /\ n + 1 \in 1..Len(l)
      /\ History(l) = Append(History(parent), decision)
      /\ Last(History(l)) = decision
      /\ decision \in Governance!Decision
      /\ l[n + 1] = after /\ l[n] = before
  <2>1. /\ Len(l) = n + 1
        /\ History(l) = Append(History(parent), decision)
    BY <1>2, <1>3, HistoryAppend
  <2>2. l[n + 1] = after /\ l[n] = before
    BY <1>1, <1>2, AppendProperties
  <2>3. n + 1 \in 1..Len(l)
    <3> HIDE DEF n
    <3>1. QED
      BY <1>1, <2>1
  <2>4. decision \in Governance!Decision
    BY <1>3, <2>3, DecisionType
  <2>5. Last(History(l)) = decision
    BY <1>3, <2>1, HistoryType
  <2>6. QED
    BY <2>1, <2>2, <2>3, <2>4, <2>5
<1>5. Governance!Last(History(parent)) = earlier
  BY HistoryType DEF Governance!Last, Last
<1>6. /\ earlier.state = before.state /\ earlier.scope = before.uses
      /\ decision.state = target /\ decision.scope = uses
      /\ decision.open = BoundConcerns(target, additions)
  BY <1>4 DEF DecisionAt, Successor
<1>7. /\ <<before.state, target>> \in AllowedTransitions
      /\ Supplied(before, target, KindsOf(additions))
      /\ ScopeAllowed(before, target, uses)
      /\ FreshOnReactivation(before, target, additions)
      /\ additions \cap before.evidence = {}
  BY <1>2 DEF CanTransition, Combinable
<1>8. Added(l, n + 1) = additions
  <2>1. (n + 1) - 1 = n
    BY <1>1
  <2>2. after.evidence \ before.evidence = additions
    BY <1>1, <1>2, LinkFacts
  <2>3. QED
    BY <1>4, <2>1, <2>2 DEF Added
<1>9. Authorises(l, n + 1) <=> \/ target = "approved"
                               \/ target = "active" /\ before.state = "suspended"
  <2>1. (n + 1) - 1 = n
    BY <1>1
  <2>2. l[n + 1].state = target
    BY <1>4 DEF Successor
  <2>3. QED
    BY <1>4, <2>1, <2>2 DEF Authorises
<1>10. decision.signatures = IF Authorises(l, n + 1)
                             THEN ArtifactsOf(OfKind(additions, {"approval"}))
                             ELSE {}
  BY <1>1, <1>8 DEF DecisionAt
<1>11. /\ Governance!Spent(History(parent)) \subseteq ArtifactsOf(before.evidence)
       /\ n = 2 => Governance!Spent(History(parent)) = {}
  BY <1>1, SpentIsKnown
<1>12. before.state = "calibrated" => n = 2
  BY <1>1 DEF Shaped
<1> HIDE DEF n, before, after, decision, earlier
<1>13. Governance!Follows(earlier, decision)
  BY <1>6, <1>7 DEF Governance!Follows, Governance!InUse, AllowedTransitions
<1>14. /\ earlier.scope # {} => decision.scope = earlier.scope
       /\ decision.state \notin {"piloting", "calibrated"} => decision.scope # {}
  BY <1>6, <1>7 DEF ScopeAllowed, ScopedStates, States
<1>15. decision.open # {} <=> decision.state = "suspended"
  BY <1>6, <1>7 DEF BoundConcerns, Supplied
<1>16. Governance!PutsInUse(earlier, decision) <=> Authorises(l, n + 1)
  BY <1>6, <1>9 DEF Governance!PutsInUse
<1>17. ASSUME Authorises(l, n + 1)
       PROVE  /\ decision.signatures # {}
              /\ decision.signatures \cap Governance!Spent(History(parent)) = {}
  <2>1. decision.signatures = ArtifactsOf(OfKind(additions, {"approval"}))
    BY <1>10, <1>17
  <2>2. "approval" \in KindsOf(additions)
    BY <1>7, <1>9, <1>17 DEF Supplied
  <2>3. decision.signatures # {}
    BY <2>1, <2>2 DEF KindsOf, OfKind, ArtifactsOf
  <2>4. CASE target = "approved"
    BY <1>7, <1>11, <1>12, <2>3, <2>4 DEF AllowedTransitions
  <2>5. CASE target = "active" /\ before.state = "suspended"
    <3>1. ArtifactsOf(OfKind(additions, {"approval"} \cup before.concerns))
            \cap ArtifactsOf(before.evidence) = {}
      BY <1>7, <2>5 DEF FreshOnReactivation
    <3>2. decision.signatures
            \subseteq ArtifactsOf(OfKind(additions, {"approval"} \cup before.concerns))
      BY <2>1 DEF ArtifactsOf, OfKind
    <3>3. QED
      BY <1>11, <2>3, <3>1, <3>2
  <2>6. QED
    BY <1>9, <1>17, <2>4, <2>5
<1>18. Governance!Decide(History(parent), decision)
  BY <1>5, <1>10, <1>13, <1>14, <1>15, <1>16, <1>17 DEF Governance!Decide
<1>19. QED
  BY <1>4, <1>18

\* The abstract variable.
Histories == {History(l) : l \in held}

\* Every step of the item bank is a step of the governance specification or
\* leaves its histories alone.
LEMMA StepImplements ==
    ASSUME IInv, [Next]_held
    PROVE  [Governance!Next]_Histories
<1>1. CASE UNCHANGED held
  BY <1>1 DEF Histories
<1>2. CASE BuildPilotRecord
  <2>1. History(<<PilotRecord>>) = <<Governance!Admission>>
    <3>1. /\ <<PilotRecord>> \in Lineage /\ Len(<<PilotRecord>>) = 1
      BY PilotChains
    <3>2. DecisionAt(<<PilotRecord>>, 1) = Governance!Admission
      BY DEF DecisionAt, PilotRecord, Governance!Admission
    <3>3. /\ Len(History(<<PilotRecord>>)) = 1
          /\ History(<<PilotRecord>>)[1] = Governance!Admission
          /\ History(<<PilotRecord>>) \in Seq(Governance!Decision)
      BY <3>1, <3>2, HistoryType
    <3>4. QED
      BY <3>3
  <2>2. Histories' = Histories \cup {<<Governance!Admission>>}
    BY <1>2, <2>1 DEF Histories, BuildPilotRecord
  <2>3. QED
    BY <2>2 DEF Governance!Next, Governance!Admit, Histories
<1>3. ASSUME NEW lineage \in held, NEW target \in States, NEW additions \in Packets,
             NEW uses \in SUBSET Uses, NEW keep \in BOOLEAN,
             Transition(lineage, target, additions, uses, keep)
      PROVE  Governance!Next
  <2> DEFINE l == Append(lineage, Successor(Last(lineage), target, additions, uses))
             h == History(lineage)
             longer == History(l)
  <2>1. /\ lineage \in Lineage /\ lineage[1] = PilotRecord
        /\ Shaped(lineage) /\ Linked(lineage) /\ Growing(lineage)
        /\ Consistent(lineage) /\ Scoped(lineage)
    BY DEF IInv, TypeOK, Chained
  <2>2. /\ CanTransition(Last(lineage), target, additions, uses)
        /\ held' = (IF keep THEN held ELSE held \ {lineage}) \cup {l}
    BY <1>3 DEF Transition
  <2>3. /\ longer = Append(h, Last(longer))
        /\ Last(longer) \in Governance!Decision
        /\ Governance!Decide(h, Last(longer))
    BY <2>1, <2>2, TransitionDecides
  <2>4. Governance!Last(longer) = Last(longer)
    BY DEF Governance!Last, Last
  <2>5. h \in Histories /\ longer \in Histories'
    BY <2>2 DEF Histories
  <2>6. \/ Histories' = Histories \cup {longer}
        \/ Histories' = (Histories \ {h}) \cup {longer}
    <3>1. CASE \/ keep
               \/ \E other \in held : other # lineage /\ History(other) = h
      <4>1. Histories' = Histories \cup {longer}
        BY <2>2, <3>1 DEF Histories
      <4>2. QED
        BY <4>1
    <3>2. CASE ~keep /\ \A other \in held : other # lineage => History(other) # h
      <4>1. Histories' = (Histories \ {h}) \cup {longer}
        BY <2>2, <3>2 DEF Histories
      <4>2. QED
        BY <4>1
    <3>3. QED
      BY <3>1, <3>2
  <2> HIDE DEF h, longer
  <2>7. Governance!Extend
    BY <2>3, <2>4, <2>5, <2>6 DEF Governance!Extend, Histories
  <2>8. QED
    BY <2>7 DEF Governance!Next
<1>4. QED
  BY <1>1, <1>2, <1>3 DEF Next

\* The item bank implements the governance specification.
THEOREM ImplementsGovernanceSpec == Spec => ImplementsGovernance
<1>1. Init => Governance!Init
  BY DEF Init, Governance!Init
<1>2. IInv /\ [Next]_held => [Governance!Next]_Histories
  BY StepImplements
<1>3. QED
  BY <1>1, <1>2, ChainsInvariant, PTL
     DEF Spec, ImplementsGovernance, Governance!Spec, Histories

=============================================================================
