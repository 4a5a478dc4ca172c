------------------------------- MODULE ItemBank -------------------------------
(***************************************************************************)
(* The governed life of one item version after pilot admission:            *)
(* fast_mlsirm/rubric/item_bank.py, with the wrapper that                  *)
(* rubric/_item_bank_reactivation_validation.py installs over it.          *)
(*                                                                         *)
(* A lifecycle record is immutable and names its predecessor by content    *)
(* fingerprint.  Fingerprints are collision free here, so a record is      *)
(* identified with its lineage: the sequence of record contents from the   *)
(* piloting record to itself.  `held` is the set of records the caller     *)
(* still holds.  The library keeps no registry of records: a caller may    *)
(* transition one record twice (two branches), or a record that another    *)
(* branch has superseded or retired.                                       *)
(*                                                                         *)
(* Left out: the provenance fields that every successor copies unchanged   *)
(* (item, candidate, rubric, policy criticality), the transition reason,   *)
(* the text and type validation of arguments, the limit on the number of   *)
(* approved uses, and the replay of a record's fingerprint and creation    *)
(* seal before a transition: held records are ones the library made.       *)
(***************************************************************************)
EXTENDS Naturals, FiniteSets, SequencesExt

CONSTANTS
    Ids,            \* evidence identifiers
    Artifacts,      \* SHA-256 fingerprints of evidence artifacts
    Uses,           \* identifiers of approved uses
    Packets,        \* collections of references a caller may submit
    MaxEvidence,    \* _MAX_EVIDENCE_REFERENCES, 64 in the code
    MaxLineage,     \* bound of the model: records in one lineage
    MaxHeld         \* bound of the model: records held at once

States == {"piloting", "calibrated", "approved", "active", "suspended", "retired"}

Concerns == {"dif", "drift", "exposure", "linking", "evidence_validity",
             "content_validity", "security_privacy"}

Kinds == Concerns \cup {"calibration", "item_fit", "dif_not_applicable",
                        "item_information", "approval", "suspension", "retirement"}

\* States whose records must declare at least one approved use.
ScopedStates == {"approved", "active", "suspended", "retired"}

Reference == [kind : Kinds, id : Ids, artifact : Artifacts]

Record == [state    : States,
           uses     : SUBSET Uses,
           evidence : SUBSET Reference,
           concerns : SUBSET Concerns]

ASSUME PacketsAssumption ==
    \A packet \in Packets : packet \subseteq Reference /\ IsFiniteSet(packet)

ASSUME BoundsAssumption ==
    MaxEvidence \in Nat /\ MaxLineage \in Nat \ {0} /\ MaxHeld \in Nat \ {0}

VARIABLE held

-----------------------------------------------------------------------------
(* Evidence *)

KindsOf(refs) == {ref.kind : ref \in refs}

ArtifactsOf(refs) == {ref.artifact : ref \in refs}

OfKind(refs, kinds) == {ref \in refs : ref.kind \in kinds}

\* One evidence identifier cannot bind two fingerprints.
ConsistentIds(refs) ==
    \A a, b \in refs : a.id = b.id => a.artifact = b.artifact

\* (fault: the limit is off by one)
NormalizableBelowLimit(refs) == Cardinality(refs) < MaxEvidence /\ ConsistentIds(refs)

\* What _normalize_evidence_references accepts.  (A repeated identity inside
\* one call is refused too; a set has none.)
Normalizable(refs) == Cardinality(refs) <= MaxEvidence /\ ConsistentIds(refs)

\* The record's references followed by the additions normalize: no exact
\* identity occurs in both, and the union keeps the rules above.
Combinable(evidence, additions) ==
    /\ Normalizable(additions)
    /\ additions \cap evidence = {}
    /\ Normalizable(evidence \cup additions)

-----------------------------------------------------------------------------
(* The gates between states.  Definitions marked "fault" are not part of the *)
(* specification: each is a plausible bug some property must rule out.       *)

\* (fault: retirement can be undone)
ReversibleTransitions ==
    {<<"piloting", "calibrated">>, <<"calibrated", "approved">>, <<"approved", "active">>,
     <<"active", "suspended">>, <<"suspended", "active">>,
     <<"active", "retired">>, <<"suspended", "retired">>, <<"retired", "active">>}

AllowedTransitions ==
    {<<"piloting", "calibrated">>, <<"calibrated", "approved">>, <<"approved", "active">>,
     <<"active", "suspended">>, <<"suspended", "active">>,
     <<"active", "retired">>, <<"suspended", "retired">>}

\* _missing_required_kinds returns nothing: the newly supplied kinds are
\* those the transition from record to target requires.
Supplied(record, target, kinds) ==
    /\ target = "calibrated" =>
         /\ {"calibration", "item_fit", "item_information"} \subseteq kinds
         /\ kinds \cap {"dif", "dif_not_applicable"} # {}
    /\ target = "approved" => "approval" \in kinds
    /\ record.state = "suspended" /\ target = "active" =>
         /\ "approval" \in kinds
         /\ record.concerns # {} /\ record.concerns \subseteq kinds
    /\ target = "suspended" => "suspension" \in kinds /\ kinds \cap Concerns # {}
    /\ target = "retired" => "retirement" \in kinds

\* Calibration takes exactly one DIF applicability class.
OneDifClass(target, kinds) ==
    target = "calibrated" => ~({"dif", "dif_not_applicable"} \subseteq kinds)

\* Approved uses may be declared once, at any transition up to approval, and
\* never change afterwards.  An omitted argument inherits record.uses, so it
\* is the case uses = record.uses.
ScopeAllowed(record, target, uses) ==
    /\ record.uses # {} => uses = record.uses
    /\ target \in ScopedStates => uses # {}

\* (faults: freshness is asked of the concerns only, or of the approval only)
FreshConcernsOnly(record, target, additions) ==
    record.state = "suspended" /\ target = "active" =>
        ArtifactsOf(OfKind(additions, record.concerns))
            \cap ArtifactsOf(record.evidence) = {}

FreshApprovalOnly(record, target, additions) ==
    record.state = "suspended" /\ target = "active" =>
        ArtifactsOf(OfKind(additions, {"approval"}))
            \cap ArtifactsOf(record.evidence) = {}

\* The wrapper's last check: on reactivation, the approval and the evidence
\* on each bound concern are artifacts the suspended record has never seen.
FreshOnReactivation(record, target, additions) ==
    record.state = "suspended" /\ target = "active" =>
        ArtifactsOf(OfKind(additions, {"approval"} \cup record.concerns))
            \cap ArtifactsOf(record.evidence) = {}

\* (fault: the gates read the cumulative evidence)
CanTransitionOnAllEvidence(record, target, additions, uses) ==
    /\ <<record.state, target>> \in AllowedTransitions
    /\ Combinable(record.evidence, additions)
    /\ OneDifClass(target, KindsOf(additions))
    /\ Supplied(record, target, KindsOf(record.evidence \cup additions))
    /\ ScopeAllowed(record, target, uses)
    /\ FreshOnReactivation(record, target, additions)

CanTransition(record, target, additions, uses) ==
    /\ <<record.state, target>> \in AllowedTransitions
    /\ Combinable(record.evidence, additions)
    /\ OneDifClass(target, KindsOf(additions))
    /\ Supplied(record, target, KindsOf(additions))
    /\ ScopeAllowed(record, target, uses)
    /\ FreshOnReactivation(record, target, additions)

BoundConcerns(target, additions) ==
    IF target = "suspended" THEN KindsOf(additions) \cap Concerns ELSE {}

Successor(record, target, additions, uses) ==
    [state    |-> target,
     uses     |-> uses,
     evidence |-> record.evidence \cup additions,
     concerns |-> BoundConcerns(target, additions)]

-----------------------------------------------------------------------------
(* The two operations.  A refused call raises and leaves every record as it  *)
(* was.                                                                      *)

PilotRecord == [state |-> "piloting", uses |-> {}, evidence |-> {}, concerns |-> {}]

\* build_item_bank_pilot_record: may be repeated, and yields an equal record.
BuildPilotRecord ==
    /\ Cardinality(held \cup {<<PilotRecord>>}) <= MaxHeld
    /\ held' = held \cup {<<PilotRecord>>}

\* transition_item_bank_record; the caller keeps the current record beside
\* its successor or lets it go.
Transition(lineage, target, additions, uses, keep) ==
    LET current == Last(lineage)
        successor == Append(lineage, Successor(current, target, additions, uses))
        kept == IF keep THEN held ELSE held \ {lineage}
    IN  /\ CanTransition(current, target, additions, uses)
        /\ Len(lineage) < MaxLineage
        /\ Cardinality(kept \cup {successor}) <= MaxHeld
        /\ held' = kept \cup {successor}

Init == held = {}

Next ==
    \/ BuildPilotRecord
    \/ \E lineage \in held, target \in States, additions \in Packets,
          uses \in SUBSET Uses, keep \in BOOLEAN :
            Transition(lineage, target, additions, uses, keep)

Spec == Init /\ [][Next]_held

-----------------------------------------------------------------------------
(* Properties *)

Lineage == {l \in Seq(Record) : l # <<>>}

\* What the transition that created the i-th record of a lineage supplied.
Added(l, i) == l[i].evidence \ l[i - 1].evidence

\* Steps that put the item into use: approval and each reactivation.
Authorises(l, i) ==
    \/ l[i].state = "approved"
    \/ l[i].state = "active" /\ l[i - 1].state = "suspended"

\* Every held record is a nonempty lineage of well-formed records that
\* starts at pilot admission.
TypeOK == held \subseteq {l \in Lineage : l[1] = PilotRecord}

\* Every record after approval rests on measurement evidence and on a DIF
\* decision gathered while piloting, and on an approval that was supplied
\* after calibration: an approval filed earlier does not count.
UseRestsOnEvidence ==
    \A l \in held : Last(l).state \in ScopedStates =>
        /\ Len(l) >= 3
        /\ {"calibration", "item_fit", "item_information"} \subseteq KindsOf(l[2].evidence)
        /\ \E kind \in {"dif", "dif_not_applicable"} : kind \in KindsOf(l[2].evidence)
        /\ l[2].evidence \subseteq Last(l).evidence
        /\ "approval" \in KindsOf(Added(l, 3))

\* No artifact authorises use of an item twice: each approval or reactivation
\* of a lineage is backed by approvals, all of them of artifacts that backed
\* no earlier one, whatever identifier they are filed under.
ApprovalsNeverReused ==
    \A l \in held : \A i, j \in 2..Len(l) :
        i < j /\ Authorises(l, i) /\ Authorises(l, j) =>
            /\ OfKind(Added(l, j), {"approval"}) # {}
            /\ ArtifactsOf(OfKind(Added(l, i), {"approval"}))
                 \cap ArtifactsOf(OfKind(Added(l, j), {"approval"})) = {}

\* A reactivation answers each concern that suspended the item with an
\* artifact other than any of those that raised it.
ConcernsAnsweredAfresh ==
    \A l \in held : \A i \in 2..(Len(l) - 1) :
        l[i].state = "suspended" /\ l[i + 1].state = "active" =>
            \A kind \in KindsOf(Added(l, i)) \cap Concerns :
                /\ OfKind(Added(l, i + 1), {kind}) # {}
                /\ ArtifactsOf(OfKind(Added(l, i + 1), {kind}))
                     \cap ArtifactsOf(OfKind(Added(l, i), {kind})) = {}

\* The approved use scope, once declared, is the scope of every later record.
ScopeNeverChanges ==
    \A l \in held : \A i, j \in 1..Len(l) :
        i < j /\ l[i].uses # {} => l[j].uses = l[i].uses

\* Evidence is never lost, and an evidence identifier that one record of a
\* lineage binds names the same artifact in all of them.
EvidenceAccumulates ==
    \A l \in held : \A i, j \in 1..Len(l) : i < j =>
        /\ l[i].evidence \subseteq l[j].evidence
        /\ ConsistentIds(l[i].evidence \cup l[j].evidence)

-----------------------------------------------------------------------------
(* The way out of use.  A caller can always prepare one new artifact under   *)
(* one new identifier and file it under several kinds.                       *)

Filed(kinds, id, artifact) ==
    {[kind |-> kind, id |-> id, artifact |-> artifact] : kind \in kinds}

CanLeave(record, target, kinds) ==
    \E id \in Ids, artifact \in Artifacts :
        CanTransition(record, target, Filed(kinds, id, artifact), record.uses)

CanRetire(record) == CanLeave(record, "retired", {"retirement"})

CanReactivate(record) == CanLeave(record, "active", {"approval"} \cup record.concerns)

\* While its evidence list has room for the references the gate asks for, an
\* item in use can be retired and a suspended one reactivated: no history
\* of calls blocks the exit before the limit does.
ExitsOpenBelowLimit ==
    \A l \in held : LET record == Last(l) IN
        /\ record.state \in {"active", "suspended"} /\ Cardinality(record.evidence) < MaxEvidence
             => CanRetire(record)
        /\ record.state = "suspended"
             /\ Cardinality(record.evidence) + Cardinality(record.concerns) < MaxEvidence
             => CanReactivate(record)

=============================================================================
