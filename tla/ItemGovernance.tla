---------------------------- MODULE ItemGovernance ----------------------------
(***************************************************************************)
(* What the item-bank lifecycle promises its readers, without evidence     *)
(* references, limits or identifiers: each branch of an item's history is  *)
(* a sequence of decisions, a decision that puts the item into use carries *)
(* signatures nobody has spent before, a suspension leaves named concerns  *)
(* open, and the approved scope is fixed once it is declared.              *)
(*                                                                         *)
(* ItemBank implements it: see ItemBankRefinement.                         *)
(***************************************************************************)
EXTENDS Naturals, SequencesExt

CONSTANTS Signatures, Scopes, ConcernNames

VARIABLE histories      \* the branches some caller still holds

Decision == [state      : {"piloting", "calibrated", "approved",
                           "active", "suspended", "retired"},
             scope      : SUBSET Scopes,
             open       : SUBSET ConcernNames,
             signatures : SUBSET Signatures]

InUse == {"active", "suspended"}

Admission == [state |-> "piloting", scope |-> {}, open |-> {}, signatures |-> {}]

\* Signatures that earlier decisions of a history have used up.
Spent(history) == UNION {history[i].signatures : i \in 1..Len(history)}

\* The decisions that may follow one another.
Follows(before, after) ==
    \/ before.state = "piloting"   /\ after.state = "calibrated"
    \/ before.state = "calibrated" /\ after.state = "approved"
    \/ before.state = "approved"   /\ after.state = "active"
    \/ before.state \in InUse      /\ after.state \in (InUse \cup {"retired"}) \ {before.state}

PutsInUse(before, after) ==
    after.state = "approved" \/ (before.state = "suspended" /\ after.state = "active")

Decide(history, decision) ==
    LET before == Last(history) IN
    /\ Follows(before, decision)
    /\ before.scope # {} => decision.scope = before.scope
    /\ decision.state \notin {"piloting", "calibrated"} => decision.scope # {}
    /\ decision.open # {} <=> decision.state = "suspended"
    /\ IF PutsInUse(before, decision)
       THEN decision.signatures # {} /\ decision.signatures \cap Spent(history) = {}
       ELSE decision.signatures = {}

Init == histories = {}

Admit == histories' = histories \cup {<<Admission>>}

\* A caller extends a branch and keeps or drops the record it extended.
Extend ==
    \E history \in histories, longer \in histories' :
        /\ Last(longer) \in Decision
        /\ longer = Append(history, Last(longer))
        /\ Decide(history, Last(longer))
        /\ \/ histories' = histories \cup {longer}
           \/ histories' = (histories \ {history}) \cup {longer}

Next == Admit \/ Extend

Spec == Init /\ [][Next]_histories
=============================================================================
