-------------------------- MODULE MCTestConstruction --------------------------
(***************************************************************************)
(* Small instances of the procedures a test is built with: bootstrap,      *)
(* screening, anchor purification, assembly and administration.  Each is a *)
(* call of its own and they share nothing, so an initial state starts one  *)
(* of them and leaves the others idle.                                     *)
(***************************************************************************)
EXTENDS BifactorBootstrap, ItemScreening, AnchorPurification, FormAssembly, Flexilevel, TLC

\* Six items, four of one dimension and two of the other.
MCDimension == [i \in Bank |-> IF i <= 4 THEN "d1" ELSE "d2"]

MCContent == [i \in Pool |-> IF i <= 3 THEN "a" ELSE "b"]

\* No item of the pool is of content "c".  Items 1 and 4 may be used already.
Order(length, minimum, maximum, excluded, used, limited) ==
    [length |-> length, minimum |-> minimum, maximum |-> maximum, excluded |-> excluded,
     used |-> used, limited |-> limited, exposureMax |-> 1]

Use(items) == [i \in Pool |-> IF i \in items THEN 1 ELSE 0]

MCOrders ==
    {Order(length, minimum, maximum, excluded, Use(used), limited) :
        length \in {0, 3, 4}, minimum \in [Labels -> 0 .. 2], maximum \in [Labels -> {1, 2, 4}],
        excluded \in {{}, {1, 2}, {5}}, used \in {{}, {1, 4}}, limited \in BOOLEAN}

BootstrapIdle ==
    /\ fate = [b \in Replicates |-> TRUE] /\ results = [b \in Replicates |-> "none"]
    /\ batch = {} /\ pending = {} /\ completed = 0 /\ batches = 0
    /\ endpoints = {} /\ expired = TRUE /\ stopped = FALSE /\ outcome = "idle"
ScreeningIdle ==
    /\ screening = "idle" /\ active = Bank /\ fitted = {} /\ round = 0
    /\ reasons = [i \in Bank |-> {}]
PurificationIdle ==
    /\ purifying = "idle" /\ roundsCap = 0 /\ floor = 1 /\ group = 1 /\ anchor = {}
    /\ flagged = {} /\ sweeps = 0 /\ purified = [g \in Groups |-> NoReport]
AssemblyIdle == assembly = "idle" /\ order = <<>> /\ form = {}
FlexIdle ==
    /\ flexing = "idle" /\ lord = 0 /\ turn = 0 /\ asked = {} /\ latest = 0 /\ wasRight = FALSE
    /\ rights = 0 /\ selfScore = [rights |-> 0, red |-> FALSE]
MCInit ==
    \/ Init /\ ScreeningIdle /\ PurificationIdle /\ AssemblyIdle /\ FlexIdle
    \/ BootstrapIdle /\ ScreeningInit /\ PurificationIdle /\ AssemblyIdle /\ FlexIdle
    \/ BootstrapIdle /\ ScreeningIdle /\ PurificationInit /\ AssemblyIdle /\ FlexIdle
    \/ BootstrapIdle /\ ScreeningIdle /\ PurificationIdle /\ AssemblyInit /\ FlexIdle
    \/ BootstrapIdle /\ ScreeningIdle /\ PurificationIdle /\ AssemblyIdle /\ FlexInit

MCNext ==
    \/ /\ outcome # "idle" /\ Next
       /\ UNCHANGED <<screeningVars, purificationVars, assemblyVars, flexVars>>
    \/ ScreeningNext /\ UNCHANGED <<vars, purificationVars, assemblyVars, flexVars>>
    \/ PurificationNext /\ UNCHANGED <<vars, screeningVars, assemblyVars, flexVars>>
    \/ AssemblyNext /\ UNCHANGED <<vars, screeningVars, purificationVars, flexVars>>
    \/ FlexNext /\ UNCHANGED <<vars, screeningVars, purificationVars, assemblyVars>>

MCSpec ==
    MCInit /\ [][MCNext]_<<vars, screeningVars, purificationVars, assemblyVars, flexVars>>

=============================================================================
