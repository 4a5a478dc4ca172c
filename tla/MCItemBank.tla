------------------------------ MODULE MCItemBank ------------------------------
(***************************************************************************)
(* Small instances of the item bank.  Identifiers and artifacts are small  *)
(* integers.  The packets hold, for each gate, one that passes it, and     *)
(* packets that each break one rule: a missing class, both DIF classes, an *)
(* approval filed too early, a historical artifact under a new identifier, *)
(* an identifier bound to a second artifact.                               *)
(***************************************************************************)
EXTENDS ItemBankRefinement

\* Identifier 0 is in no packet: a caller can always name something new.
SmallIds == 0..11
SmallArtifacts == 0..9

Calibration(difKinds) ==
    Filed({"calibration", "item_fit", "item_information"} \cup difKinds, 1, 1)

Measuring == {
    Calibration({"dif"}),
    Calibration({"dif_not_applicable"}),
    Calibration({"dif", "dif_not_applicable"}),
    Calibration({}),
    Calibration({"dif"}) \cup Filed({"approval"}, 2, 2)}

Approving == {
    {},
    Filed({"approval"}, 2, 2),
    Filed({"approval"}, 3, 1)}

Suspending == {
    Filed({"suspension"}, 4, 4),
    Filed({"suspension"}, 4, 4) \cup Filed({"drift"}, 5, 5),
    Filed({"suspension", "dif", "drift"}, 6, 6)}

Reactivating == {
    Filed({"approval", "drift"}, 7, 7),
    Filed({"approval"}, 8, 2) \cup Filed({"drift"}, 7, 7),
    Filed({"approval"}, 8, 8) \cup Filed({"drift"}, 9, 5),
    Filed({"approval", "drift", "dif"}, 9, 8),
    Filed({"approval", "drift", "dif"}, 7, 9)}

Retiring == { Filed({"retirement"}, 10, 9) }

AllPackets == Measuring \cup Approving \cup Suspending \cup Reactivating \cup Retiring

=============================================================================
