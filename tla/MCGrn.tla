-------------------------------- MODULE MCGrn --------------------------------
(* Small instances of GrnReceipt for TLC: the POs the runs start from.       *)
EXTENDS GrnReceipt, TLC

\* A released PO that two receipts of one or two units can fill or overfill.
SmallPO == [p \in POs |-> [quantity |-> 2, status |-> "released", sap |-> 0]]

Symmetry ==
    Permutations(GrnIds) \cup Permutations(POs) \cup Permutations(Devices) \cup Permutations(Photos)
=============================================================================
