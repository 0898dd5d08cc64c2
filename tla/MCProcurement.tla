---------------------------- MODULE MCProcurement ----------------------------
(* Procurement on small sets: two vendors, one amount under the threshold and *)
(* within ten percent of the budget, one at the threshold and over budget.    *)
EXTENDS Procurement, TLC

CONSTANTS va, vb

MCVendors == {va, vb}
MCTotals  == {11, 12}

Symmetry == Permutations(MCVendors)
=============================================================================
