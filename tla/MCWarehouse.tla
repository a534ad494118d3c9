----------------------------- MODULE MCWarehouse -----------------------------
(* Two warehouses of one item; requests are alike. *)
EXTENDS Warehouse, TLC

Symmetry == Permutations(Procs) \cup Permutations(Warehouses)

=============================================================================
