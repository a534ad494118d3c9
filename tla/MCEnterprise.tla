----------------------------- MODULE MCEnterprise -----------------------------
(* Two versions of a BOQ, a template of two steps in parallel, a deputy to     *)
(* reassign them to; requests are alike, and so are prices.                    *)
EXTENDS Enterprise, TLC

Symmetry == Permutations(Procs) \cup Permutations(Prices)

=============================================================================
