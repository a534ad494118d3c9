----------------------------- MODULE MCCheckout ------------------------------
(* Instances of Checkout for TLC. *)
EXTENDS Checkout, TLC

CONSTANTS otc, monthly, r1, r2, c1, c2, k1

MCPayments == {"pay"}
MCSymmetry == Permutations(Receipts) \cup Permutations(Clerks)

=============================================================================
