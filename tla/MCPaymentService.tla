-------------------------- MODULE MCPaymentService --------------------------
(* Instances of PaymentService for TLC. *)
EXTENDS PaymentService, TLC

CONSTANTS w1, i1, g1, r1, r2, c1, c2

MCKindsPaid    == {"paid"}
MCKindsSerial  == {"paid", "settled", "failed", "garbled", "other"}
MCSymmetry     == Permutations(RefundIds) \cup Permutations(Clerks)

=============================================================================
