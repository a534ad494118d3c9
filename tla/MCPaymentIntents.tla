-------------------------- MODULE MCPaymentIntents --------------------------
(* Instances of PaymentIntents for TLC. *)
EXTENDS PaymentIntents

CONSTANTS w1, w2, i1, i2, g1, g2

MCKindsRaces == {"paid", "expired", "unsigned"}

=============================================================================
