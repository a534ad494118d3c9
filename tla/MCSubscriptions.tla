--------------------------- MODULE MCSubscriptions ---------------------------
(* Instances of Subscriptions for TLC. *)
EXTENDS Subscriptions

CONSTANTS anna, q1, q2, q3, tick, loop, restorer, desk

=============================================================================
