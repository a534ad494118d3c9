------------------------------- MODULE Radius -------------------------------
(***************************************************************************)
(* network: the RADIUS account of a customer, one row per customer id,     *)
(* written by single statements of the local client.  Deadlines, passwords *)
(* and profiles are left out; suspension and restoration are in            *)
(* Subscriptions.                                                          *)
(***************************************************************************)
EXTENDS Sales

VARIABLE radius     \* customer -> status of its account, "none" without one

RadiusStatuses == {"temporary", "permanent_active", "deactivated"}

RadiusTypeOK == radius \in [Customers -> RadiusStatuses \cup {"none"}]

RadiusInit == radius = [c \in Customers |-> "none"]

\* Idempotent on the customer: an account that exists keeps its status.
Provision(c) ==
    radius' = IF radius[c] = "none"
              THEN [radius EXCEPT ![c] = "temporary"] ELSE radius

\* An UPDATE by customer id whatever the status was; without a row the
\* caller gets an error.
SetAccount(c, status) ==
    /\ radius[c] # "none"
    /\ radius' = [radius EXCEPT ![c] = status]

PromoteToPermanent(c) == SetAccount(c, "permanent_active")

Deactivate(c) == SetAccount(c, "deactivated")

=============================================================================
