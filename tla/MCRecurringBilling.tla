------------------------- MODULE MCRecurringBilling -------------------------
(* One order; months of two days and of one, so that an anniversary is     *)
(* clamped and a period is seen to end.                                    *)
EXTENDS RecurringBilling

CONSTANTS c1, o1, t1

Calendar == <<0, 2, 3, 5, 6>>
OneCustomer == [o \in Orders |-> c1]

=============================================================================
