---------------------------- MODULE MCFulfilment ----------------------------
(* Small instances of Fulfilment; requests, BASTs and WOs are alike. *)
EXTENDS Fulfilment, TLC

Symmetry == Permutations(Procs) \cup Permutations(WOs) \cup Permutations(Basts)

\* Every lead is sold, so that the races of field have the states to themselves.
SoldInit ==
    /\ lead = [l \in Leads |-> "converted"]
    /\ docs = [l \in Leads |-> TRUE]
    /\ converted = [l \in Leads |-> CHOOSE c \in Customers : TRUE]
    /\ customer = [c \in Customers |-> "pending_install"]
    /\ order = [c \in Customers |-> "postpaid"]
    /\ otc = [c \in Customers |-> "absent"]
    /\ RadiusInit
    /\ FieldInit
    /\ req = [p \in Procs |-> Idle]

SoldSpec == SoldInit /\ [][Next]_vars

=============================================================================
