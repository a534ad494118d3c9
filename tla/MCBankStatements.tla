-------------------------- MODULE MCBankStatements --------------------------
(* Instances of BankStatements for TLC. *)
EXTENDS BankStatements

CONSTANTS f1, f2, e1, e2, u1, u2, m1, m2

No       == [exact |-> FALSE, contains |-> FALSE, amount |-> TRUE, near |-> TRUE]
Exact    == [No EXCEPT !.exact = TRUE]
Contains == [No EXCEPT !.contains = TRUE]
Far      == [Exact EXCEPT !.near = FALSE]

\* One entry whose reference occurs in two intents, one that names an intent.
MCFitSerial == [e \in {e1, e2} |-> IF e = e1 THEN <<Contains, Contains>> ELSE <<Far, Exact>>]

=============================================================================
