------------------------------ MODULE Requests ------------------------------
(***************************************************************************)
(* HTTP requests in progress. A handler reads rows into memory, decides,   *)
(* and writes in statements of their own, outside any transaction: between *)
(* two of them other requests run, a statement can fail, and the process   *)
(* can die. What a request carries from one statement to the next is its   *)
(* record here.                                                            *)
(***************************************************************************)
CONSTANTS
    Procs,      \* requests that may be in progress at once
    None        \* NULL

VARIABLE req    \* request -> where it stands and what it holds

\* at: the statement it runs next; on: the row it is about; arg: what it
\* will write; got: the id of a row it has created
Idle == [at |-> "idle", on |-> None, arg |-> None, got |-> None]

Free(p) == req[p].at = "idle"
At(p, statement) == req[p].at = statement

Begin(p, statement, row, value) ==
    /\ Free(p)
    /\ req' = [req EXCEPT ![p] =
                  [at |-> statement, on |-> row, arg |-> value, got |-> None]]

Goto(p, statement) == req' = [req EXCEPT ![p].at = statement]

Hold(p, id, statement) ==
    req' = [req EXCEPT ![p] =
                  [at |-> statement, on |-> @.on, arg |-> @.arg, got |-> id]]

Return(p) == req' = [req EXCEPT ![p] = Idle]

\* A statement fails and the handler returns its error, or the process dies.
\* What the request has written stays; nothing is rolled back or retried.
Abandon(p) == ~Free(p) /\ Return(p)

=============================================================================
