------------------------------ MODULE Quotations ------------------------------
(***************************************************************************)
(* enterprise: the quotations made of an approved BOQ, and what accepting  *)
(* one sets off: its invoice and its work order (EWO).                     *)
(*                                                                         *)
(* Abstraction: a version's quotations are a sequence in the order of      *)
(* their inserts. A row keeps its number (the index of the first row that  *)
(* bears it) and its version under that number.                            *)
(***************************************************************************)
EXTENDS Boq

CONSTANT MaxQuotes      \* a bound: quotations per BOQ version

ASSUME QuotationsAssumption == MaxQuotes \in Nat

VARIABLES
    quotes,     \* BOQ version -> its quotations
    invoices,   \* <<BOQ version, quotation>> -> direct invoices
    ewos        \* <<BOQ version, quotation>> -> work orders

quotations == <<quotes, invoices, ewos>>

Numbers == 1 .. MaxQuotes
Quotes == Versions \X Numbers

QuotationStatuses ==
    {"issued", "accepted", "rejected", "cancelled", "expired", "superseded"}

QuotationsTypeOK ==
    /\ \A v \in Versions : \A n \in DOMAIN quotes[v] :
        quotes[v][n] \in [number : Numbers, version : Numbers,
                          status : QuotationStatuses, total : Prices \cup {None}]
    /\ invoices \in [Quotes -> Nat]
    /\ ewos \in [Quotes -> Nat]

QuotationsInit ==
    /\ quotes = [v \in Versions |-> <<>>]
    /\ invoices = [q \in Quotes |-> 0]
    /\ ewos = [q \in Quotes |-> 0]

Issued(v) == {n \in DOMAIN quotes[v] : quotes[v][n].status = "issued"}
StatusOf(q) == quotes[q[1]][q[2]].status
SetQuotation(q, status) == quotes' = [quotes EXCEPT ![q[1]][q[2]].status = status]

-----------------------------------------------------------------------------
(* GenerateQuotation *)

\* FindLatestForBOQ: a row of the highest version
Latest(v) ==
    {n \in DOMAIN quotes[v] :
        \A m \in DOMAIN quotes[v] : quotes[v][m].version <= quotes[v][n].version}

\* What a generation holds: the latest quotation, 0 without one, and its copy
\* of the status
Prior(v, n) == [at |-> n, was |-> IF n = 0 THEN "absent" ELSE quotes[v][n].status]

ReadLatest(p, v, total, then) ==
    \E n \in IF Latest(v) = {} THEN {0} ELSE Latest(v) :
        req' = [req EXCEPT ![p] =
                   [at |-> "insertQuote", on |-> @.on, got |-> Prior(v, n),
                    arg |-> [total |-> total, then |-> then]]]

GenerateQuotation(p, v) ==
    /\ boq[v].status = "boq_approved"
    /\ lines[v] # None
    /\ Len(quotes[v]) < MaxQuotes
    /\ Begin(p, "quote", <<v>>, None)
    /\ UNCHANGED <<boqs, quotations>>

ReadPrior(p) ==
    /\ At(p, "quote")
    /\ ReadLatest(p, Of(p), boq[Of(p)].total, "done")
    /\ UNCHANGED <<boqs, quotations>>

\* The approval's hook; when it fails the approval goes on to the ledger.
AutoGenerateQuotation(p) ==
    LET v == Of(p)
    IN  /\ At(p, "autoQuote")
        /\ IF boq[v].status = "boq_approved" /\ Len(quotes[v]) < MaxQuotes
           THEN ReadLatest(p, v, boq[v].total, "recognise")
           ELSE Goto(p, "recognise")
        /\ UNCHANGED <<boqs, quotations>>

NewQuotation(v, prior, total) ==
    IF prior = 0
    THEN [number |-> Len(quotes[v]) + 1, version |-> 1, status |-> "issued", total |-> total]
    ELSE [number |-> quotes[v][prior].number, version |-> quotes[v][prior].version + 1,
          status |-> "issued", total |-> total]

NumberTaken(v, q) ==
    \E n \in DOMAIN quotes[v] :
        quotes[v][n].number = q.number /\ quotes[v][n].version = q.version

\* A number has each version once: the second of two generations fails.
CreateQuotation(p) ==
    LET v == Of(p)
        q == NewQuotation(v, req[p].got.at, req[p].arg.total)
    IN  /\ At(p, "insertQuote")
        /\ IF NumberTaken(v, q) \/ Len(quotes[v]) = MaxQuotes
           THEN Goto(p, req[p].arg.then) /\ UNCHANGED quotes
           ELSE /\ quotes' = [quotes EXCEPT ![v] = Append(@, q)]
                /\ Goto(p, "supersedeQuote")
        /\ UNCHANGED <<boqs, invoices, ewos>>

\* Supersede is checked on the copy read before the insert; what it refuses
\* is left as it is, and so is the row when the write fails.
SupersedeQuotation(p) ==
    LET prior == req[p].got
    IN  /\ At(p, "supersedeQuote")
        /\ IF prior.was \in {"issued", "rejected"}
           THEN SetQuotation(<<Of(p), prior.at>>, "superseded")
           ELSE UNCHANGED quotes
        /\ Goto(p, req[p].arg.then)
        /\ UNCHANGED <<boqs, invoices, ewos>>

Generated(p) ==
    /\ At(p, "done")
    /\ Return(p)
    /\ UNCHANGED <<boqs, quotations>>

-----------------------------------------------------------------------------
(* What becomes of a quotation *)

\* RejectQuotation, CancelQuotation and the expiry sweep check the copy they
\* read and write the whole row.
Settle(p, q, status) ==
    /\ q[2] \in Issued(q[1])
    /\ Begin(p, "settle", q, status)
    /\ UNCHANGED <<boqs, quotations>>

RejectQuotation(p, q) == Settle(p, q, "rejected")
CancelQuotation(p, q) == Settle(p, q, "cancelled")
ExpireQuotation(p, q) == Settle(p, q, "expired")

WriteSettled(p) ==
    /\ At(p, "settle")
    /\ SetQuotation(req[p].on, req[p].arg)
    /\ Return(p)
    /\ UNCHANGED <<boqs, invoices, ewos>>

AcceptQuotation(p, q) ==
    /\ q[2] \in Issued(q[1])
    /\ Begin(p, "accept", q, "hook")
    /\ UNCHANGED <<boqs, quotations>>

WriteAccepted(p) ==
    /\ At(p, "accept")
    /\ SetQuotation(req[p].on, "accepted")
    /\ Goto(p, "invoice")
    /\ UNCHANGED <<boqs, invoices, ewos>>

\* An operator repeats by hand what the hook may have failed to do.
Accepted(q) == q[2] \in DOMAIN quotes[q[1]] /\ StatusOf(q) = "accepted"

IssueInvoice(p, q) ==
    /\ Accepted(q)
    /\ Begin(p, "invoice", q, "invoice")
    /\ UNCHANGED <<boqs, quotations>>

CreateEWO(p, q) ==
    /\ Accepted(q)
    /\ Begin(p, "ewo", q, "ewo")
    /\ UNCHANGED <<boqs, quotations>>

\* The hook goes on to the work order whatever came of the invoice.
AfterInvoice(p) == IF req[p].arg = "hook" THEN Goto(p, "ewo") ELSE Return(p)

CheckInvoice(p) ==
    /\ At(p, "invoice")
    /\ IF invoices[req[p].on] = 0 /\ Accepted(req[p].on)
       THEN Goto(p, "insertInvoice") ELSE AfterInvoice(p)
    /\ UNCHANGED <<boqs, quotations>>

\* (defect) nothing but the check before it guards the insert
InsertOnce_unguarded(rows, q) == [rows EXCEPT ![q] = @ + 1]

\* uq_invoices_quotation_direct and uq_ewos_quotation
InsertOnce(rows, q) == IF rows[q] = 0 THEN [rows EXCEPT ![q] = 1] ELSE rows

CreateInvoice(p) ==
    /\ At(p, "insertInvoice")
    /\ invoices' = InsertOnce(invoices, req[p].on)
    /\ AfterInvoice(p)
    /\ UNCHANGED <<boqs, quotes, ewos>>

CheckEWO(p) ==
    /\ At(p, "ewo")
    /\ IF ewos[req[p].on] = 0 /\ Accepted(req[p].on)
       THEN Goto(p, "insertEWO") ELSE Return(p)
    /\ UNCHANGED <<boqs, quotations>>

InsertEWO(p) ==
    /\ At(p, "insertEWO")
    /\ ewos' = InsertOnce(ewos, req[p].on)
    /\ Return(p)
    /\ UNCHANGED <<boqs, quotes, invoices>>

QuotationsNext ==
    \E p \in Procs :
        \/ \E v \in Versions : GenerateQuotation(p, v)
        \/ \E q \in Quotes :
            \/ RejectQuotation(p, q) \/ CancelQuotation(p, q) \/ ExpireQuotation(p, q)
            \/ AcceptQuotation(p, q) \/ IssueInvoice(p, q) \/ CreateEWO(p, q)
        \/ ReadPrior(p) \/ AutoGenerateQuotation(p)
        \/ CreateQuotation(p) \/ SupersedeQuotation(p) \/ Generated(p)
        \/ WriteSettled(p) \/ WriteAccepted(p)
        \/ CheckInvoice(p) \/ CreateInvoice(p) \/ CheckEWO(p) \/ InsertEWO(p)

=============================================================================
