------------------------------ MODULE Invoices -------------------------------
(***************************************************************************)
(* The invoice ledger of billing-svc: invoices created, issued, cancelled  *)
(* and paid, the commission and referral hooks of the payment that settles *)
(* an order's one-time charge, and field-svc's payment gate, which lets    *)
(* NOC approve an installation only once that charge is paid.              *)
(*                                                                         *)
(* A request is a clerk whose steps are single statements: RecordPayment   *)
(* runs in no transaction, and UpdateStatus writes by id without looking   *)
(* at the stored status.                                                   *)
(*                                                                         *)
(* Abstraction: an order has at most one one-time invoice (a unique index),*)
(* so that invoice stands for its order; a receipt is the unique gateway   *)
(* transaction id of a payment; every invoice has the same total and every *)
(* order the same number of commission parties and a pending referral.     *)
(***************************************************************************)
EXTENDS FiniteSetsExt, Naturals

CONSTANTS
    Invoices,
    Otc,            \* the one-time-charge invoices among them
    Receipts,
    Total,          \* total of every invoice
    Shares,         \* commission rows of an order
    Clerks,         \* requests that may be in progress at once
    MayOverlap,     \* the requests that may overlap each other; others run alone
    MaxDeaths,      \* bound on requests that die half-way
    None            \* NULL

ASSUME InvoicesAssumption ==
    /\ Otc \subseteq Invoices
    /\ IsFiniteSet(Receipts)
    /\ Total \in Nat \ {0}
    /\ Shares \in Nat \ {0}
    /\ MaxDeaths \in Nat
    /\ None \notin Receipts \cup Invoices

VARIABLES
    status,         \* invoice -> status, "absent" before the INSERT
    payments,       \* receipt -> its confirmed payment row
    commissions,    \* one-time invoice -> share -> receipt of the row's payment
    rewarded,       \* one-time invoices whose referral was rewarded
    installed,      \* one-time invoice -> how NOC approved the installation
    clerks,         \* clerk -> the request it serves
    deaths          \* requests that died so far

ledger == <<status, payments, commissions, rewarded, installed>>
vars == <<ledger, clerks, deaths>>

Statuses == {"draft", "issued", "paid", "cancelled"}

NoPayment == [invoice |-> None, amount |-> 0]

Requests == {"create", "issue", "cancel", "pay", "verify"}

Request(op, i) ==
    [op |-> op, invoice |-> i, receipt |-> None, amount |-> 0, share |-> 0]

Idle == [pc |-> "idle", req |-> Request("create", None)]

Init ==
    /\ status = [i \in Invoices |-> "absent"]
    /\ payments = [r \in Receipts |-> NoPayment]
    /\ commissions = [i \in Otc |-> [s \in 1..Shares |-> None]]
    /\ rewarded = {}
    /\ installed = [i \in Otc |-> "no"]
    /\ clerks = [c \in Clerks |-> Idle]
    /\ deaths = 0

-----------------------------------------------------------------------------
(* Clerks *)

Quiet == \A c \in Clerks : clerks[c] = Idle

Free(c, op) ==
    /\ clerks[c] = Idle
    /\ \A d \in Clerks : clerks[d] = Idle \/ {op, clerks[d].req.op} \subseteq MayOverlap

Begin(c, pc, req) == clerks' = [clerks EXCEPT ![c] = [pc |-> pc, req |-> req]]
At(c, pc) == clerks[c].pc = pc
Goto(c, pc) == clerks' = [clerks EXCEPT ![c].pc = pc]
Return(c) == clerks' = [clerks EXCEPT ![c] = Idle]

UpdateStatus(i, s) == status' = [status EXCEPT ![i] = s]

-----------------------------------------------------------------------------
(* CreateInvoice, IssueInvoice, CancelInvoice *)

\* The row and its lines are inserted in one transaction, as a draft or
\* already issued.
CreateInvoice(c, i) ==
    /\ Free(c, "create")
    /\ status[i] = "absent"
    /\ \E s \in {"draft", "issued"} : UpdateStatus(i, s)
    /\ UNCHANGED <<payments, commissions, rewarded, installed, clerks, deaths>>

IssueInvoice(c, i) ==
    /\ Free(c, "issue")
    /\ status[i] = "draft"
    /\ Begin(c, "issue", Request("issue", i))
    /\ UNCHANGED <<ledger, deaths>>

WriteIssued(c) ==
    /\ At(c, "issue")
    /\ UpdateStatus(clerks[c].req.invoice, "issued")
    /\ Return(c)
    /\ UNCHANGED <<payments, commissions, rewarded, installed, deaths>>

MayCancel(i) == status[i] \in {"draft", "issued"}

CancelInvoice(c, i) ==
    /\ Free(c, "cancel")
    /\ MayCancel(i)
    /\ Begin(c, "cancel", Request("cancel", i))
    /\ UNCHANGED <<ledger, deaths>>

WriteCancelled(c) ==
    /\ At(c, "cancel")
    /\ UpdateStatus(clerks[c].req.invoice, "cancelled")
    /\ Return(c)
    /\ UNCHANGED <<payments, commissions, rewarded, installed, deaths>>

-----------------------------------------------------------------------------
(* RecordPayment *)

\* SumConfirmedForInvoice.
SumConfirmed(i) ==
    SumFunctionOnSet([r \in Receipts |-> payments[r].amount],
                     {r \in Receipts : payments[r].invoice = i})

\* (defect) compares the payment's own amount with the total
CoversAlone(i, amount) == amount >= Total

Covers(i, amount) == SumConfirmed(i) >= Total

\* Reads the invoice, which may be a draft, and refuses a cancelled or paid one.
RecordPayment(c, i, r, amount) ==
    /\ Free(c, "pay")
    /\ status[i] \in {"draft", "issued"}
    /\ Begin(c, "insert", [Request("pay", i) EXCEPT !.receipt = r, !.amount = amount])
    /\ UNCHANGED <<ledger, deaths>>

\* A receipt already recorded violates the unique index: the request fails.
InsertPayment(c) ==
    LET req == clerks[c].req IN
    /\ At(c, "insert")
    /\ IF payments[req.receipt] = NoPayment
       THEN /\ payments' = [payments EXCEPT ![req.receipt] =
                                [invoice |-> req.invoice, amount |-> req.amount]]
            /\ Goto(c, "sum")
       ELSE Return(c) /\ UNCHANGED payments
    /\ UNCHANGED <<status, commissions, rewarded, installed, deaths>>

SumPayments(c) ==
    /\ At(c, "sum")
    /\ IF Covers(clerks[c].req.invoice, clerks[c].req.amount) THEN Goto(c, "flip")
                                                              ELSE Return(c)
    /\ UNCHANGED <<ledger, deaths>>

FlipPaid(c) ==
    /\ At(c, "flip")
    /\ UpdateStatus(clerks[c].req.invoice, "paid")
    /\ Goto(c, "reload")
    /\ UNCHANGED <<payments, commissions, rewarded, installed, deaths>>

\* Both hooks look at the reloaded row: they act on a paid one-time invoice.
Reload(c) ==
    LET i == clerks[c].req.invoice IN
    /\ At(c, "reload")
    /\ IF i \in Otc /\ status[i] = "paid" THEN Goto(c, "commission") ELSE Return(c)
    /\ UNCHANGED <<ledger, deaths>>

ExistsForOrder(i) == \E s \in 1..Shares : commissions[i][s] # None

\* maybeApplyCommission up to its loop.
CheckCommission(c) ==
    /\ At(c, "commission")
    /\ IF ExistsForOrder(clerks[c].req.invoice)
       THEN Goto(c, "reward")
       ELSE clerks' = [clerks EXCEPT ![c].pc = "share", ![c].req.share = 1]
    /\ UNCHANGED <<ledger, deaths>>

\* (defect) leaves the loop before the last row
NextShareEarly(c) ==
    IF clerks[c].req.share + 1 >= Shares
    THEN Goto(c, "reward")
    ELSE clerks' = [clerks EXCEPT ![c].req.share = @ + 1]

NextShare(c) ==
    IF clerks[c].req.share = Shares
    THEN Goto(c, "reward")
    ELSE clerks' = [clerks EXCEPT ![c].req.share = @ + 1]

\* One row of the split; a row that exists (order, party) is logged and skipped.
InsertShare(c) ==
    LET req == clerks[c].req IN
    /\ At(c, "share")
    /\ commissions' = IF commissions[req.invoice][req.share] = None
                      THEN [commissions EXCEPT ![req.invoice][req.share] = req.receipt]
                      ELSE commissions
    /\ NextShare(c)
    /\ UNCHANGED <<status, payments, rewarded, installed, deaths>>

\* maybeApplyReferralReward.
Reward(c) ==
    /\ At(c, "reward")
    /\ rewarded' = rewarded \cup {clerks[c].req.invoice}
    /\ Return(c)
    /\ UNCHANGED <<status, payments, commissions, installed, deaths>>

-----------------------------------------------------------------------------
(* The payment gate of field-svc's VerifyBAST *)

\* (defect) blocks cancelled charges only
GateOpenUnlessCancelled(i) == status[i] # "cancelled"

\* IsOrderOTCPaid: an order without a one-time invoice passes.
GateOpen(i) == status[i] \in {"absent", "paid"}

VerifyBAST(c, i) ==
    /\ Free(c, "verify")
    /\ installed[i] = "no"
    /\ GateOpen(i)
    /\ Begin(c, IF status[i] = "absent" THEN "approveFree" ELSE "approve", Request("verify", i))
    /\ UNCHANGED <<ledger, deaths>>

ApproveInstall(c) ==
    /\ clerks[c].pc \in {"approve", "approveFree"}
    /\ installed' = [installed EXCEPT ![clerks[c].req.invoice] =
                        IF At(c, "approve") THEN "charged" ELSE "free"]
    /\ Return(c)
    /\ UNCHANGED <<status, payments, commissions, rewarded, deaths>>

-----------------------------------------------------------------------------

\* The request dies between two statements, or its next statement fails.
Die(c) ==
    /\ clerks[c] # Idle
    /\ deaths < MaxDeaths
    /\ deaths' = deaths + 1
    /\ Return(c)
    /\ UNCHANGED ledger

Start(c) ==
    \E i \in Invoices :
        \/ CreateInvoice(c, i)
        \/ IssueInvoice(c, i)
        \/ CancelInvoice(c, i)
        \/ \E r \in Receipts, amount \in 1..Total : RecordPayment(c, i, r, amount)
        \/ i \in Otc /\ VerifyBAST(c, i)

Step(c) ==
    \/ WriteIssued(c)
    \/ WriteCancelled(c)
    \/ InsertPayment(c)
    \/ SumPayments(c)
    \/ FlipPaid(c)
    \/ Reload(c)
    \/ CheckCommission(c)
    \/ InsertShare(c)
    \/ Reward(c)
    \/ ApproveInstall(c)

Next == \E c \in Clerks : Start(c) \/ Step(c) \/ Die(c)

Spec == Init /\ [][Next]_vars

-----------------------------------------------------------------------------
(* Properties *)

Pcs == {"idle", "issue", "cancel", "insert", "sum", "flip", "reload", "commission",
        "share", "reward", "approve", "approveFree"}

ClerkStates ==
    [pc  : Pcs,
     req : [op : Requests, invoice : Invoices \cup {None}, receipt : Receipts \cup {None},
            amount : 0..Total, share : 0..Shares]]

\* The tables and the requests in progress are well formed.
TypeOK ==
    /\ status \in [Invoices -> Statuses \cup {"absent"}]
    /\ payments \in [Receipts -> [invoice : Invoices \cup {None}, amount : 0..Total]]
    /\ commissions \in [Otc -> [1..Shares -> Receipts \cup {None}]]
    /\ rewarded \subseteq Otc
    /\ installed \in [Otc -> {"no", "free", "charged"}]
    /\ clerks \in [Clerks -> ClerkStates]
    /\ deaths \in 0..MaxDeaths

\* RecordPayment recomputes the sum in a statement of its own, after its
\* INSERT: of overlapping payments that together cover an invoice, the last one
\* to sum sees them all and settles it.  (A payment that died may not.)
CoveredIsSettled ==
    \A i \in Invoices :
        Quiet /\ deaths = 0 /\ SumConfirmed(i) >= Total => status[i] = "paid"

\* Overlapping payments that all settle an order's one-time charge leave its
\* commission split complete, although each of them skips the rows it finds.
CommissionIsComplete ==
    \A i \in Otc :
        Quiet /\ deaths = 0 /\ SumConfirmed(i) >= Total =>
            \A s \in 1..Shares : commissions[i][s] # None

=============================================================================
