--------------------------- MODULE RecurringBilling ---------------------------
(***************************************************************************)
(* The first two passes of the billing tick: an invoice per customer and   *)
(* billing period, and a late fee per overdue invoice. A tick lists rows   *)
(* and then works through them one statement at a time; another tick (a    *)
(* replica, the /cycles/run endpoint, the next timer) may overlap it, any  *)
(* statement can fail, and the process can die between two of them.        *)
(***************************************************************************)
EXTENDS BillingCalendar, FiniteSets, SequencesExt

CONSTANTS
    Orders, Customers,
    Owner,             \* order -> its customer
    CycleAnchorDay,    \* the billing schema's override, 0 for the anniversary
    DueOffset,         \* days from period start to the due date
    Grace,             \* days past due before a late fee
    FeeDue,            \* days a late fee has to be paid
    FeePage,           \* add-on invoices of an order the late-fee check sees
    Ticks,             \* ticks that may be in progress at once
    LastDay,           \* (bound) the last day looked at
    MaxInvoices,       \* (bound) on the invoices table
    None

ASSUME RecurringAssumption ==
    /\ Owner \in [Orders -> Customers]
    /\ {CycleAnchorDay, DueOffset, Grace, FeeDue} \subseteq Nat
    /\ {FeePage, MaxInvoices} \subseteq Nat \ {0}
    /\ LastDay \in BillingDays

VARIABLES
    today,
    status,        \* crm.customers: customer -> status
    activated,     \* order -> day of its latest BAST verification
    invoices,      \* billing.invoices, oldest first
    cycles,        \* billing.billing_cycles
    tick           \* tick -> where it stands and what it has listed

vars == <<today, status, activated, invoices, cycles, tick>>

Days == 0 .. LastDay
NoPeriod == [start |-> 0, end |-> 0]
Idle == [at |-> "idle", day |-> 0, orders |-> {}, order |-> None,
         period |-> NoPeriod, overdue |-> {}, invoice |-> 0]

\* Invoices number themselves by age; the row of a late fee names the invoice
\* its penalty line is about, a recurring one the period it bills.
Invoice(type, order, start, of, due) ==
    [type |-> type, order |-> order, start |-> start, of |-> of, due |-> due,
     status |-> "issued"]
Recurring == {i \in DOMAIN invoices : invoices[i].type = "recurring"}
FeesOf(i) == {j \in DOMAIN invoices : invoices[j].type = "addon" /\ invoices[j].of = i}

Issue(invoice) ==
    /\ Len(invoices) < MaxInvoices
    /\ invoices' = Append(invoices, invoice)

-----------------------------------------------------------------------------
(* What the ticks read: the customers' state, the days, the payments.      *)

NewDay ==
    /\ today < LastDay
    /\ today' = today + 1
    /\ UNCHANGED <<status, activated, invoices, cycles, tick>>

SetCustomerStatus(c) ==
    /\ \E s \in {"active", "suspended"} \ {status[c]} :
            status' = [status EXCEPT ![c] = s]
    /\ UNCHANGED <<today, activated, invoices, cycles, tick>>

\* NOC verifies a BAST of some work order of the order, whatever the verdict:
\* the listing takes the latest such day as the activation.
BASTVerified(o) ==
    /\ activated[o] # today
    /\ activated' = [activated EXCEPT ![o] = today]
    /\ UNCHANGED <<today, status, invoices, cycles, tick>>

\* An issued invoice is paid or cancelled.
CloseInvoice(i) ==
    /\ invoices[i].status = "issued"
    /\ invoices' = [invoices EXCEPT ![i].status = "closed"]
    /\ UNCHANGED <<today, status, activated, cycles, tick>>

-----------------------------------------------------------------------------
(* Pass 1, recurring invoices.                                             *)

ActiveOrdersForRecurring ==
    {[order |-> o, activated |-> activated[o]] :
        o \in {x \in Orders : status[Owner[x]] = "active"}}

BeginTick(t) ==
    /\ tick[t] = Idle
    /\ tick' = [tick EXCEPT ![t] = [Idle EXCEPT !.at = "orders", !.day = today,
                                    !.orders = ActiveOrdersForRecurring]]
    /\ UNCHANGED <<today, status, activated, invoices, cycles>>

\* (defect) the period is looked up by its last day
ExistsForPeriod_byEnd(c, start) == \E r \in cycles : r.customer = c /\ r.end = start

ExistsForPeriod(c, start) ==
    \E r \in cycles : r.customer = c /\ r.start = start

\* A listed order: nothing to do when its customer's period has a row.
CheckOrder(t, row) ==
    /\ tick[t].at = "orders" /\ row \in tick[t].orders
    /\ LET period == cyclePeriod(tick[t].day, row.activated, CycleAnchorDay)
           rest   == [tick[t] EXCEPT !.orders = @ \ {row}]
       IN  tick' = [tick EXCEPT ![t] =
               IF ExistsForPeriod(Owner[row.order], period.start) THEN rest
               ELSE [rest EXCEPT !.at = "invoice", !.order = row.order,
                                 !.period = period]]
    /\ UNCHANGED <<today, status, activated, invoices, cycles>>

\* The existence check fails: the error is reported and the order skipped.
CheckOrderFails(t, row) ==
    /\ tick[t].at = "orders" /\ row \in tick[t].orders
    /\ tick' = [tick EXCEPT ![t].orders = @ \ {row}]
    /\ UNCHANGED <<today, status, activated, invoices, cycles>>

IssueRecurring(t) ==
    /\ tick[t].at = "invoice"
    /\ Issue(Invoice("recurring", tick[t].order, tick[t].period.start, 0,
                     tick[t].period.start + DueOffset))
    /\ \E readBack \in BOOLEAN :
        tick' = [tick EXCEPT ![t].at = "cycle",
                             ![t].invoice = IF readBack THEN Len(invoices') ELSE 0]
    /\ UNCHANGED <<today, status, activated, cycles>>

IssueRecurringFails(t) ==
    /\ tick[t].at = "invoice"
    /\ tick' = [tick EXCEPT ![t].at = "cycle"]
    /\ UNCHANGED <<today, status, activated, invoices, cycles>>

\* (defect) the order stays in hand
NextOrder_keepsOrder(t) ==
    tick' = [tick EXCEPT ![t].at = "orders", ![t].period = NoPeriod, ![t].invoice = 0]

\* Back to the listing, nothing in hand.
NextOrder(t) ==
    tick' = [tick EXCEPT ![t].at = "orders", ![t].order = None,
                         ![t].period = NoPeriod, ![t].invoice = 0]

\* (defect) only a cycle that has its invoice gets a row
RecordCycle_generatedOnly(t) ==
    /\ tick[t].at = "cycle"
    /\ LET c == Owner[tick[t].order]
       IN  cycles' = IF ExistsForPeriod(c, tick[t].period.start) \/ tick[t].invoice = 0
                     THEN cycles
                     ELSE cycles \cup {[customer |-> c, order |-> tick[t].order,
                                        start |-> tick[t].period.start,
                                        end |-> tick[t].period.end,
                                        invoice |-> tick[t].invoice]}
    /\ NextOrder(t)
    /\ UNCHANGED <<today, status, activated, invoices>>

\* The row of the cycle, generated with its invoice or failed without one. The
\* unique index refuses a second row for a period; the error is dropped.
RecordCycle(t) ==
    /\ tick[t].at = "cycle"
    /\ LET c == Owner[tick[t].order]
       IN  cycles' = IF ExistsForPeriod(c, tick[t].period.start) THEN cycles
                     ELSE cycles \cup {[customer |-> c, order |-> tick[t].order,
                                        start |-> tick[t].period.start,
                                        end |-> tick[t].period.end,
                                        invoice |-> tick[t].invoice]}
    /\ NextOrder(t)
    /\ UNCHANGED <<today, status, activated, invoices>>

RecordCycleFails(t) ==
    /\ tick[t].at = "cycle"
    /\ NextOrder(t)
    /\ UNCHANGED <<today, status, activated, invoices, cycles>>

-----------------------------------------------------------------------------
(* Pass 2, late fees.                                                      *)

Overdue(day) ==
    {i \in DOMAIN invoices :
        invoices[i].status = "issued" /\ invoices[i].due + Grace < day}

ListOverdue(t) ==
    /\ tick[t].at = "orders" /\ tick[t].orders = {}
    /\ tick' = [tick EXCEPT ![t].at = "overdue",
                            ![t].overdue = Overdue(tick[t].day)]
    /\ UNCHANGED <<today, status, activated, invoices, cycles>>

\* The order's latest add-on invoices, as many as the check reads.
AddonPage(o) ==
    LET addons == {i \in DOMAIN invoices :
                     invoices[i].type = "addon" /\ invoices[i].order = o}
    IN  {i \in addons : Cardinality({j \in addons : j > i}) < FeePage}

\* (defect) only fees still to be paid count
hasLateFeeForInvoice_issuedOnly(i) ==
    \E j \in AddonPage(invoices[i].order) :
        invoices[j].of = i /\ invoices[j].status = "issued"

hasLateFeeForInvoice(i) ==
    \E j \in AddonPage(invoices[i].order) : invoices[j].of = i

CheckInvoice(t, i) ==
    /\ tick[t].at = "overdue" /\ i \in tick[t].overdue
    /\ LET rest == [tick[t] EXCEPT !.overdue = @ \ {i}]
       IN  tick' = [tick EXCEPT ![t] =
               IF hasLateFeeForInvoice(i) THEN rest
               ELSE [rest EXCEPT !.at = "fee", !.invoice = i]]
    /\ UNCHANGED <<today, status, activated, invoices, cycles>>

\* The fee is an invoice of its own; whether it is read back does not matter.
IssueLateFee(t) ==
    /\ tick[t].at = "fee"
    /\ Issue(Invoice("addon", invoices[tick[t].invoice].order, 0, tick[t].invoice,
                     tick[t].day + FeeDue))
    /\ tick' = [tick EXCEPT ![t].at = "overdue", ![t].invoice = 0]
    /\ UNCHANGED <<today, status, activated, cycles>>

\* The insert fails, or (CheckInvoiceFails) the check before it: the error is
\* reported and the pass goes on to the next invoice.
IssueLateFeeFails(t) ==
    /\ tick[t].at = "fee"
    /\ tick' = [tick EXCEPT ![t].at = "overdue", ![t].invoice = 0]
    /\ UNCHANGED <<today, status, activated, invoices, cycles>>

CheckInvoiceFails(t, i) ==
    /\ tick[t].at = "overdue" /\ i \in tick[t].overdue
    /\ tick' = [tick EXCEPT ![t].overdue = @ \ {i}]
    /\ UNCHANGED <<today, status, activated, invoices, cycles>>

\* Passes 3 and 4 follow (module Subscriptions).
EndTick(t) ==
    /\ tick[t].at = "overdue" /\ tick[t].overdue = {}
    /\ tick' = [tick EXCEPT ![t] = Idle]
    /\ UNCHANGED <<today, status, activated, invoices, cycles>>

\* The listing fails and the late fees follow at once.
ListOrdersFails(t) ==
    /\ tick[t] = Idle
    /\ tick' = [tick EXCEPT ![t] = [Idle EXCEPT !.at = "orders", !.day = today]]
    /\ UNCHANGED <<today, status, activated, invoices, cycles>>

\* The process dies, or the listing of overdue invoices fails.
Crash(t) ==
    /\ tick[t] # Idle
    /\ tick' = [tick EXCEPT ![t] = Idle]
    /\ UNCHANGED <<today, status, activated, invoices, cycles>>

-----------------------------------------------------------------------------
Init ==
    /\ today = MonthStarts[2]
    /\ status \in [Customers -> {"active", "suspended"}]
    /\ activated \in [Orders -> 0 .. today]
    /\ invoices = <<>>
    /\ cycles = {}
    /\ tick = [t \in Ticks |-> Idle]

World ==
    \/ NewDay
    \/ \E c \in Customers : SetCustomerStatus(c)
    \/ \E o \in Orders : BASTVerified(o)
    \/ \E i \in DOMAIN invoices : CloseInvoice(i)

TickStep(t) ==
    \/ BeginTick(t)
    \/ \E row \in tick[t].orders : CheckOrder(t, row)
    \/ IssueRecurring(t)
    \/ RecordCycle(t)
    \/ ListOverdue(t)
    \/ \E i \in tick[t].overdue : CheckInvoice(t, i)
    \/ IssueLateFee(t)
    \/ EndTick(t)

TickFailure(t) ==
    \/ ListOrdersFails(t)
    \/ \E row \in tick[t].orders : CheckOrderFails(t, row)
    \/ IssueRecurringFails(t)
    \/ RecordCycleFails(t)
    \/ \E i \in tick[t].overdue : CheckInvoiceFails(t, i)
    \/ IssueLateFeeFails(t)
    \/ Crash(t)

Next == World \/ \E t \in Ticks : TickStep(t) \/ TickFailure(t)

Spec == Init /\ [][Next]_vars

\* The timer fires every half hour and a pass works through what it listed;
\* what fails now and again does not fail for ever.
Fairness ==
    \A t \in Ticks :
        /\ WF_vars(TickStep(t) \/ TickFailure(t))
        /\ SF_vars(BeginTick(t))
        /\ \A o \in Orders :
             SF_vars(\E row \in tick[t].orders : row.order = o /\ CheckOrder(t, row))
        /\ SF_vars(IssueRecurring(t) \/ IssueRecurringFails(t))
        /\ SF_vars(RecordCycle(t))

FairSpec == Spec /\ Fairness

-----------------------------------------------------------------------------
CycleRows == [customer : Customers, order : Orders, start : Nat, end : Nat,
              invoice : Nat]
InvoiceRows ==
    [type : {"recurring", "addon"}, order : Orders, start : Nat, of : Nat,
     due : Nat, status : {"issued", "closed"}]

\* Every variable keeps its type, and what a tick has in hand is what its
\* stage needs: no step of billing runs on a row it has not read or written.
TypeOK ==
    /\ today \in Days
    /\ status \in [Customers -> {"active", "suspended"}]
    /\ activated \in [Orders -> Days]
    /\ invoices \in Seq(InvoiceRows)
    /\ cycles \subseteq CycleRows
    /\ \A t \in Ticks :
        /\ tick[t].at \in {"idle", "orders", "invoice", "cycle", "overdue", "fee"}
        /\ tick[t].day \in Days
        /\ tick[t].orders \subseteq [order : Orders, activated : Days]
        /\ tick[t].order \in Orders \cup {None}
        /\ tick[t].period \in [start : Nat, end : Nat]
        /\ tick[t].overdue \subseteq DOMAIN invoices
        /\ tick[t].invoice \in {0} \cup DOMAIN invoices
        /\ tick[t].at \in {"invoice", "cycle"} <=> tick[t].order # None
        /\ tick[t].at = "fee" => tick[t].invoice # 0

\* One tick at a time, whatever fails or dies in it, bills a customer twice for
\* one period only when the first invoice never got its cycle row: the row is
\* what the scheduler remembers a period by.
RebilledOnlyIfUnrecorded ==
    \A i, j \in Recurring :
        /\ i < j
        /\ Owner[invoices[i].order] = Owner[invoices[j].order]
        /\ invoices[i].start = invoices[j].start
        => ~ \E r \in cycles : r.invoice = i

\* One tick at a time, whatever fails or dies in it, charges an invoice one
\* late fee: the fee's own row is what the check finds, paid or not.
OneFeePerInvoice == \A i \in DOMAIN invoices : Cardinality(FeesOf(i)) <= 1

\* A customer who stays active is billed for the current period of each order:
\* every period ends up with a cycle row, generated or failed.
PeriodsAreAccounted ==
    \A o \in Orders :
        <>[](status[Owner[o]] = "active") =>
            <>[]ExistsForPeriod(Owner[o],
                    cyclePeriod(today, activated[o], CycleAnchorDay).start)

\* A customer's billing periods do not overlap: no day is billed twice.
PeriodsAreDisjoint ==
    \A r, s \in cycles :
        /\ r.order = s.order /\ r.start < s.start
        => r.end < s.start

=============================================================================
