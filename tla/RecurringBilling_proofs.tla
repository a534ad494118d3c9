----------------------- MODULE RecurringBilling_proofs -----------------------
(***************************************************************************)
(* What one billing tick at a time promises, for any calendar, orders and  *)
(* customers, and any bound on days and invoices. The argument: from the   *)
(* look for a cycle row to its INSERT the order and period in hand have    *)
(* none, and the invoice in hand is the newest; from the look for a fee    *)
(* to its INSERT the overdue invoice in hand has none.                     *)
(***************************************************************************)
EXTENDS RecurringBilling, FiniteSetTheorems, TLAPS

\* The settings the promise is made in: ticks do not overlap.
OneTick == \A s, t \in Ticks : s = t

Starts == {cyclePeriod(d, a, CycleAnchorDay).start : d \in Nat, a \in Nat} \cup {0}
Ends == {cyclePeriod(d, a, CycleAnchorDay).end : d \in Nat, a \in Nat} \cup {0}
Dues == {s + DueOffset : s \in Starts} \cup {d + FeeDue : d \in Nat}

Bills == [type : {"recurring", "addon"}, order : Orders, start : Starts, of : Nat,
          due : Dues, status : {"issued", "closed"}]
Cycles == [customer : Customers, order : Orders, start : Starts, end : Ends, invoice : Nat]
Listed == [order : Orders, activated : Nat]
Hands == [at : {"idle", "orders", "invoice", "cycle", "overdue", "fee"}, day : Nat,
          orders : SUBSET Listed, order : Orders \cup {None},
          period : [start : Starts, end : Ends], overdue : SUBSET Nat, invoice : Nat]

TypesOK ==
    /\ today \in Nat
    /\ activated \in [Orders -> Nat]
    /\ invoices \in Seq(Bills)
    /\ cycles \subseteq Cycles
    /\ tick \in [Ticks -> Hands]

\* Bill i is of the given customer and period.
BillOf(i, c, start) ==
    /\ i \in DOMAIN invoices /\ invoices[i].type = "recurring"
    /\ Owner[invoices[i].order] = c /\ invoices[i].start = start

\* A cycle row that names a bill names one of its own customer and period.
RowsNameTheirBill ==
    \A r \in cycles : r.invoice # 0 => BillOf(r.invoice, r.customer, r.start)

\* What tick h has in hand at its stage.
InHand(h) ==
    /\ h.overdue \subseteq DOMAIN invoices
    /\ h.at = "fee" => h.invoice \in DOMAIN invoices
    /\ h.at \in {"orders", "invoice"} => h.invoice = 0
    /\ h.at \in {"invoice", "cycle"} =>
        /\ h.order \in Orders
        /\ ~ExistsForPeriod(Owner[h.order], h.period.start)
    /\ h.at = "cycle" /\ h.invoice # 0 =>
        /\ h.invoice = Len(invoices)
        /\ BillOf(h.invoice, Owner[h.order], h.period.start)

IInv ==
    /\ TypesOK
    /\ RowsNameTheirBill
    /\ \A t \in Ticks : InHand(tick[t])
    /\ RebilledOnlyIfUnrecorded

LEMMA Calendar ==
    /\ MonthStarts[2] \in Nat
    /\ NoPeriod \in [start : Starts, end : Ends]
    /\ \A d, a \in Nat : cyclePeriod(d, a, CycleAnchorDay) \in [start : Starts, end : Ends]
<1>1. MonthStarts[2] \in Nat
  BY CalendarAssumption
<1>2. NoPeriod \in [start : Starts, end : Ends]
  BY DEF NoPeriod, Starts, Ends
<1>3. ASSUME NEW d \in Nat, NEW a \in Nat
      PROVE  cyclePeriod(d, a, CycleAnchorDay) \in [start : Starts, end : Ends]
  <2>1. PICK x, y : cyclePeriod(d, a, CycleAnchorDay) = [start |-> x, end |-> y]
    BY DEF cyclePeriod
  <2>2. /\ cyclePeriod(d, a, CycleAnchorDay).start \in Starts
        /\ cyclePeriod(d, a, CycleAnchorDay).end \in Ends
    BY DEF Starts, Ends
  <2> QED
    BY <2>1, <2>2
<1> QED
  BY <1>1, <1>2, <1>3

LEMMA IInvInit == Init => IInv
<1> SUFFICES ASSUME Init PROVE IInv
  OBVIOUS
<1>1. TypesOK
  <2>1. Idle \in Hands
    BY Calendar DEF Idle, Hands
  <2> QED
    BY <2>1, Calendar DEF Init, TypesOK
<1> QED
  BY <1>1 DEF Init, IInv, RowsNameTheirBill, InHand, RebilledOnlyIfUnrecorded, Recurring, Idle

-----------------------------------------------------------------------------
(* Steps that only move the tick.                                          *)

LEMMA TickMoves ==
    ASSUME OneTick, IInv, NEW t \in Ticks, NEW h \in Hands, InHand(h),
           tick' = [tick EXCEPT ![t] = h],
           UNCHANGED <<today, status, activated, invoices, cycles>>
    PROVE  IInv'
<1>1. TypesOK'
  BY DEF IInv, TypesOK
<1>2. ASSUME NEW s \in Ticks PROVE InHand(tick[s])'
  <2>1. tick'[s] = h
    BY DEF OneTick, IInv, TypesOK
  <2>2. InHand(h)'
    BY DEF InHand, BillOf, ExistsForPeriod
  <2> QED
    BY <2>1, <2>2 DEF InHand, BillOf, ExistsForPeriod
<1> QED
  BY <1>1, <1>2 DEF IInv, RowsNameTheirBill, BillOf, RebilledOnlyIfUnrecorded, Recurring

LEMMA IdleInHand == Idle \in Hands /\ InHand(Idle)
  BY Calendar DEF Idle, Hands, InHand

\* Begin, list, skip, check, fail, end and crash.
LEMMA QuietSteps ==
    ASSUME OneTick, IInv, NEW t \in Ticks,
           \/ BeginTick(t) \/ ListOrdersFails(t) \/ ListOverdue(t)
           \/ \E row \in tick[t].orders : CheckOrderFails(t, row)
           \/ \E i \in tick[t].overdue : CheckInvoice(t, i) \/ CheckInvoiceFails(t, i)
           \/ IssueRecurringFails(t) \/ RecordCycleFails(t) \/ IssueLateFeeFails(t)
           \/ EndTick(t) \/ Crash(t)
    PROVE  IInv'
<1>0. tick[t] \in Hands /\ InHand(tick[t]) /\ today \in Nat /\ tick \in [Ticks -> Hands]
  BY DEF IInv, TypesOK
<1>i. Idle \in Hands /\ InHand(Idle)
  BY IdleInHand
<1>1. CASE BeginTick(t)
  <2> DEFINE h == [Idle EXCEPT !.at = "orders", !.day = today,
                               !.orders = ActiveOrdersForRecurring]
  <2>1. ActiveOrdersForRecurring \subseteq Listed
    BY DEF ActiveOrdersForRecurring, Listed, IInv, TypesOK
  <2>2. h \in Hands /\ InHand(h)
    BY <2>1, <1>0, Calendar DEF Idle, Hands, InHand
  <2> QED
    BY <1>1, <2>2, TickMoves DEF BeginTick
<1>2. CASE ListOrdersFails(t)
  <2> DEFINE h == [Idle EXCEPT !.at = "orders", !.day = today]
  <2>1. h \in Hands /\ InHand(h)
    BY <1>0, Calendar DEF Idle, Hands, InHand
  <2> QED
    BY <1>2, <2>1, TickMoves DEF ListOrdersFails
<1>3. CASE ListOverdue(t)
  <2> DEFINE h == [tick[t] EXCEPT !.at = "overdue", !.overdue = Overdue(tick[t].day)]
  <2>1. Overdue(tick[t].day) \subseteq DOMAIN invoices /\ DOMAIN invoices \subseteq Nat
    BY DEF Overdue, IInv, TypesOK
  <2>2. h \in Hands /\ InHand(h)
    BY <2>1, <1>0 DEF Hands, InHand
  <2>3. tick' = [tick EXCEPT ![t] = h]
    BY <1>3, <1>0 DEF ListOverdue
  <2> QED
    BY <1>3, <2>2, <2>3, TickMoves DEF ListOverdue
<1>4. CASE \E row \in tick[t].orders : CheckOrderFails(t, row)
  <2> PICK row \in tick[t].orders : CheckOrderFails(t, row)
    BY <1>4
  <2> DEFINE h == [tick[t] EXCEPT !.orders = @ \ {row}]
  <2>1. h \in Hands /\ InHand(h)
    BY <1>0 DEF Hands, InHand, BillOf
  <2> QED
    BY <2>1, <1>0, TickMoves DEF CheckOrderFails
<1>5. ASSUME NEW i \in tick[t].overdue, CheckInvoice(t, i) PROVE IInv'
  <2> DEFINE rest == [tick[t] EXCEPT !.overdue = @ \ {i}]
             h == [rest EXCEPT !.at = "fee", !.invoice = i]
  <2>1. tick[t].at = "overdue" /\ i \in DOMAIN invoices /\ i \in Nat
    BY <1>0, <1>5 DEF CheckInvoice, InHand, Hands
  <2>2. rest \in Hands /\ InHand(rest) /\ h \in Hands /\ InHand(h)
    BY <2>1, <1>0 DEF Hands, InHand
  <2>3. tick' = [tick EXCEPT ![t] = rest] \/ tick' = [tick EXCEPT ![t] = h]
    BY <1>5 DEF CheckInvoice
  <2> QED
    BY <1>5, <2>2, <2>3, TickMoves DEF CheckInvoice
<1>6. ASSUME NEW i \in tick[t].overdue, CheckInvoiceFails(t, i) PROVE IInv'
  <2> DEFINE h == [tick[t] EXCEPT !.overdue = @ \ {i}]
  <2>1. h \in Hands /\ InHand(h)
    BY <1>0 DEF Hands, InHand, BillOf
  <2> QED
    BY <2>1, <1>6, <1>0, TickMoves DEF CheckInvoiceFails
<1>7. CASE IssueRecurringFails(t)
  <2> DEFINE h == [tick[t] EXCEPT !.at = "cycle"]
  <2>1. h \in Hands /\ InHand(h)
    BY <1>7, <1>0 DEF Hands, InHand, IssueRecurringFails
  <2> QED
    BY <1>7, <2>1, <1>0, TickMoves DEF IssueRecurringFails
<1>8. CASE RecordCycleFails(t)
  <2> DEFINE h == [tick[t] EXCEPT !.at = "orders", !.order = None,
                                  !.period = NoPeriod, !.invoice = 0]
  <2>1. h \in Hands /\ InHand(h)
    BY <1>0, Calendar DEF Hands, InHand
  <2>2. tick' = [tick EXCEPT ![t] = h]
    BY <1>8, <1>0 DEF RecordCycleFails, NextOrder
  <2> QED
    BY <1>8, <2>1, <2>2, TickMoves DEF RecordCycleFails
<1>9. CASE IssueLateFeeFails(t)
  <2> DEFINE h == [tick[t] EXCEPT !.at = "overdue", !.invoice = 0]
  <2>1. h \in Hands /\ InHand(h)
    BY <1>0 DEF Hands, InHand
  <2>2. tick' = [tick EXCEPT ![t] = h]
    BY <1>9, <1>0 DEF IssueLateFeeFails
  <2> QED
    BY <1>9, <2>1, <2>2, TickMoves DEF IssueLateFeeFails
<1>10. CASE EndTick(t)
  BY <1>10, <1>i, TickMoves DEF EndTick
<1>11. CASE Crash(t)
  BY <1>11, <1>i, TickMoves DEF Crash
<1> QED
  BY <1>1, <1>2, <1>3, <1>4, <1>5, <1>6, <1>7, <1>8, <1>9, <1>10, <1>11

LEMMA CheckOrderStep ==
    ASSUME OneTick, IInv, NEW t \in Ticks, NEW row \in tick[t].orders,
           CheckOrder(t, row)
    PROVE  IInv'
<1> DEFINE period == cyclePeriod(tick[t].day, row.activated, CycleAnchorDay)
           rest   == [tick[t] EXCEPT !.orders = @ \ {row}]
           h      == [rest EXCEPT !.at = "invoice", !.order = row.order,
                                  !.period = period]
<1>1. /\ tick[t] \in Hands /\ InHand(tick[t]) /\ tick[t].at = "orders"
      /\ row.order \in Orders /\ tick[t].day \in Nat /\ row.activated \in Nat
  BY DEF IInv, TypesOK, CheckOrder, Hands, Listed
<1>2. period \in [start : Starts, end : Ends]
  BY <1>1, Calendar
<1> HIDE DEF period
<1>3. rest \in Hands /\ InHand(rest)
  BY <1>1 DEF Hands, InHand, BillOf
<1>4. CASE ExistsForPeriod(Owner[row.order], period.start)
  BY <1>3, <1>4, TickMoves DEF CheckOrder, period
<1>5. CASE ~ExistsForPeriod(Owner[row.order], period.start)
  <2>1. h \in Hands /\ InHand(h)
    BY <1>1, <1>2, <1>5 DEF Hands, InHand
  <2> QED
    BY <2>1, <1>5, TickMoves DEF CheckOrder, period
<1> QED
  BY <1>4, <1>5

-----------------------------------------------------------------------------
(* Steps that write an invoice or a cycle row.                             *)

\* The new bill's customer and period had no cycle row, so none names an older
\* bill of theirs.
LEMMA IssueRecurringStep ==
    ASSUME OneTick, IInv, NEW t \in Ticks, IssueRecurring(t)
    PROVE  IInv'
<1> DEFINE h == tick[t]
           bill == Invoice("recurring", h.order, h.period.start, 0,
                           h.period.start + DueOffset)
           n == Len(invoices) + 1
<1>1. /\ h \in Hands /\ InHand(h) /\ h.at = "invoice" /\ h.invoice = 0
      /\ h.order \in Orders /\ h.period \in [start : Starts, end : Ends]
      /\ h.period.start \in Starts
      /\ ~ExistsForPeriod(Owner[h.order], h.period.start)
  BY DEF IInv, TypesOK, IssueRecurring, InHand, Hands
<1>2. invoices \in Seq(Bills) /\ tick \in [Ticks -> Hands] /\ cycles \subseteq Cycles
  BY DEF IInv, TypesOK
<1>3. bill \in Bills
  <2>1. h.period.start + DueOffset \in Dues
    BY <1>1 DEF Dues
  <2> QED
    BY <1>1, <2>1 DEF Invoice, Bills
<1>4. /\ bill.type = "recurring" /\ bill.order = h.order
      /\ bill.start = h.period.start
  BY DEF Invoice
<1>5. invoices' = Append(invoices, bill) /\ UNCHANGED <<today, status, activated, cycles>>
  BY DEF IssueRecurring, Issue
<1> HIDE DEF bill
<1>6. /\ invoices' \in Seq(Bills) /\ Len(invoices') = n /\ n \in Nat \ {0}
      /\ DOMAIN invoices = 1 .. Len(invoices) /\ DOMAIN invoices' = 1 .. n
      /\ invoices'[n] = bill
      /\ \A k \in DOMAIN invoices : invoices'[k] = invoices[k]
  BY <1>2, <1>3, <1>5
<1>7. PICK m \in {0, n} :
        tick' = [tick EXCEPT ![t].at = "cycle", ![t].invoice = m]
  BY <1>6 DEF IssueRecurring
<1> DEFINE g == [h EXCEPT !.at = "cycle", !.invoice = m]
<1>8. tick' = [tick EXCEPT ![t] = g] /\ g \in Hands
  BY <1>1, <1>2, <1>6, <1>7 DEF Hands
<1>9. /\ g.at = "cycle" /\ g.order = h.order /\ g.period = h.period
      /\ g.overdue = h.overdue /\ g.invoice = m
  BY <1>1 DEF Hands
<1> HIDE DEF g, h
<1>10. TypesOK'
  BY <1>5, <1>6, <1>8 DEF IInv, TypesOK
<1>11. RowsNameTheirBill'
  BY <1>5, <1>6 DEF IInv, RowsNameTheirBill, BillOf
<1>12. ASSUME NEW s \in Ticks PROVE InHand(tick[s])'
  <2>1. tick'[s] = g
    BY <1>2, <1>8 DEF OneTick
  <2>2. g.overdue \subseteq DOMAIN invoices'
    BY <1>1, <1>6, <1>9 DEF InHand
  <2>3. ~\E r \in cycles' : r.customer = Owner[g.order] /\ r.start = g.period.start
    BY <1>1, <1>5, <1>9 DEF ExistsForPeriod
  <2>4. m # 0 => /\ m \in DOMAIN invoices' /\ invoices'[m].type = "recurring"
                 /\ Owner[invoices'[m].order] = Owner[g.order]
                 /\ invoices'[m].start = g.period.start
    BY <1>4, <1>6, <1>9
  <2> QED
    BY <2>1, <2>2, <2>3, <2>4, <1>1, <1>6, <1>9 DEF InHand, ExistsForPeriod, BillOf
<1>13. RebilledOnlyIfUnrecorded'
  <2> SUFFICES ASSUME NEW i \in DOMAIN invoices', NEW j \in DOMAIN invoices',
                      invoices'[i].type = "recurring", invoices'[j].type = "recurring",
                      i < j, Owner[invoices'[i].order] = Owner[invoices'[j].order],
                      invoices'[i].start = invoices'[j].start,
                      NEW r \in cycles, r.invoice = i
               PROVE  FALSE
    BY <1>5 DEF RebilledOnlyIfUnrecorded, Recurring
  <2>1. i \in DOMAIN invoices /\ i # 0
    BY <1>6
  <2>2. CASE j = n
    <3>1. BillOf(i, r.customer, r.start)
      BY <2>1 DEF IInv, RowsNameTheirBill
    <3>2. r.customer = Owner[h.order] /\ r.start = h.period.start
      BY <3>1, <2>1, <2>2, <1>4, <1>6 DEF BillOf
    <3> QED
      BY <3>2, <1>1 DEF ExistsForPeriod
  <2>3. CASE j # n
    <3>1. j \in DOMAIN invoices
      BY <2>3, <1>6
    <3> QED
      BY <3>1, <2>1, <1>6 DEF IInv, RebilledOnlyIfUnrecorded, Recurring
  <2> QED
    BY <2>2, <2>3
<1> QED
  BY <1>10, <1>11, <1>12, <1>13 DEF IInv

\* A cycle row is written for the newest bill, or for none.
LEMMA RecordCycleStep ==
    ASSUME OneTick, IInv, NEW t \in Ticks, RecordCycle(t)
    PROVE  IInv'
<1> DEFINE h == tick[t]
           c == Owner[h.order]
           row == [customer |-> c, order |-> h.order, start |-> h.period.start,
                   end |-> h.period.end, invoice |-> h.invoice]
           g == [h EXCEPT !.at = "orders", !.order = None, !.period = NoPeriod,
                          !.invoice = 0]
<1>1. /\ h \in Hands /\ InHand(h) /\ h.at = "cycle" /\ h.order \in Orders
      /\ c \in Customers /\ h.period.start \in Starts /\ h.period.end \in Ends
      /\ h.invoice \in Nat
  BY RecurringAssumption DEF IInv, TypesOK, RecordCycle, InHand, Hands
<1>2. invoices \in Seq(Bills) /\ tick \in [Ticks -> Hands] /\ cycles \subseteq Cycles
  BY DEF IInv, TypesOK
<1>3. row \in Cycles
  BY <1>1 DEF Cycles
<1>4. row.customer = c /\ row.start = h.period.start /\ row.invoice = h.invoice
  OBVIOUS
<1>5. cycles' = cycles \/ cycles' = cycles \cup {row}
  BY DEF RecordCycle
<1>6. UNCHANGED <<today, status, activated, invoices>>
  BY DEF RecordCycle
<1>7. tick' = [tick EXCEPT ![t] = g] /\ g \in Hands
  BY <1>1, <1>2, Calendar DEF RecordCycle, NextOrder, Hands
<1>8. g.at = "orders" /\ g.invoice = 0 /\ g.overdue \subseteq DOMAIN invoices'
  BY <1>1, <1>6 DEF InHand, Hands
<1> HIDE DEF row, g
<1>9. TypesOK'
  BY <1>2, <1>3, <1>5, <1>6, <1>7 DEF IInv, TypesOK
<1>10. RowsNameTheirBill'
  <2>1. h.invoice # 0 => BillOf(h.invoice, c, h.period.start)
    BY <1>1 DEF InHand
  <2> QED
    BY <2>1, <1>4, <1>5, <1>6 DEF IInv, RowsNameTheirBill, BillOf
<1>11. ASSUME NEW s \in Ticks PROVE InHand(tick[s])'
  <2>1. tick'[s] = g
    BY <1>2, <1>7 DEF OneTick
  <2> QED
    BY <2>1, <1>8 DEF InHand
<1>12. RebilledOnlyIfUnrecorded'
  <2>1. ASSUME NEW i \in DOMAIN invoices, NEW j \in DOMAIN invoices, i < j
        PROVE  row.invoice # i
    BY <2>1, <1>1, <1>2, <1>4 DEF InHand
  <2> QED
    BY <2>1, <1>5, <1>6 DEF IInv, RebilledOnlyIfUnrecorded, Recurring
<1> QED
  BY <1>9, <1>10, <1>11, <1>12 DEF IInv

\* A fee is no bill of a period.
LEMMA IssueLateFeeStep ==
    ASSUME OneTick, IInv, NEW t \in Ticks, IssueLateFee(t)
    PROVE  IInv'
<1> DEFINE h == tick[t]
           fee == Invoice("addon", invoices[h.invoice].order, 0, h.invoice, h.day + FeeDue)
           n == Len(invoices) + 1
           g == [h EXCEPT !.at = "overdue", !.invoice = 0]
<1>1. /\ h \in Hands /\ InHand(h) /\ h.at = "fee" /\ h.invoice \in DOMAIN invoices
      /\ h.invoice \in Nat /\ h.day \in Nat
  BY DEF IInv, TypesOK, IssueLateFee, InHand, Hands
<1>2. invoices \in Seq(Bills) /\ tick \in [Ticks -> Hands] /\ cycles \subseteq Cycles
  BY DEF IInv, TypesOK
<1>3. fee \in Bills
  <2>1. invoices[h.invoice] \in Bills /\ invoices[h.invoice].order \in Orders
    <3>1. invoices[h.invoice] \in Bills
      BY <1>1, <1>2
    <3> QED
      BY <3>1 DEF Bills
  <2>2. h.day + FeeDue \in Dues /\ 0 \in Starts
    BY <1>1 DEF Dues, Starts
  <2> QED
    BY <1>1, <2>1, <2>2 DEF Invoice, Bills
<1>4. fee.type = "addon"
  BY DEF Invoice
<1>5. invoices' = Append(invoices, fee) /\ UNCHANGED <<today, status, activated, cycles>>
  BY DEF IssueLateFee, Issue
<1> HIDE DEF fee
<1>6. /\ invoices' \in Seq(Bills)
      /\ DOMAIN invoices = 1 .. Len(invoices) /\ DOMAIN invoices' = 1 .. n
      /\ Len(invoices) \in Nat /\ invoices'[n] = fee
      /\ \A k \in DOMAIN invoices : invoices'[k] = invoices[k]
  BY <1>2, <1>3, <1>5
<1>7. tick' = [tick EXCEPT ![t] = g] /\ g \in Hands
  BY <1>1, <1>2 DEF IssueLateFee, Hands
<1>8. g.at = "overdue" /\ g.overdue \subseteq DOMAIN invoices'
  BY <1>1, <1>6 DEF Hands, InHand
<1> HIDE DEF g
<1>9. TypesOK'
  BY <1>5, <1>6, <1>7 DEF IInv, TypesOK
<1>10. RowsNameTheirBill'
  BY <1>5, <1>6 DEF IInv, RowsNameTheirBill, BillOf
<1>11. ASSUME NEW s \in Ticks PROVE InHand(tick[s])'
  <2>1. tick'[s] = g
    BY <1>2, <1>7 DEF OneTick
  <2> QED
    BY <2>1, <1>8 DEF InHand
<1>12. RebilledOnlyIfUnrecorded'
  <2>1. ASSUME NEW i \in DOMAIN invoices', invoices'[i].type = "recurring"
        PROVE  i \in DOMAIN invoices /\ invoices'[i] = invoices[i]
    BY <2>1, <1>4, <1>6
  <2> QED
    BY <2>1, <1>5 DEF IInv, RebilledOnlyIfUnrecorded, Recurring
<1> QED
  BY <1>9, <1>10, <1>11, <1>12 DEF IInv

\* An invoice that is paid or cancelled stays the bill it was.
LEMMA CloseInvoiceStep ==
    ASSUME OneTick, IInv, NEW i \in DOMAIN invoices, CloseInvoice(i)
    PROVE  IInv'
<1>1. invoices \in Seq(Bills)
  BY DEF IInv, TypesOK
<1>2. /\ invoices' = [invoices EXCEPT ![i].status = "closed"]
      /\ UNCHANGED <<today, status, activated, cycles, tick>>
  BY DEF CloseInvoice
<1>3. /\ DOMAIN invoices' = DOMAIN invoices /\ Len(invoices') = Len(invoices)
      /\ invoices' \in Seq(Bills)
  <2>1. invoices[i] \in Bills
    BY <1>1
  <2>2. [invoices[i] EXCEPT !.status = "closed"] \in Bills
    BY <2>1 DEF Bills
  <2> QED
    BY <1>1, <1>2, <2>2
<1>4. \A k \in DOMAIN invoices :
        /\ invoices'[k].type = invoices[k].type /\ invoices'[k].order = invoices[k].order
        /\ invoices'[k].start = invoices[k].start
  BY <1>1, <1>2 DEF Bills
<1>5. TypesOK' /\ RowsNameTheirBill'
  BY <1>2, <1>3, <1>4 DEF IInv, TypesOK, RowsNameTheirBill, BillOf
<1>6. ASSUME NEW s \in Ticks PROVE InHand(tick[s])'
  BY <1>2, <1>3, <1>4 DEF IInv, InHand, BillOf, ExistsForPeriod
<1>7. RebilledOnlyIfUnrecorded'
  BY <1>2, <1>3, <1>4 DEF IInv, RebilledOnlyIfUnrecorded, Recurring
<1> QED
  BY <1>5, <1>6, <1>7 DEF IInv

-----------------------------------------------------------------------------
LEMMA IInvStep ==
    ASSUME OneTick, IInv, [Next]_vars
    PROVE  IInv'
<1>1. CASE NewDay \/ (\E c \in Customers : SetCustomerStatus(c))
           \/ (\E o \in Orders : BASTVerified(o)) \/ UNCHANGED vars
  <2>1. UNCHANGED <<invoices, cycles, tick>>
    BY <1>1 DEF NewDay, SetCustomerStatus, BASTVerified, vars
  <2>2. today' \in Nat /\ activated' \in [Orders -> Nat]
    BY <1>1 DEF IInv, TypesOK, NewDay, SetCustomerStatus, BASTVerified, vars
  <2> QED
    BY <2>1, <2>2 DEF IInv, TypesOK, RowsNameTheirBill, BillOf, InHand,
          ExistsForPeriod, RebilledOnlyIfUnrecorded, Recurring
<1>2. CASE \E i \in DOMAIN invoices : CloseInvoice(i)
  BY <1>2, CloseInvoiceStep
<1>3. ASSUME NEW t \in Ticks, TickStep(t) PROVE IInv'
  BY <1>3, QuietSteps, CheckOrderStep, IssueRecurringStep, RecordCycleStep,
     IssueLateFeeStep DEF TickStep
<1>4. ASSUME NEW t \in Ticks, TickFailure(t) PROVE IInv'
  BY <1>4, QuietSteps DEF TickFailure
<1> QED
  BY <1>1, <1>2, <1>3, <1>4 DEF Next, World

\* With one tick at a time, for any calendar, orders, customers and schema, and
\* whatever fails or dies: a customer is billed twice for one period only when
\* the first invoice never got the cycle row the scheduler remembers it by.
THEOREM RebilledOnlyIfUnrecordedAlways ==
    OneTick => (Spec => []RebilledOnlyIfUnrecorded)
<1> SUFFICES ASSUME OneTick PROVE Spec => []RebilledOnlyIfUnrecorded
  OBVIOUS
<1>1. Init => IInv
  BY IInvInit
<1>2. IInv /\ [Next]_vars => IInv'
  BY IInvStep
<1>3. IInv => RebilledOnlyIfUnrecorded
  BY DEF IInv
<1> QED
  BY <1>1, <1>2, <1>3, PTL DEF Spec


-----------------------------------------------------------------------------
(* Late fees. The check reads the order's latest add-on invoices, a page of *)
(* them: that it is enough is a setting of the promise.                     *)

Addons(o) == {i \in DOMAIN invoices : invoices[i].type = "addon" /\ invoices[i].order = o}

PagesSuffice == \A o \in Orders : Cardinality(Addons(o)) <= FeePage

\* A fee is of the order of the invoice it is about.
FeesNameTheirInvoice ==
    \A j \in DOMAIN invoices : invoices[j].type = "addon" =>
        /\ invoices[j].of \in DOMAIN invoices
        /\ invoices[invoices[j].of].order = invoices[j].order

FeeInv ==
    /\ FeesNameTheirInvoice
    /\ \A i \in DOMAIN invoices : \A j, k \in FeesOf(i) : j = k
    /\ \A t \in Ticks : tick[t].at = "fee" => FeesOf(tick[t].invoice) = {}

\* The page holds every add-on of the order, so the check finds a fee there is.
LEMMA CheckFindsFee ==
    ASSUME IInv, FeeInv, PagesSuffice, NEW i \in DOMAIN invoices, ~hasLateFeeForInvoice(i)
    PROVE  FeesOf(i) = {}
<1> SUFFICES ASSUME NEW j \in FeesOf(i)
             PROVE  FALSE
  OBVIOUS
<1> DEFINE o == invoices[i].order
           later == {k \in Addons(o) : k > j}
<1>1. invoices \in Seq(Bills)
  BY DEF IInv, TypesOK
<1>2. o \in Orders
  <2>1. invoices[i] \in Bills
    BY <1>1
  <2> QED
    BY <2>1 DEF Bills
<1>3. j \in Addons(o) /\ invoices[j].of = i /\ j \in DOMAIN invoices
  BY DEF FeesOf, Addons, FeeInv, FeesNameTheirInvoice
<1>4. DOMAIN invoices = 1 .. Len(invoices) /\ Len(invoices) \in Nat /\ j \in Nat
  BY <1>1, <1>3
<1>5. IsFiniteSet(Addons(o))
  <2>1. IsFiniteSet(1 .. Len(invoices)) /\ Addons(o) \in SUBSET (1 .. Len(invoices))
    BY <1>4, FS_Interval DEF Addons
  <2> HIDE DEF o
  <2> QED
    BY <2>1, FS_Subset
<1>6. later \in SUBSET Addons(o) /\ j \notin later
  BY <1>4
<1>7. Cardinality(later) < Cardinality(Addons(o))
  <2> HIDE DEF later, o
  <2>1. /\ IsFiniteSet(later) /\ Cardinality(later) <= Cardinality(Addons(o))
        /\ Cardinality(Addons(o)) = Cardinality(later) => Addons(o) = later
    BY <1>5, <1>6, FS_Subset
  <2>2. Cardinality(Addons(o)) \in Nat /\ Cardinality(later) \in Nat
    BY <1>5, <2>1, FS_CardinalityType
  <2> QED
    BY <1>3, <1>6, <2>1, <2>2
<1>8. Cardinality(later) < FeePage
  <2>1. Cardinality(Addons(o)) <= FeePage
    BY <1>2 DEF PagesSuffice
  <2> HIDE DEF later, o
  <2>2. Cardinality(Addons(o)) \in Nat /\ Cardinality(later) \in Nat /\ FeePage \in Nat
    BY <1>5, <1>6, FS_Subset, FS_CardinalityType, RecurringAssumption
  <2> QED
    BY <1>7, <2>1, <2>2
<1>9. j \in AddonPage(o)
  BY <1>3, <1>8 DEF AddonPage, Addons
<1> QED
  BY <1>3, <1>9 DEF hasLateFeeForInvoice

\* Steps that issue no invoice and take none in hand.
LEMMA FeesStay ==
    ASSUME IInv, FeeInv, UNCHANGED invoices,
           \A t \in Ticks : tick'[t].at = "fee" => FeesOf(tick'[t].invoice) = {}
    PROVE  FeeInv'
<1>1. \A i : FeesOf(i)' = FeesOf(i)
  BY DEF FeesOf
<1> QED
  BY <1>1 DEF FeeInv, FeesNameTheirInvoice

LEMMA FeeIsTakenUp ==
    ASSUME OneTick, IInv, FeeInv, PagesSuffice, NEW t \in Ticks, NEW i \in tick[t].overdue,
           CheckInvoice(t, i)
    PROVE  FeeInv'
<1> DEFINE rest == [tick[t] EXCEPT !.overdue = @ \ {i}]
           h == [rest EXCEPT !.at = "fee", !.invoice = i]
<1>1. /\ tick \in [Ticks -> Hands] /\ tick[t] \in Hands /\ tick[t].at = "overdue"
      /\ i \in DOMAIN invoices /\ UNCHANGED invoices
  BY DEF IInv, TypesOK, CheckInvoice, InHand
<1>2. CASE hasLateFeeForInvoice(i)
  <2>1. tick' = [tick EXCEPT ![t] = rest] /\ rest.at = "overdue"
    BY <1>1, <1>2 DEF CheckInvoice, Hands
  <2>2. \A s \in Ticks : tick'[s].at = "overdue"
    BY <1>1, <2>1 DEF OneTick
  <2> QED
    BY <1>1, <2>2, FeesStay
<1>3. CASE ~hasLateFeeForInvoice(i)
  <2>1. tick' = [tick EXCEPT ![t] = h] /\ h.invoice = i
    BY <1>1, <1>3 DEF CheckInvoice, Hands
  <2> HIDE DEF h
  <2>2. \A s \in Ticks : tick'[s].invoice = i
    BY <1>1, <2>1 DEF OneTick
  <2>3. FeesOf(i) = {}
    BY <1>1, <1>3, CheckFindsFee
  <2> QED
    BY <1>1, <2>2, <2>3, FeesStay
<1> QED
  BY <1>2, <1>3

\* An invoice appended: a period's bill, or the first fee of the one in hand.
LEMMA AppendKeepsFees ==
    ASSUME IInv, FeeInv, NEW row, invoices' = Append(invoices, row),
           \A t \in Ticks : tick'[t].at # "fee",
           row.type = "addon" =>
                /\ row.of \in DOMAIN invoices /\ invoices[row.of].order = row.order
                /\ FeesOf(row.of) = {}
    PROVE  FeeInv'
<1> DEFINE n == Len(invoices) + 1
<1>1. invoices \in Seq(Bills)
  BY DEF IInv, TypesOK
<1>2. /\ DOMAIN invoices = 1 .. Len(invoices) /\ Len(invoices) \in Nat
      /\ DOMAIN invoices' = DOMAIN invoices \cup {n} /\ invoices'[n] = row
      /\ n \notin DOMAIN invoices
      /\ \A k \in DOMAIN invoices : invoices'[k] = invoices[k]
  BY <1>1
<1> HIDE DEF n
<1>3. FeesNameTheirInvoice'
  BY <1>2 DEF FeeInv, FeesNameTheirInvoice
<1>4. ASSUME NEW i \in DOMAIN invoices', NEW j \in FeesOf(i)', NEW k \in FeesOf(i)'
      PROVE  j = k
  <2>1. \A m \in FeesOf(i)' : m = n \/ m \in FeesOf(i)
    BY <1>2 DEF FeesOf
  <2>2. n \in FeesOf(i)' => FeesOf(i) = {}
    BY <1>2 DEF FeesOf
  <2>3. j \in FeesOf(i) => i \in DOMAIN invoices
    BY <1>2 DEF FeesOf, FeeInv, FeesNameTheirInvoice
  <2> QED
    BY <2>1, <2>2, <2>3 DEF FeeInv
<1> QED
  BY <1>3, <1>4 DEF FeeInv

LEMMA FeeIssued ==
    ASSUME OneTick, IInv, FeeInv, NEW t \in Ticks, IssueRecurring(t) \/ IssueLateFee(t)
    PROVE  FeeInv'
<1> DEFINE h == tick[t]
           bill == Invoice("recurring", h.order, h.period.start, 0, h.period.start + DueOffset)
           fee == Invoice("addon", invoices[h.invoice].order, 0, h.invoice, h.day + FeeDue)
<1>1. tick \in [Ticks -> Hands] /\ h \in Hands /\ InHand(h)
  BY DEF IInv, TypesOK
<1>2. \A s \in Ticks : tick'[s].at # "fee"
  BY <1>1 DEF IssueRecurring, IssueLateFee, OneTick, Hands
<1>3. CASE IssueRecurring(t)
  <2>1. invoices' = Append(invoices, bill) /\ bill.type # "addon"
    BY <1>3 DEF IssueRecurring, Issue, Invoice
  <2> HIDE DEF bill
  <2> QED
    BY <1>2, <2>1, AppendKeepsFees
<1>4. CASE IssueLateFee(t)
  <2>1. invoices' = Append(invoices, fee)
    BY <1>4 DEF IssueLateFee, Issue
  <2>2. fee.of = h.invoice /\ fee.order = invoices[h.invoice].order
    BY DEF Invoice
  <2>3. h.invoice \in DOMAIN invoices /\ FeesOf(h.invoice) = {}
    BY <1>1, <1>4 DEF IssueLateFee, InHand, FeeInv
  <2> HIDE DEF fee
  <2> QED
    BY <1>2, <2>1, <2>2, <2>3, AppendKeepsFees
<1> QED
  BY <1>3, <1>4

LEMMA ClosedFeesCount ==
    ASSUME IInv, FeeInv, NEW i \in DOMAIN invoices, CloseInvoice(i)
    PROVE  FeeInv'
<1>1. invoices \in Seq(Bills) /\ UNCHANGED tick
      /\ invoices' = [invoices EXCEPT ![i].status = "closed"]
  BY DEF IInv, TypesOK, CloseInvoice
<1>2. DOMAIN invoices' = DOMAIN invoices
  BY <1>1
<1>3. \A k \in DOMAIN invoices :
        /\ invoices'[k].type = invoices[k].type /\ invoices'[k].order = invoices[k].order
        /\ invoices'[k].of = invoices[k].of
  BY <1>1 DEF Bills
<1>4. \A k : FeesOf(k)' = FeesOf(k)
  BY <1>2, <1>3 DEF FeesOf
<1> QED
  BY <1>1, <1>2, <1>3, <1>4 DEF FeeInv, FeesNameTheirInvoice

LEMMA FeeInvStep ==
    ASSUME OneTick, IInv, FeeInv, PagesSuffice, [Next]_vars
    PROVE  FeeInv'
<1>1. CASE NewDay \/ (\E c \in Customers : SetCustomerStatus(c))
           \/ (\E o \in Orders : BASTVerified(o)) \/ UNCHANGED vars
  <2>1. UNCHANGED <<invoices, tick>>
    BY <1>1 DEF NewDay, SetCustomerStatus, BASTVerified, vars
  <2> QED
    BY <2>1, FeesStay DEF FeeInv
<1>2. CASE \E i \in DOMAIN invoices : CloseInvoice(i)
  BY <1>2, ClosedFeesCount
<1>3. ASSUME NEW t \in Ticks,
             \/ BeginTick(t) \/ ListOrdersFails(t) \/ ListOverdue(t)
             \/ \E row \in tick[t].orders : CheckOrder(t, row) \/ CheckOrderFails(t, row)
             \/ \E i \in tick[t].overdue : CheckInvoiceFails(t, i)
             \/ IssueRecurringFails(t) \/ RecordCycle(t) \/ RecordCycleFails(t)
             \/ IssueLateFeeFails(t) \/ EndTick(t) \/ Crash(t)
      PROVE  FeeInv'
  <2>1. tick \in [Ticks -> Hands] /\ tick[t] \in Hands
    BY DEF IInv, TypesOK
  <2>2. UNCHANGED invoices
    BY <1>3 DEF BeginTick, ListOrdersFails, ListOverdue, CheckOrder, CheckOrderFails,
       CheckInvoiceFails, IssueRecurringFails, RecordCycle, RecordCycleFails,
       IssueLateFeeFails, EndTick, Crash
  <2>3. tick'[t].at # "fee"
    <3>1. CASE BeginTick(t)
      <4> DEFINE h == [Idle EXCEPT !.at = "orders", !.day = today,
                                   !.orders = ActiveOrdersForRecurring]
      <4>1. tick' = [tick EXCEPT ![t] = h] /\ h.at = "orders"
        BY <3>1 DEF BeginTick, Idle
      <4> HIDE DEF h
      <4> QED
        BY <2>1, <4>1
    <3>7. CASE ListOrdersFails(t)
      <4> DEFINE h == [Idle EXCEPT !.at = "orders", !.day = today]
      <4>1. tick' = [tick EXCEPT ![t] = h] /\ h.at = "orders"
        BY <3>7 DEF ListOrdersFails, Idle
      <4> HIDE DEF h
      <4> QED
        BY <2>1, <4>1
    <3>5. CASE ListOverdue(t)
      BY <2>1, <3>5 DEF ListOverdue, Hands
    <3>6. CASE EndTick(t) \/ Crash(t)
      BY <2>1, <3>6 DEF EndTick, Crash, Idle
    <3>2. CASE \E row \in tick[t].orders : CheckOrder(t, row)
      <4>1. PICK row \in tick[t].orders : CheckOrder(t, row)
        BY <3>2
      <4> QED
        BY <2>1, <4>1 DEF CheckOrder, Hands
    <3>3. CASE \/ \E row \in tick[t].orders : CheckOrderFails(t, row)
               \/ \E i \in tick[t].overdue : CheckInvoiceFails(t, i)
      BY <2>1, <3>3 DEF CheckOrderFails, CheckInvoiceFails, Hands
    <3>4. CASE \/ IssueRecurringFails(t) \/ RecordCycle(t) \/ RecordCycleFails(t)
               \/ IssueLateFeeFails(t)
      BY <2>1, <3>4
         DEF IssueRecurringFails, RecordCycle, RecordCycleFails, IssueLateFeeFails,
             NextOrder, Hands
    <3> QED
      BY <1>3, <3>1, <3>2, <3>3, <3>4, <3>5, <3>6, <3>7
  <2>4. \A s \in Ticks : tick'[s].at # "fee"
    BY <2>3 DEF OneTick
  <2> QED
    BY <2>2, <2>4, FeesStay
<1>4. ASSUME NEW t \in Ticks, TickStep(t) \/ TickFailure(t)
      PROVE  FeeInv'
  BY <1>3, <1>4, FeeIsTakenUp, FeeIssued DEF TickStep, TickFailure
<1> QED
  BY <1>1, <1>2, <1>4 DEF Next, World

\* With one tick at a time, and as long as no order has more add-on invoices
\* than the check reads: an overdue invoice is charged one late fee, whatever
\* fails or dies and however the days pass.
THEOREM OneFeePerInvoiceAlways ==
    OneTick => (Spec /\ []PagesSuffice => []OneFeePerInvoice)
<1> SUFFICES ASSUME OneTick
             PROVE  Spec /\ []PagesSuffice => []OneFeePerInvoice
  OBVIOUS
<1>1. Init => IInv /\ FeeInv
  <2>1. Init => FeeInv
    BY DEF Init, FeeInv, FeesNameTheirInvoice, FeesOf, Idle
  <2> QED
    BY <2>1, IInvInit
<1>2. IInv /\ FeeInv /\ PagesSuffice /\ [Next]_vars => (IInv /\ FeeInv)'
  BY IInvStep, FeeInvStep
<1>3. FeeInv => OneFeePerInvoice
  <2> SUFFICES ASSUME FeeInv, NEW i \in DOMAIN invoices
               PROVE  Cardinality(FeesOf(i)) <= 1
    BY DEF OneFeePerInvoice
  <2>1. \A j, k \in FeesOf(i) : j = k
    BY DEF FeeInv
  <2> DEFINE S == FeesOf(i)
  <2>3. S = {} \/ \E j : S = {j}
    <3> HIDE DEF S
    <3>1. ASSUME NEW j \in S, \A k, l \in S : k = l
          PROVE  S = {j}
      BY <3>1
    <3> QED
      BY <2>1, <3>1 DEF S
  <2>2. Cardinality(FeesOf(i)) \in {0, 1}
    BY <2>3, FS_EmptySet, FS_Singleton
  <2> QED
    BY <2>2
<1> QED
  BY <1>1, <1>2, <1>3, PTL DEF Spec

=============================================================================
