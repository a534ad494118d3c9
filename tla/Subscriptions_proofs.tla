------------------------ MODULE Subscriptions_proofs ------------------------
(***************************************************************************)
(* What billing-svc's passes over the customers promise when they do not   *)
(* overlap, for any customers, requests, processes and windows. The        *)
(* argument: the one process that is busy has its listing and its copies   *)
(* from rows that nobody else has written since, so that what it decided   *)
(* by is still so when it writes; between two of its statements a customer *)
(* may be half-way, and then it is the customer the process is at.         *)
(***************************************************************************)
EXTENDS Subscriptions, FiniteSetTheorems, WellFoundedInduction, TLAPS

-----------------------------------------------------------------------------
(* The invariant *)

\* Where each pass may be.
PassAt ==
    [scan |-> {"suspend", "restore", "terminate", "escalate", "revive"},
     suspendCRM |-> {"suspend"}, suspendRadius |-> {"suspend"},
     restoreCRM |-> {"restore"}, restoreRadius |-> {"restore"},
     create |-> {"terminate", "desk"}, mint |-> {"terminate", "desk"},
     update |-> {"terminate", "desk"},
     summary |-> {"desk"}, outstanding |-> {"desk"}, invoice |-> {"desk"},
     approve |-> {"desk"}, hook |-> {"desk"},
     terminateCRM |-> {"desk"}, deactivate |-> {"desk"},
     flip |-> {"escalate"}, log |-> {"escalate", "revive"}, reviveCRM |-> {"revive"}]

\* Where a process has a request by its id.
Holding == {"mint", "update", "approve", "hook"}

\* The fields of a process's state that its next statement uses.
Shape(s) ==
    /\ s.pc = "idle" => s = Idle
    /\ s.pc # "idle" => s.pass \in PassAt[s.pc]
    /\ s.pc = "scan" => s.cust = None
    /\ s.pc \notin {"idle", "scan"} => s.cust \in Customers
    /\ s.pc \in Holding => s.req \in RequestIds
    /\ s.pc \in {"invoice", "create", "mint", "update"} => s.row.cust = s.cust
    /\ s.pc \in {"invoice", "create"} => s.row.status \in {"awaiting_payment", "wo_pending"}
    /\ s.pc = "mint" => s.row.status = "wo_pending"
    /\ s.pc = "update" => s.row.status \in {"wo_created"} \cup Closed
    /\ s.pc = "update" /\ s.pass # "desk" => s.row.status = "wo_created"
    /\ s.pc = "flip" => s.act \in {"soft_suspend", "hard_suspend"}

\* A work order, and a request in a process's hand, has a row.
OrdersNameRequests == \A t \in RequestIds : wos[t] # "none" => requests[t].status # "absent"
HandsNameRequests ==
    \A p \in Procs : procs[p].pc \in Holding =>
        /\ requests[procs[p].req].status # "absent"
        /\ requests[procs[p].req].cust = procs[p].cust

TypeInv ==
    /\ TypeOK
    /\ \A p \in Procs : Shape(procs[p])
    /\ OrdersNameRequests
    /\ HandsNameRequests

OneBusy == \A p, q \in Procs : procs[p] # Idle /\ procs[q] # Idle => p = q

\* A request that was completed, and one completed by its approved work order.
Ended(t, c) == requests[t].cust = c /\ requests[t].status = "completed"
Done(t, c) == Ended(t, c) /\ wos[t] = "approved"

\* Some process is at pc with c.
Halfway(c, pc) == \E p \in Procs : At(p, pc) /\ procs[p].cust = c

\* What the busy process knows of the customers of its listing that it has
\* not come to, and of the customer it is at.
ListingHolds(s) ==
    /\ s.pass = "suspend" => \A c \in s.todo \ {s.cust} : crm[c] = "active"
    /\ s.pass \in {"restore", "revive"} => \A c \in s.todo \ {s.cust} : crm[c] = "suspended"
    /\ s.pass = "escalate" =>
        /\ \A c \in s.todo : crm[c] # "terminated"
        /\ \A c \in Customers : s.seen[c] > SoftGrace => Overdue(c, SoftGrace)

CustomerHolds(s) ==
    /\ s.pc = "suspendCRM" => crm[s.cust] = "active" /\ Overdue(s.cust, SuspendAfter)
    /\ s.pc = "suspendRadius" => crm[s.cust] = "suspended"
    /\ s.pc = "restoreCRM" => crm[s.cust] = "suspended" /\ ~Overdue(s.cust, 0)
    /\ s.pc = "restoreRadius" => crm[s.cust] = "active"
    /\ s.pc = "flip" => crm[s.cust] # "terminated" /\ Overdue(s.cust, SoftGrace)
    /\ s.pc = "reviveCRM" => crm[s.cust] = "suspended" /\ radius[s.cust] = "online"

\* What it knows of the request it holds.
RequestHolds(s) ==
    /\ faults = 0 /\ s.pc \in {"summary", "outstanding", "invoice", "create"} => ~Open(s.cust)
    /\ s.pc = "mint" => requests[s.req] = s.row
    /\ s.pc \in {"update", "approve", "hook"} => requests[s.req].cust = s.cust
    /\ s.pc = "update" => requests[s.req].status \notin {"absent"} \cup Closed
    /\ s.pc = "hook" => wos[s.req] = "approved"
    /\ s.pc = "update" /\ s.row.status = "completed" => wos[s.req] = "approved"
    /\ s.pc = "terminateCRM" => \E t \in RequestIds : Done(t, s.cust)
    /\ s.pc = "deactivate" /\ faults = 0 => crm[s.cust] = "terminated"

\* What a tick has achieved: the earlier passes for every customer, the present
\* one for those it no longer has to do.
PassHolds(s) ==
    /\ s.pass = "suspend" =>
        \A c \in Customers : crm[c] = "active" /\ Overdue(c, SuspendAfter) => c \in s.todo
    /\ s.pass \in {"restore", "terminate"} =>
        \A c \in Customers : crm[c] = "active" => ~Overdue(c, SuspendAfter)
    /\ s.pass = "restore" =>
        \A c \in Customers : crm[c] = "suspended" /\ ~Overdue(c, 0) => c \in s.todo
    /\ s.pass = "terminate" =>
        \A c \in Customers : crm[c] = "suspended" => Overdue(c, 0)
    /\ s.pass = "terminate" /\ Unused # {} =>
        \A c \in Customers : LongSuspended(c) => Open(c) \/ c \in s.todo

Holds(s) ==
    /\ ListingHolds(s)
    /\ CustomerHolds(s)
    /\ RequestHolds(s)
    /\ faults = 0 => PassHolds(s)

\* Terminated are the customers of completed requests, or about to be.
TerminationsMatch ==
    \A c \in Customers :
        /\ crm[c] = "terminated" => \E t \in RequestIds : Done(t, c)
        /\ (\E t \in RequestIds : Ended(t, c)) =>
              crm[c] = "terminated" \/ Halfway(c, "terminateCRM")

\* The RADIUS account follows the customer's status, or is about to.
AccountsMatch ==
    \A c \in Customers :
        /\ crm[c] = "active" => radius[c] = "online" \/ Halfway(c, "restoreRadius")
        /\ crm[c] = "terminated" => radius[c] = "deactivated" \/ Halfway(c, "deactivate")

SerialInv ==
    /\ OneBusy
    /\ \A p \in Procs : procs[p] # Idle => Holds(procs[p])
    /\ OneOpenRequest
    /\ Smooth => TerminationsMatch /\ AccountsMatch

-----------------------------------------------------------------------------
(* Types *)

LEMMA AllPcs ==
    Pcs = {"idle", "scan", "create", "mint", "update", "summary", "outstanding", "invoice",
           "approve", "hook", "deactivate", "suspendCRM", "suspendRadius", "restoreCRM",
           "restoreRadius", "terminateCRM", "flip", "log", "reviveCRM"}
BY DEF Pcs, OnError

\* A pass other than a desk's request may always go on with its listing.
LEMMA PassesScan ==
    ASSUME NEW s \in ProcStates, Shape(s), s.pc # "idle", s.pass # "desk"
    PROVE  s.pass \in PassAt.scan
<1>1. s.pc \in DOMAIN PassAt
  BY AllPcs DEF ProcStates, PassAt
<1>2. \A q \in DOMAIN PassAt : PassAt[q] \subseteq PassAt.scan \cup {"desk"}
  BY DEF PassAt
<1> QED
  BY <1>1, <1>2 DEF Shape

LEMMA IdleOK == Idle \in ProcStates /\ Shape(Idle)
BY SubscriptionsAssumption, AllPcs
   DEF Idle, ProcStates, Passes, Rows, NoRow, RequestStatuses, Kinds, Actions, Shape, Holding

ProcsOK == procs \in [Procs -> ProcStates] /\ \A p \in Procs : Shape(procs[p])

LEMMA Becomes ==
    ASSUME ProcsOK, NEW p \in Procs, NEW s \in ProcStates, Shape(s), Become(p, s)
    PROVE  ProcsOK' /\ procs'[p] = s /\ \A q \in Procs \ {p} : procs'[q] = procs[q]
BY DEF ProcsOK, Become

\* A process at the scan of its listing.
LEMMA ScanningOK ==
    ASSUME NEW pass \in PassAt.scan, NEW todo \in SUBSET Customers,
           NEW seen \in [Customers -> 0..MaxAge]
    PROVE  LET s == [Idle EXCEPT !.pc = "scan", !.pass = pass, !.seen = seen, !.todo = todo]
           IN  s \in ProcStates /\ Shape(s)
BY IdleOK, AllPcs DEF Idle, ProcStates, Passes, PassAt, Shape, Holding

LEMMA ListedOK ==
    ASSUME NEW pass \in PassAt.scan, NEW todo \in SUBSET Customers
    PROVE  LET s == [Idle EXCEPT !.pc = "scan", !.pass = pass, !.todo = todo]
           IN  s \in ProcStates /\ Shape(s)
BY IdleOK, AllPcs DEF Idle, ProcStates, Passes, PassAt, Shape, Holding

\* What Skip makes of a process.
Skipped(s, c) ==
    IF s.pass = "desk" THEN Idle
    ELSE [Idle EXCEPT !.pc = "scan", !.pass = s.pass, !.seen = s.seen, !.todo = s.todo \ {c}]

LEMMA SkippedOK ==
    ASSUME NEW s \in ProcStates, Shape(s), s.pc # "idle", NEW c
    PROVE  Skipped(s, c) \in ProcStates /\ Shape(Skipped(s, c))
<1>1. CASE s.pass = "desk"
  BY <1>1, IdleOK DEF Skipped
<1>2. CASE s.pass # "desk"
  <2>1. s.pass \in PassAt.scan
    BY <1>2, PassesScan
  <2>2. s.todo \ {c} \in SUBSET Customers /\ s.seen \in [Customers -> 0..MaxAge]
    BY DEF ProcStates
  <2> QED
    BY <1>2, <2>1, <2>2, ScanningOK DEF Skipped
<1> QED
  BY <1>1, <1>2

LEMMA SkippingOK ==
    ASSUME ProcsOK, NEW p \in Procs, NEW c, ~At(p, "idle"), Skip(p, c)
    PROVE  /\ ProcsOK'
           /\ procs'[p] = Skipped(procs[p], c)
           /\ \A q \in Procs \ {p} : procs'[q] = procs[q]
<1> PICK s \in ProcStates : s = procs[p] /\ Shape(s) /\ s.pc # "idle"
  BY DEF ProcsOK, At
<1>1. Skipped(s, c) \in ProcStates /\ Shape(Skipped(s, c))
  BY SkippedOK
<1>2. Become(p, Skipped(s, c))
  BY DEF Skip, Skipped
<1> QED
  BY <1>1, <1>2, Becomes

\* What GoOn makes of it.
GoneOn(s, pc) == IF pc = "next" THEN Skipped(s, s.cust) ELSE [s EXCEPT !.pc = pc]

LEMMA GoingOnOK ==
    ASSUME ProcsOK, NEW p \in Procs, NEW pc \in Pcs \cup {"next"}, ~At(p, "idle"), GoOn(p, pc),
           pc # "next" => Shape([procs[p] EXCEPT !.pc = pc])
    PROVE  /\ ProcsOK'
           /\ procs'[p] = GoneOn(procs[p], pc)
           /\ \A q \in Procs \ {p} : procs'[q] = procs[q]
<1>1. CASE pc = "next"
  BY <1>1, SkippingOK DEF GoOn, GoneOn
<1>2. CASE pc # "next"
  <2> PICK s \in ProcStates : s = procs[p]
    BY DEF ProcsOK
  <2>1. [s EXCEPT !.pc = pc] \in ProcStates
    BY <1>2 DEF ProcStates
  <2>2. Become(p, [s EXCEPT !.pc = pc])
    BY <1>2 DEF GoOn
  <2> QED
    BY <1>2, <2>1, <2>2, Becomes DEF GoneOn
<1> QED
  BY <1>1, <1>2

\* The tables, that is TypeOK without the processes.
TablesOK ==
    /\ crm \in [Customers -> {"active", "suspended", "terminated"}]
    /\ suspendedFor \in [Customers -> 0..TerminateAfter]
    /\ radius \in [Customers -> {"online", "suspended", "deactivated"}]
    /\ unpaid \in [Customers -> SUBSET (0..MaxAge)]
    /\ ladder \in [Customers -> Actions]
    /\ requests \in [RequestIds -> Rows]
    /\ \A t \in RequestIds : requests[t].status = "absent" <=> requests[t].cust = None
    /\ wos \in [RequestIds -> {"none", "open", "approved"}]
    /\ faults \in 0..MaxMishaps
    /\ crashes \in 0..MaxMishaps
    /\ OrdersNameRequests

LEMMA TwoHalves == TypeInv <=> TablesOK /\ ProcsOK /\ HandsNameRequests
BY DEF TypeInv, TypeOK, TablesOK, ProcsOK

LEMMA SameTables ==
    ASSUME TablesOK, UNCHANGED <<service, unpaid, paperwork, faults, crashes>>
    PROVE  TablesOK'
BY DEF TablesOK, service, paperwork, OrdersNameRequests

\* A status is written.
LEMMA StatusWritten ==
    ASSUME TablesOK, NEW c \in Customers, NEW s \in {"active", "suspended", "terminated"},
           SetCustomerStatus(c, s),
           UNCHANGED <<radius, ladder, unpaid, paperwork, faults, crashes>>
    PROVE  TablesOK'
BY SubscriptionsAssumption
   DEF TablesOK, SetCustomerStatus, paperwork, OrdersNameRequests

LEMMA AccountWritten ==
    ASSUME TablesOK, NEW c \in Customers, NEW s \in {"online", "suspended", "deactivated"},
           SetRadius(c, s),
           UNCHANGED <<crm, suspendedFor, ladder, unpaid, paperwork, faults, crashes>>
    PROVE  TablesOK'
BY DEF TablesOK, SetRadius, paperwork, OrdersNameRequests

\* A request row that has a customer is written.
LEMMA RequestWritten ==
    ASSUME TablesOK, NEW t \in RequestIds, NEW row \in Rows, row.status # "absent",
           row.cust # None, requests' = [requests EXCEPT ![t] = row],
           UNCHANGED <<service, unpaid, wos, faults, crashes>>
    PROVE  TablesOK'
BY DEF TablesOK, service, OrdersNameRequests

\* A work order of a request is written.
LEMMA OrderWritten ==
    ASSUME TablesOK, NEW t \in RequestIds, requests[t].status # "absent",
           NEW s \in {"open", "approved"}, wos' = [wos EXCEPT ![t] = s],
           UNCHANGED <<service, unpaid, requests, faults, crashes>>
    PROVE  TablesOK'
BY DEF TablesOK, service, OrdersNameRequests

LEMMA FaultCounted ==
    ASSUME TablesOK, Fault, UNCHANGED <<service, unpaid, paperwork, crashes>>
    PROVE  TablesOK'
BY SubscriptionsAssumption DEF TablesOK, Fault, service, paperwork, OrdersNameRequests

\* The oldest of a customer's invoices is one of them.
LEMMA MaxOfAges ==
    ASSUME NEW S \in SUBSET (0..MaxAge), S # {}
    PROVE  Max(S) \in S
<1>0. MaxAge \in Nat
  BY SubscriptionsAssumption
<1> DEFINE T == {n \in 0..MaxAge : MaxAge - n \in S}
<1>1. T \subseteq Nat /\ T # {}
  <2>1. PICK x \in S : TRUE
    OBVIOUS
  <2>2. MaxAge - x \in 0..MaxAge /\ MaxAge - (MaxAge - x) = x
    BY <1>0, <2>1
  <2>3. MaxAge - x \in T
    BY <2>1, <2>2
  <2> QED
    BY <2>3
<1> DEFINE R == OpToRel(<, Nat)
<1>2. \A m, n \in Nat : m < n => <<m, n>> \in R
  BY DEF OpToRel
<1>3. \E n \in T : \A m \in T : <<m, n>> \notin R
  <2>1. IsWellFoundedOn(R, Nat)
    BY NatLessThanWellFounded
  <2> HIDE DEF R, T
  <2> QED
    BY <1>1, <2>1, WFMin
<1> HIDE DEF R
<1>4. PICK n \in T : \A m \in T : <<m, n>> \notin R
  BY <1>3
<1>5. \A y \in S : MaxAge - n >= y
  <2> TAKE y \in S
  <2>1. MaxAge - y \in 0..MaxAge /\ MaxAge - (MaxAge - y) = y
    BY <1>0
  <2>2. MaxAge - y \in T
    BY <2>1
  <2>3. ~(MaxAge - y < n)
    BY <1>1, <1>2, <1>4, <2>2
  <2> QED
    BY <1>0, <2>1, <2>3
<1>6. MaxAge - n \in S
  BY <1>4
<1> QED
  BY <1>5, <1>6 DEF Max

LEMMA OldestAge ==
    ASSUME TablesOK, NEW c \in Customers
    PROVE  Oldest(c) \in 0..MaxAge /\ (Oldest(c) > 0 => Oldest(c) \in unpaid[c])
<1>1. unpaid[c] \in SUBSET (0..MaxAge)
  BY DEF TablesOK
<1>2. CASE unpaid[c] = {}
  BY <1>2, SubscriptionsAssumption DEF Oldest
<1>3. CASE unpaid[c] # {}
  <2>1. Max(unpaid[c]) \in unpaid[c]
    BY <1>1, <1>3, MaxOfAges
  <2> QED
    BY <1>1, <1>3, <2>1 DEF Oldest
<1> QED
  BY <1>2, <1>3

LEMMA MinOfTwo == ASSUME NEW m \in Nat, NEW n \in Nat PROVE Min({m, n}) \in {m, n} /\ Min({m, n}) <= m /\ Min({m, n}) <= n
<1>1. \E x \in {m, n} : \A y \in {m, n} : x =< y
  OBVIOUS
<1>2. PICK x \in {m, n} : x = Min({m, n}) /\ \A y \in {m, n} : x =< y
  BY <1>1 DEF Min
<1> QED
  BY <1>2

\* Rows stay with their customers, whatever is written into them.
RowsStay ==
    \A t \in RequestIds : requests[t].status # "absent" =>
        requests'[t].status # "absent" /\ requests'[t].cust = requests[t].cust

\* A state in which p has gone on and the tables are as they should be.
LEMMA TypesFollow ==
    ASSUME TypeInv, TablesOK', RowsStay, NEW p \in Procs, NEW s \in ProcStates, Shape(s),
           Become(p, s),
           s.pc \in Holding => requests'[s.req].status # "absent" /\ requests'[s.req].cust = s.cust
    PROVE  TypeInv'
<1>1. ProcsOK' /\ procs'[p] = s /\ \A q \in Procs \ {p} : procs'[q] = procs[q]
  BY Becomes, TwoHalves
<1>2. HandsNameRequests'
  <2> SUFFICES ASSUME NEW q \in Procs, procs'[q].pc \in Holding
               PROVE  /\ requests'[procs'[q].req].status # "absent"
                      /\ requests'[procs'[q].req].cust = procs'[q].cust
    BY DEF HandsNameRequests
  <2>1. CASE q = p
    BY <1>1, <2>1
  <2>2. CASE q # p
    <3>1. procs'[q] = procs[q] /\ procs[q].req \in RequestIds
      BY <1>1, <2>2, TwoHalves DEF ProcsOK, Shape
    <3> QED
      BY <3>1 DEF TypeInv, HandsNameRequests, RowsStay
  <2> QED
    BY <2>1, <2>2
<1> QED
  BY <1>1, <1>2, TwoHalves, PTL

LEMMA TypesFollowList ==
    ASSUME TypeInv, TablesOK', RowsStay, NEW p \in Procs, NEW pass \in PassAt.scan,
           NEW todo \in SUBSET Customers, List(p, pass, todo)
    PROVE  TypeInv'
<1> DEFINE s == [Idle EXCEPT !.pc = "scan", !.pass = pass, !.todo = todo]
<1>1. s \in ProcStates /\ Shape(s)
  BY ListedOK
<1>2. s.pc \notin Holding
  BY DEF Idle, Holding
<1>3. Become(p, s)
  BY DEF List
<1> HIDE DEF s
<1> QED
  BY <1>1, <1>2, <1>3, TypesFollow

LEMMA TypesFollowSkip ==
    ASSUME TypeInv, TablesOK', RowsStay, NEW p \in Procs, NEW c, ~At(p, "idle"), Skip(p, c)
    PROVE  TypeInv'
<1>1. ProcsOK' /\ procs'[p] = Skipped(procs[p], c)
  BY TwoHalves, SkippingOK
<1> PICK s \in ProcStates : s = Skipped(procs[p], c) /\ Shape(s)
  BY <1>1 DEF ProcsOK
<1>2. s.pc \notin Holding
  BY DEF Skipped, Idle, Holding
<1>3. Become(p, s)
  BY DEF Skip, Skipped
<1> QED
  BY <1>2, <1>3, TypesFollow

LEMMA TypesFollowGoOn ==
    ASSUME TypeInv, TablesOK', RowsStay, NEW p \in Procs, NEW pc \in Pcs \cup {"next"},
           ~At(p, "idle"), GoOn(p, pc),
           pc # "next" => /\ Shape([procs[p] EXCEPT !.pc = pc])
                          /\ pc \in Holding =>
                                /\ requests'[procs[p].req].status # "absent"
                                /\ requests'[procs[p].req].cust = procs[p].cust
    PROVE  TypeInv'
<1>1. CASE pc = "next"
  BY <1>1, TypesFollowSkip DEF GoOn
<1>2. CASE pc # "next"
  <2> PICK s \in ProcStates : s = procs[p]
    BY TwoHalves DEF ProcsOK
  <2>1. [s EXCEPT !.pc = pc] \in ProcStates /\ [s EXCEPT !.pc = pc].pc = pc
        /\ [s EXCEPT !.pc = pc].req = s.req /\ [s EXCEPT !.pc = pc].cust = s.cust
    BY <1>2 DEF ProcStates
  <2>2. Become(p, [s EXCEPT !.pc = pc])
    BY <1>2 DEF GoOn
  <2> QED
    BY <1>2, <2>1, <2>2, TypesFollow
<1> QED
  BY <1>1, <1>2

\* The tick's suspensions and restorations.
LEMMA TickTypes ==
    ASSUME TypeInv, NEW p \in Procs, NEW c,
           \/ StartTick(p) \/ ScanSuspend(p, c) \/ SuspendCRM(p) \/ SuspendRadius(p)
           \/ ListSuspended(p) \/ ScanRestore(p, c) \/ RestoreCRM(p) \/ RestoreRadius(p)
           \/ ListLongSuspended(p) \/ FinishTick(p)
    PROVE  TypeInv'
<1>0. TablesOK /\ ProcsOK
  BY TwoHalves
<1>11. RowsStay
  BY DEF RowsStay, paperwork, StartTick, ScanSuspend, SuspendCRM, SuspendRadius, ListSuspended,
         ScanRestore, RestoreCRM, RestoreRadius, ListLongSuspended, FinishTick
<1> PICK s \in ProcStates : s = procs[p] /\ Shape(s)
  BY <1>0 DEF ProcsOK
<1>1. CASE StartTick(p)
  <2>1. TablesOK'
    BY <1>0, <1>1, SameTables DEF StartTick
  <2>2. {d \in Customers : crm[d] = "active"} \in SUBSET Customers /\ "suspend" \in PassAt.scan
    BY DEF PassAt
  <2> QED
    BY <1>0, <1>11, <1>1, <2>1, <2>2, TypesFollowList DEF Holding, StartTick
<1>2. CASE ScanSuspend(p, c)
  <2>0. c \in Customers
    BY <1>2 DEF ScanSuspend, Scanning, ProcStates
  <2>1. TablesOK'
    BY <1>0, <1>2, SameTables DEF ScanSuspend
  <2>2. CASE PastWindow(c)
    <3>1. /\ [s EXCEPT !.pc = "suspendCRM", !.cust = c] \in ProcStates
          /\ [s EXCEPT !.pc = "suspendCRM", !.cust = c].pc \notin Holding
      BY <2>0, AllPcs DEF ProcStates, Holding
    <3>2. Shape([s EXCEPT !.pc = "suspendCRM", !.cust = c])
      BY <2>0, <1>2 DEF Shape, Holding, PassAt, ScanSuspend, Scanning, ProcStates
    <3> QED
      BY <1>0, <1>11, <1>2, <2>1, <2>2, <3>1, <3>2, TypesFollow DEF Holding, ScanSuspend
  <2>3. CASE ~PastWindow(c)
    BY <1>0, <1>11, <1>2, <2>1, <2>3, TypesFollowSkip DEF Holding, ScanSuspend, Scanning, At
  <2> QED
    BY <2>2, <2>3
<1>3. CASE SuspendCRM(p)
  <2>1. s.cust \in Customers /\ ~At(p, "idle") /\ "suspendRadius" \in Pcs \cup {"next"}
    BY <1>3, AllPcs DEF SuspendCRM, At, Shape, Holding
  <2>2. TablesOK'
    BY <1>0, <1>3, <2>1, StatusWritten DEF SuspendCRM
  <2>3. Shape([s EXCEPT !.pc = "suspendRadius"])
    BY <1>3 DEF Shape, Holding, PassAt, SuspendCRM, At, ProcStates
  <2> QED
    BY <1>0, <1>11, <1>3, <2>1, <2>2, <2>3, TypesFollowGoOn DEF Holding, SuspendCRM
<1>4. CASE SuspendRadius(p)
  <2>1. s.cust \in Customers /\ ~At(p, "idle")
    BY <1>4 DEF SuspendRadius, At, Shape, Holding
  <2>2. TablesOK'
    BY <1>0, <1>4, <2>1, AccountWritten DEF SuspendRadius
  <2> QED
    BY <1>0, <1>11, <1>4, <2>1, <2>2, TypesFollowGoOn DEF Holding, SuspendRadius
<1>5. CASE ListSuspended(p)
  <2>1. TablesOK'
    BY <1>0, <1>5, SameTables DEF ListSuspended
  <2>2. {d \in Customers : crm[d] = "suspended"} \in SUBSET Customers /\ "restore" \in PassAt.scan
    BY DEF PassAt
  <2> QED
    BY <1>0, <1>11, <1>5, <2>1, <2>2, TypesFollowList DEF Holding, ListSuspended
<1>6. CASE ScanRestore(p, c)
  <2>0. c \in Customers
    BY <1>6 DEF ScanRestore, Scanning, ProcStates
  <2>1. TablesOK'
    BY <1>0, <1>6, SameTables DEF ScanRestore
  <2>2. CASE ~StillOverdue(c)
    <3>1. /\ [s EXCEPT !.pc = "restoreCRM", !.cust = c] \in ProcStates
          /\ [s EXCEPT !.pc = "restoreCRM", !.cust = c].pc \notin Holding
      BY <2>0, AllPcs DEF ProcStates, Holding
    <3>2. Shape([s EXCEPT !.pc = "restoreCRM", !.cust = c])
      BY <2>0, <1>6 DEF Shape, Holding, PassAt, ScanRestore, Scanning, ProcStates
    <3> QED
      BY <1>0, <1>11, <1>6, <2>1, <2>2, <3>1, <3>2, TypesFollow DEF Holding, ScanRestore
  <2>3. CASE StillOverdue(c)
    BY <1>0, <1>11, <1>6, <2>1, <2>3, TypesFollowSkip DEF Holding, ScanRestore, Scanning, At
  <2> QED
    BY <2>2, <2>3
<1>7. CASE RestoreCRM(p)
  <2>1. s.cust \in Customers /\ ~At(p, "idle") /\ "restoreRadius" \in Pcs \cup {"next"}
    BY <1>7, AllPcs DEF RestoreCRM, At, Shape, Holding
  <2>2. TablesOK'
    BY <1>0, <1>7, <2>1, StatusWritten DEF RestoreCRM
  <2>3. Shape([s EXCEPT !.pc = "restoreRadius"])
    BY <1>7 DEF Shape, Holding, PassAt, RestoreCRM, At, ProcStates
  <2> QED
    BY <1>0, <1>11, <1>7, <2>1, <2>2, <2>3, TypesFollowGoOn DEF Holding, RestoreCRM
<1>8. CASE RestoreRadius(p)
  <2>1. s.cust \in Customers /\ ~At(p, "idle")
    BY <1>8 DEF RestoreRadius, At, Shape, Holding
  <2>2. TablesOK'
    BY <1>0, <1>8, <2>1, AccountWritten DEF RestoreRadius
  <2> QED
    BY <1>0, <1>11, <1>8, <2>1, <2>2, TypesFollowGoOn DEF Holding, RestoreRadius
<1>9. CASE ListLongSuspended(p)
  <2>1. TablesOK'
    BY <1>0, <1>9, SameTables DEF ListLongSuspended
  <2>2. {d \in Customers : LongSuspended(d)} \in SUBSET Customers /\ "terminate" \in PassAt.scan
    BY DEF PassAt
  <2> QED
    BY <1>0, <1>11, <1>9, <2>1, <2>2, TypesFollowList DEF Holding, ListLongSuspended
<1>10. CASE FinishTick(p)
  <2>1. TablesOK'
    BY <1>0, <1>10, SameTables DEF FinishTick
  <2> QED
    BY <1>0, <1>11, <1>10, <2>1, IdleOK, TypesFollow DEF Holding, FinishTick, Idle
<1> QED
  BY <1>1, <1>2, <1>3, <1>4, <1>5, <1>6, <1>7, <1>8, <1>9, <1>10

\* The tick's request for a termination.
LEMMA ScanTerminateTypes ==
    ASSUME TypeInv, NEW p \in Procs, NEW c \in Customers, NEW s \in ProcStates,
           s = procs[p], Shape(s), TablesOK', RowsStay, Scanning(p, "terminate", c),
           Become(p, [s EXCEPT !.pc = "create", !.cust = c,
                         !.row = NewRequest(c, "auto", "wo_pending")])
    PROVE  TypeInv'
<1> DEFINE row == NewRequest(c, "auto", "wo_pending")
           n == [s EXCEPT !.pc = "create", !.cust = c, !.row = row]
<1>1. row \in Rows /\ row.cust = c /\ row.status = "wo_pending"
  BY DEF NewRequest, Rows, RequestStatuses, Kinds
<1> HIDE DEF row
<1>2. n \in ProcStates /\ n.pc \notin Holding
  BY <1>1, AllPcs DEF ProcStates, Holding
<1>3. Shape(n)
  BY <1>1 DEF Shape, Holding, PassAt, Scanning, At, ProcStates
<1>4. Become(p, n)
  BY DEF row
<1> QED
  BY <1>2, <1>3, <1>4, TypesFollow

LEMMA CreateTypes ==
    ASSUME TypeInv, NEW p \in Procs, CreateRequest(p)
    PROVE  TypeInv'
<1>1. TablesOK /\ ProcsOK
  BY TwoHalves
<1> PICK s \in ProcStates : s = procs[p] /\ Shape(s)
  BY <1>1 DEF ProcsOK
<1> DEFINE t == CHOOSE u \in Unused : TRUE
<1>2. s.row \in Rows /\ s.row.cust \in Customers /\ s.row.status # "absent" /\ ~At(p, "idle")
  BY DEF CreateRequest, At, Shape, ProcStates
<1>3. CASE Unused # {} /\ Unique(t, s.row)
  <2>1. t \in RequestIds
    BY <1>3 DEF Unused
  <2>2. requests' = [requests EXCEPT ![t] = s.row]
    BY <1>3 DEF CreateRequest
  <2>3. IF s.row.status = "wo_pending" THEN Become(p, [s EXCEPT !.pc = "mint", !.req = t])
                                       ELSE GoOn(p, "next")
    BY <1>3 DEF CreateRequest
  <2> HIDE DEF t
  <2>4. TablesOK'
    BY <1>1, <1>2, <2>1, <2>2, RequestWritten, SubscriptionsAssumption DEF CreateRequest
  <2>5. RowsStay /\ requests'[t].status # "absent" /\ requests'[t].cust = s.cust
    <3>1. s.row.cust = s.cust /\ requests[t].status = "absent"
      BY <1>3 DEF CreateRequest, At, Shape, Unused, t
    <3> QED
      BY <3>1, <1>1, <1>2, <2>1, <2>2 DEF RowsStay, TablesOK
  <2>6. CASE s.row.status = "wo_pending"
    <3> DEFINE n == [s EXCEPT !.pc = "mint", !.req = t]
    <3>1. n \in ProcStates /\ n.req = t /\ n.cust = s.cust
      BY <2>1, AllPcs DEF ProcStates
    <3>2. Shape(n)
      BY <2>1, <2>6 DEF Shape, Holding, PassAt, CreateRequest, At, ProcStates
    <3>3. Become(p, n)
      BY <2>3, <2>6
    <3> HIDE DEF n
    <3> QED
      BY <2>4, <2>5, <3>1, <3>2, <3>3, TypesFollow
  <2>7. CASE s.row.status # "wo_pending"
    BY <1>2, <2>3, <2>4, <2>5, <2>7, TypesFollowGoOn
  <2> QED
    BY <2>6, <2>7
<1>4. CASE ~(Unused # {} /\ Unique(t, s.row))
  <2>1. GoOn(p, "next") /\ UNCHANGED requests
    BY <1>4 DEF CreateRequest
  <2>2. TablesOK' /\ RowsStay
    BY <1>1, <2>1, SameTables DEF CreateRequest, paperwork, RowsStay
  <2> QED
    BY <1>2, <2>1, <2>2, TypesFollowGoOn
<1> QED
  BY <1>3, <1>4

LEMMA MintTypes ==
    ASSUME TypeInv, NEW p \in Procs, MintWO(p)
    PROVE  TypeInv'
<1>1. TablesOK /\ ProcsOK
  BY TwoHalves
<1> PICK s \in ProcStates : s = procs[p] /\ Shape(s)
  BY <1>1 DEF ProcsOK
<1> DEFINE n == [s EXCEPT !.pc = "update", !.row.status = "wo_created", !.row.wo = TRUE]
<1>2. s.req \in RequestIds /\ s.pc = "mint" /\ s.row \in Rows
  BY DEF MintWO, At, Shape, Holding, ProcStates
<1>3. requests[s.req].status # "absent" /\ requests[s.req].cust = s.cust /\ "update" \in Holding /\ "update" \in Pcs
  BY <1>2, AllPcs DEF TypeInv, HandsNameRequests, Holding
<1>4. TablesOK' /\ RowsStay
  BY <1>1, <1>2, <1>3, OrderWritten DEF MintWO, RowsStay
<1>5. [s.row EXCEPT !.status = "wo_created", !.wo = TRUE] \in Rows
  BY <1>2 DEF Rows, RequestStatuses
<1>6. n \in ProcStates /\ n.req = s.req /\ n.cust = s.cust
  BY <1>2, <1>5, AllPcs DEF ProcStates
<1>7. Shape(n)
  <2>1. s.pass \in {"terminate", "desk"} /\ s.cust \in Customers /\ s.row.cust = s.cust
    BY <1>2 DEF Shape, PassAt
  <2>2. /\ n.pc = "update" /\ n.pass = s.pass /\ n.cust = s.cust /\ n.req = s.req
        /\ n.row = [s.row EXCEPT !.status = "wo_created", !.wo = TRUE]
    BY <1>2 DEF ProcStates
  <2> HIDE DEF n
  <2>3. n.row.status = "wo_created" /\ n.row.cust = s.row.cust
    <3> PICK r \in Rows : r = s.row
      BY <1>2
    <3>1. [r EXCEPT !.status = "wo_created", !.wo = TRUE].status = "wo_created"
          /\ [r EXCEPT !.status = "wo_created", !.wo = TRUE].cust = r.cust
      BY DEF Rows
    <3> QED
      BY <2>2, <3>1
  <2> QED
    BY <1>2, <2>1, <2>2, <2>3 DEF Shape, Holding, PassAt
<1>8. Become(p, n) /\ requests' = requests
  BY DEF MintWO
<1> HIDE DEF n
<1> QED
  BY <1>3, <1>4, <1>6, <1>7, <1>8, TypesFollow

LEMMA UpdateTypes ==
    ASSUME TypeInv, NEW p \in Procs, UpdateRequest(p)
    PROVE  TypeInv'
<1>1. TablesOK /\ ProcsOK
  BY TwoHalves
<1> PICK s \in ProcStates : s = procs[p] /\ Shape(s)
  BY <1>1 DEF ProcsOK
<1>2. /\ s.req \in RequestIds /\ s.pc = "update" /\ ~At(p, "idle")
      /\ s.row \in Rows /\ s.row.cust \in Customers /\ s.row.status # "absent"
  BY DEF UpdateRequest, At, Shape, Holding, ProcStates, Closed
<1>3. "terminateCRM" \in Pcs /\ "terminateCRM" \notin Holding
  BY AllPcs DEF Holding
<1>4. CASE Unique(s.req, s.row)
  <2>1. /\ requests' = [requests EXCEPT ![s.req] = s.row]
        /\ GoOn(p, IF s.row.status = "completed" THEN "terminateCRM" ELSE "next")
    BY <1>4 DEF UpdateRequest
  <2>2. TablesOK' /\ RowsStay
    <3>1. TablesOK'
      BY <1>1, <1>2, <2>1, RequestWritten, SubscriptionsAssumption DEF UpdateRequest
    <3>2. s.row.cust = requests[s.req].cust
      BY <1>2 DEF Shape, TypeInv, HandsNameRequests, Holding
    <3> QED
      BY <1>1, <1>2, <2>1, <3>1, <3>2 DEF RowsStay, TablesOK
  <2>3. CASE s.row.status = "completed"
    <3>1. Shape([s EXCEPT !.pc = "terminateCRM"])
      BY <1>2, <2>3, AllPcs DEF Shape, Holding, PassAt, ProcStates
    <3> QED
      BY <1>2, <1>3, <2>1, <2>2, <2>3, <3>1, TypesFollowGoOn
  <2>4. CASE s.row.status # "completed"
    BY <1>2, <2>1, <2>2, <2>4, TypesFollowGoOn
  <2> QED
    BY <2>3, <2>4
<1>5. CASE ~Unique(s.req, s.row)
  <2>1. GoOn(p, "next") /\ UNCHANGED requests
    BY <1>5 DEF UpdateRequest
  <2>2. TablesOK' /\ RowsStay
    BY <1>1, <2>1, SameTables DEF UpdateRequest, paperwork, RowsStay
  <2> QED
    BY <1>2, <2>1, <2>2, TypesFollowGoOn
<1> QED
  BY <1>4, <1>5

\* A desk begins.
LEMMA BeginTypes ==
    ASSUME TypeInv, NEW p \in Procs, NEW pc \in {"summary", "update", "approve"},
           NEW c \in Customers, NEW t \in RequestIds \cup {None}, NEW row \in Rows,
           Begin(p, pc, c, t, row),
           pc # "summary" =>
                t \in RequestIds /\ requests[t].status # "absent" /\ requests[t].cust = c,
           pc = "update" => row.cust = c /\ row.status = "cancelled",
           TablesOK', requests' = requests
    PROVE  TypeInv'
<1> DEFINE n == [Idle EXCEPT !.pc = pc, !.pass = "desk", !.cust = c, !.req = t, !.row = row]
<1>1. n \in ProcStates /\ n.pc = pc /\ n.req = t /\ n.cust = c
  BY IdleOK, AllPcs DEF ProcStates, Passes, Idle
<1>2. Shape(n)
  BY AllPcs DEF Shape, Holding, PassAt, Idle, Closed
<1>3. Become(p, n) /\ RowsStay
  BY DEF Begin, RowsStay
<1> HIDE DEF n
<1> QED
  BY <1>1, <1>2, <1>3, TypesFollow DEF Holding

LEMMA DeskStartTypes ==
    ASSUME TypeInv, NEW p \in Procs, Request(p)
    PROVE  TypeInv'
<1>1. TablesOK /\ NoRow \in Rows /\ None \in RequestIds \cup {None}
  BY TwoHalves DEF NoRow, Rows, RequestStatuses, Kinds
<1>2. ASSUME NEW c \in Customers, RequestTermination(p, c) PROVE TypeInv'
  <2>1. TablesOK' /\ requests' = requests
    BY <1>1, <1>2, SameTables DEF RequestTermination, paperwork
  <2> QED
    BY <1>1, <1>2, <2>1, BeginTypes DEF RequestTermination
<1>3. ASSUME NEW t \in RequestIds, CancelTerminationRequest(p, t) PROVE TypeInv'
  <2> PICK row \in Rows : row = requests[t]
    BY <1>1 DEF TablesOK
  <2>1. TablesOK' /\ requests' = requests
    BY <1>1, <1>3, SameTables DEF CancelTerminationRequest, paperwork
  <2>2. row.status # "absent" /\ row.cust \in Customers
    BY <1>1, <1>3 DEF CancelTerminationRequest, MayCancel, TablesOK, Rows
  <2>3. /\ [row EXCEPT !.status = "cancelled"] \in Rows
        /\ [row EXCEPT !.status = "cancelled"].cust = row.cust
        /\ [row EXCEPT !.status = "cancelled"].status = "cancelled"
    BY DEF Rows, RequestStatuses, Closed
  <2>4. Begin(p, "update", row.cust, t, [row EXCEPT !.status = "cancelled"])
    BY <1>3 DEF CancelTerminationRequest
  <2> QED
    BY <1>1, <2>1, <2>2, <2>3, <2>4, BeginTypes
<1>4. ASSUME NEW t \in RequestIds, VerifyBAST(p, t) PROVE TypeInv'
  <2> PICK row \in Rows : row = requests[t]
    BY <1>1 DEF TablesOK
  <2>1. TablesOK' /\ requests' = requests
    BY <1>1, <1>4, SameTables DEF VerifyBAST, paperwork
  <2>2. row.status # "absent" /\ row.cust \in Customers
    BY <1>1, <1>4 DEF VerifyBAST, TablesOK, OrdersNameRequests, Rows
  <2> QED
    BY <1>1, <1>4, <2>1, <2>2, BeginTypes DEF VerifyBAST
<1> QED
  BY <1>2, <1>3, <1>4 DEF Request

\* A desk's request up to its INSERT.
LEMMA DeskRequestTypes ==
    ASSUME TypeInv, NEW p \in Procs, Summary(p) \/ Outstanding(p) \/ FinalInvoice(p)
    PROVE  TypeInv'
<1>0. TablesOK /\ ProcsOK
  BY TwoHalves
<1> PICK s \in ProcStates : s = procs[p] /\ Shape(s)
  BY <1>0 DEF ProcsOK
<1>1. RowsStay /\ ~At(p, "idle") /\ s.cust \in Customers /\ s.pass = "desk"
  <2>1. s.pc \in {"summary", "outstanding", "invoice"} /\ requests' = requests
    BY DEF Summary, Outstanding, FinalInvoice, paperwork, At
  <2> QED
    BY <2>1 DEF RowsStay, At, Shape, PassAt
<1>2. CASE Summary(p)
  <2>1. TablesOK'
    BY <1>0, <1>2, SameTables DEF Summary
  <2>2. Shape([s EXCEPT !.pc = "outstanding"])
    BY <1>1 DEF Shape, Holding, PassAt, ProcStates
  <2>3. "outstanding" \in Pcs /\ "outstanding" \notin Holding
    BY AllPcs DEF Holding
  <2> QED
    BY <1>1, <1>2, <2>1, <2>2, <2>3, TypesFollowGoOn DEF Summary
<1>3. CASE Outstanding(p)
  <2>1. TablesOK'
    BY <1>0, <1>3, SameTables DEF Outstanding
  <2>2. PICK pc \in {"invoice", "create"}, status \in {"awaiting_payment", "wo_pending"} :
            Become(p, [s EXCEPT !.pc = pc, !.row = NewRequest(s.cust, "voluntary", status)])
    BY <1>3 DEF Outstanding
  <2> DEFINE row == NewRequest(s.cust, "voluntary", status)
             n == [s EXCEPT !.pc = pc, !.row = row]
  <2>3. row \in Rows /\ row.cust = s.cust /\ row.status = status
    BY <1>1 DEF NewRequest, Rows, RequestStatuses, Kinds
  <2> HIDE DEF row
  <2>4. n \in ProcStates /\ n.pc \notin Holding
    BY <2>3, AllPcs DEF ProcStates, Holding
  <2>5. Shape(n)
    BY <1>1, <2>3 DEF Shape, Holding, PassAt, ProcStates
  <2>6. Become(p, n)
    BY <2>2 DEF row
  <2> HIDE DEF n
  <2> QED
    BY <1>1, <2>1, <2>4, <2>5, <2>6, TypesFollow
<1>4. CASE FinalInvoice(p)
  <2>1. TablesOK'
    BY <1>0, <1>1, <1>4, SubscriptionsAssumption
       DEF FinalInvoice, TablesOK, service, paperwork, OrdersNameRequests
  <2>2. Shape([s EXCEPT !.pc = "create"])
    <3>1. s.row.cust = s.cust /\ s.row.status \in {"awaiting_payment", "wo_pending"}
      BY <1>4 DEF FinalInvoice, Shape, At
    <3> QED
      BY <1>1, <3>1 DEF Shape, Holding, PassAt, ProcStates
  <2>3. "create" \in Pcs /\ "create" \notin Holding
    BY AllPcs DEF Holding
  <2> QED
    BY <1>1, <1>4, <2>1, <2>2, <2>3, TypesFollowGoOn DEF FinalInvoice
<1> QED
  BY <1>2, <1>3, <1>4

\* The approval of a work order and its hook.
LEMMA DeskApprovalTypes ==
    ASSUME TypeInv, NEW p \in Procs,
           \/ ApproveWO(p) \/ CompleteTerminationByWO(p) \/ TerminateCRM(p) \/ Deactivate(p)
    PROVE  TypeInv'
<1>0. TablesOK /\ ProcsOK
  BY TwoHalves
<1> PICK s \in ProcStates : s = procs[p] /\ Shape(s)
  BY <1>0 DEF ProcsOK
<1>1. RowsStay /\ ~At(p, "idle") /\ s.cust \in Customers /\ s.pass = "desk"
  BY DEF RowsStay, ApproveWO, CompleteTerminationByWO, TerminateCRM, Deactivate, paperwork, At,
         Shape, PassAt
<1>2. s.pc \in Holding =>
        s.req \in RequestIds /\ requests[s.req].status # "absent" /\ requests[s.req].cust = s.cust
  BY DEF TypeInv, HandsNameRequests, Shape
<1>3. CASE ApproveWO(p)
  <2>1. s.pc \in Holding /\ s.pc = "approve"
    BY <1>3 DEF ApproveWO, At, Holding
  <2>2. TablesOK'
    BY <1>0, <1>2, <1>3, <2>1, OrderWritten DEF ApproveWO
  <2>3. Shape([s EXCEPT !.pc = "hook"])
    BY <1>1, <1>2, <2>1 DEF Shape, Holding, PassAt, ProcStates
  <2>4. "hook" \in Pcs
    BY AllPcs
  <2> QED
    BY <1>1, <1>2, <1>3, <2>1, <2>2, <2>3, <2>4, TypesFollowGoOn DEF ApproveWO
<1>4. CASE CompleteTerminationByWO(p)
  <2>1. TablesOK' /\ requests' = requests
    BY <1>0, <1>4, SameTables DEF CompleteTerminationByWO, paperwork
  <2>2. /\ s.pc = "hook" /\ s.req \in RequestIds
        /\ requests[s.req].status # "absent" /\ requests[s.req].cust = s.cust
    BY <1>2, <1>4 DEF CompleteTerminationByWO, At, Holding
  <2>3. CASE MayComplete(requests[s.req])
    <3> PICK row \in Rows : row = requests[s.req]
      BY <1>0, <2>2 DEF TablesOK
    <3> DEFINE done == [row EXCEPT !.status = "completed"]
               n == [s EXCEPT !.pc = "update", !.row = done]
    <3>1. done \in Rows /\ done.cust = row.cust /\ done.status = "completed"
      BY DEF Rows, RequestStatuses, Closed
    <3> HIDE DEF done
    <3>2. n \in ProcStates /\ n.req = s.req /\ n.cust = s.cust
      BY <3>1, AllPcs DEF ProcStates
    <3>3. Shape(n)
      BY <1>1, <2>2, <3>1 DEF Shape, Holding, PassAt, ProcStates, Closed
    <3>4. Become(p, n)
      BY <1>4, <2>3 DEF CompleteTerminationByWO, done
    <3> HIDE DEF n
    <3> QED
      BY <1>1, <2>1, <2>2, <3>2, <3>3, <3>4, TypesFollow
  <2>4. CASE ~MayComplete(requests[s.req])
    <3>1. Become(p, Idle)
      BY <1>4, <2>4 DEF CompleteTerminationByWO
    <3> QED
      BY <1>1, <2>1, <3>1, IdleOK, TypesFollow DEF Idle, Holding
  <2> QED
    BY <2>3, <2>4
<1>5. CASE TerminateCRM(p)
  <2>1. TablesOK'
    BY <1>0, <1>1, <1>5, StatusWritten DEF TerminateCRM
  <2>2. Shape([s EXCEPT !.pc = "deactivate"])
    BY <1>1 DEF Shape, Holding, PassAt, ProcStates
  <2>3. "deactivate" \in Pcs /\ "deactivate" \notin Holding
    BY AllPcs DEF Holding
  <2> QED
    BY <1>1, <1>5, <2>1, <2>2, <2>3, TypesFollowGoOn DEF TerminateCRM
<1>6. CASE Deactivate(p)
  <2>1. TablesOK'
    BY <1>0, <1>1, <1>6, AccountWritten DEF Deactivate
  <2> QED
    BY <1>1, <1>6, <2>1, TypesFollowGoOn DEF Deactivate
<1> QED
  BY <1>3, <1>4, <1>5, <1>6

\* The suspension loop and the restore loop.
LEMMA LoopTypes ==
    ASSUME TypeInv, NEW p \in Procs, NEW c,
           \/ StartSuspension(p) \/ Escalate(p, c) \/ Flip(p) \/ LogAction(p)
           \/ StartRestore(p) \/ ReviveRadius(p, c) \/ ReviveCRM(p) \/ FinishLoop(p)
    PROVE  TypeInv'
<1>0. TablesOK /\ ProcsOK
  BY TwoHalves
<1> PICK s \in ProcStates : s = procs[p] /\ Shape(s)
  BY <1>0 DEF ProcsOK
<1>1. RowsStay
  BY DEF RowsStay, paperwork, StartSuspension, Escalate, Flip, LogAction, StartRestore,
         ReviveRadius, ReviveCRM, FinishLoop
<1>2. CASE StartSuspension(p)
  <2>1. TablesOK'
    BY <1>0, <1>2, SameTables DEF StartSuspension
  <2> DEFINE seen == [d \in Customers |-> Oldest(d)]
             todo == {d \in Customers : Candidate(d)}
             n == [Idle EXCEPT !.pc = "scan", !.pass = "escalate", !.todo = todo, !.seen = seen]
  <2>2. seen \in [Customers -> 0..MaxAge] /\ todo \in SUBSET Customers
    BY <1>0, OldestAge
  <2>3. Become(p, n)
    BY <1>2 DEF StartSuspension
  <2> HIDE DEF seen, todo
  <2>4. "escalate" \in PassAt.scan
    BY DEF PassAt
  <2>5. n \in ProcStates /\ Shape(n)
    <3>1. n = [Idle EXCEPT !.pc = "scan", !.pass = "escalate", !.seen = seen, !.todo = todo]
      BY DEF Idle
    <3> HIDE DEF n
    <3> QED
      BY <1>0, <2>2, <2>4, <3>1, ScanningOK
  <2>6. n.pc \notin Holding
    BY DEF Idle, Holding
  <2> HIDE DEF n
  <2> QED
    BY <1>1, <2>1, <2>3, <2>5, <2>6, TypesFollow
<1>3. CASE Escalate(p, c)
  <2>0. c \in Customers
    BY <1>3 DEF Escalate, Scanning, ProcStates
  <2>1. TablesOK'
    BY <1>0, <1>3, SameTables DEF Escalate
  <2> DEFINE act == NextAction(ladder[c], s.seen[c])
             pc == IF act = "warn" THEN "log" ELSE "flip"
             n == [s EXCEPT !.cust = c, !.act = act, !.pc = pc]
  <2>2. act \in {"none", "warn", "soft_suspend", "hard_suspend"}
    BY <2>0 DEF NextAction, Reached
  <2>3. IF act = "none" THEN Skip(p, c) ELSE Become(p, n)
    BY <2>0, <1>3 DEF Escalate
  <2>4. s.pc = "scan" /\ s.pass = "escalate"
    BY <2>0, <1>3 DEF Escalate, Scanning, At
  <2> HIDE DEF act
  <2>5. CASE act = "none"
    BY <1>1, <2>1, <2>3, <2>4, <2>5, TypesFollowSkip DEF At
  <2>6. CASE act # "none"
    <3>0. pc \in {"log", "flip"} /\ (pc = "flip" => act \in {"soft_suspend", "hard_suspend"})
      BY <2>2, <2>6
    <3> HIDE DEF pc
    <3>1. n \in ProcStates /\ n.pc \notin Holding
      BY <2>0, <2>2, <3>0, AllPcs DEF ProcStates, Actions, Holding
    <3>2. Shape(n)
      BY <2>0, <2>2, <2>4, <3>0 DEF Shape, Holding, PassAt, ProcStates
    <3> HIDE DEF n
    <3> QED
      BY <1>1, <2>1, <2>3, <2>6, <3>1, <3>2, TypesFollow
  <2> QED
    BY <2>5, <2>6
<1>4. CASE Flip(p)
  <2>1. s.cust \in Customers /\ ~At(p, "idle")
    BY <1>4 DEF Flip, At, Shape
  <2>2. TablesOK'
    BY <1>0, <1>4, <2>1, StatusWritten DEF Flip
  <2>3. Shape([s EXCEPT !.pc = "log"])
    BY <1>4 DEF Shape, Holding, PassAt, Flip, At, ProcStates
  <2>4. "log" \in Pcs /\ "log" \notin Holding
    BY AllPcs DEF Holding
  <2> QED
    BY <1>1, <1>4, <2>1, <2>2, <2>3, <2>4, TypesFollowGoOn DEF Flip
<1>5. CASE LogAction(p)
  <2>1. s.cust \in Customers /\ ~At(p, "idle") /\ s.act \in Actions
    BY <1>5 DEF LogAction, At, Shape, ProcStates
  <2>2. TablesOK'
    BY <1>0, <1>5, <2>1 DEF LogAction, TablesOK, paperwork, OrdersNameRequests
  <2> QED
    BY <1>1, <1>5, <2>1, <2>2, TypesFollowGoOn DEF LogAction
<1>6. CASE StartRestore(p)
  <2>1. TablesOK'
    BY <1>0, <1>6, SameTables DEF StartRestore
  <2> DEFINE todo == {d \in Customers : crm[d] = "suspended" /\ unpaid[d] = {}}
  <2>2. todo \in SUBSET Customers /\ "revive" \in PassAt.scan
    BY DEF PassAt
  <2> QED
    BY <1>1, <1>6, <2>1, <2>2, TypesFollowList DEF StartRestore
<1>7. CASE ReviveRadius(p, c)
  <2>0. c \in Customers
    BY <1>7 DEF ReviveRadius, Scanning, ProcStates
  <2>1. TablesOK'
    BY <2>0, <1>0, <1>7, AccountWritten DEF ReviveRadius
  <2> DEFINE n == [s EXCEPT !.pc = "reviveCRM", !.cust = c, !.act = "restore"]
  <2>2. n \in ProcStates /\ n.pc \notin Holding
    BY <2>0, AllPcs DEF ProcStates, Actions, Holding
  <2>3. Shape(n)
    BY <2>0, <1>7 DEF Shape, Holding, PassAt, ReviveRadius, Scanning, ProcStates
  <2>4. Become(p, n)
    BY <2>0, <1>7 DEF ReviveRadius
  <2> HIDE DEF n
  <2> QED
    BY <1>1, <2>1, <2>2, <2>3, <2>4, TypesFollow
<1>8. CASE ReviveCRM(p)
  <2>1. s.cust \in Customers /\ ~At(p, "idle")
    BY <1>8 DEF ReviveCRM, At, Shape
  <2>2. TablesOK'
    BY <1>0, <1>8, <2>1, StatusWritten DEF ReviveCRM
  <2>3. Shape([s EXCEPT !.pc = "log"])
    BY <1>8 DEF Shape, Holding, PassAt, ReviveCRM, At, ProcStates
  <2>4. "log" \in Pcs /\ "log" \notin Holding
    BY AllPcs DEF Holding
  <2> QED
    BY <1>1, <1>8, <2>1, <2>2, <2>3, <2>4, TypesFollowGoOn DEF ReviveCRM
<1>9. CASE FinishLoop(p)
  <2>1. TablesOK'
    BY <1>0, <1>9, SameTables DEF FinishLoop
  <2> QED
    BY <1>1, <1>9, <2>1, IdleOK, TypesFollow DEF FinishLoop, Idle, Holding
<1> QED
  BY <1>2, <1>3, <1>4, <1>5, <1>6, <1>7, <1>8, <1>9

LEMMA FaultTypes ==
    ASSUME TypeInv, NEW p \in Procs, NEW c,
           CallFails(p) \/ ReviveFails(p, c) \/ (c \in Customers /\ OpenLookupFails(p, c))
    PROVE  TypeInv'
<1>0. TablesOK /\ ProcsOK
  BY TwoHalves
<1> PICK s \in ProcStates : s = procs[p] /\ Shape(s)
  BY <1>0 DEF ProcsOK
<1>1. RowsStay /\ TablesOK' /\ requests' = requests
  BY <1>0, FaultCounted DEF CallFails, ReviveFails, OpenLookupFails, RowsStay, paperwork
<1>2. CASE CallFails(p)
  <2>1. s.pc \in DOMAIN OnError /\ GoOn(p, OnError[s.pc])
    BY <1>2 DEF CallFails
  <2>2. s.pc \in {"suspendCRM", "suspendRadius", "restoreCRM", "restoreRadius", "mint",
                  "terminateCRM", "deactivate", "flip", "log", "reviveCRM"}
    BY <2>1 DEF OnError
  <2>3. ~At(p, "idle") /\ s.cust \in Customers
    BY <2>2 DEF At, Shape
  <2>4. CASE s.pc \in {"terminateCRM"}
    <3>1. GoOn(p, "deactivate") /\ "deactivate" \in Pcs /\ "deactivate" \notin Holding
      BY <2>1, <2>4, AllPcs DEF OnError, Holding
    <3>2. Shape([s EXCEPT !.pc = "deactivate"])
      BY <2>4 DEF Shape, Holding, PassAt, ProcStates
    <3> QED
      BY <1>1, <2>3, <3>1, <3>2, TypesFollowGoOn
  <2>5. CASE s.pc = "flip"
    <3>1. GoOn(p, "log") /\ "log" \in Pcs /\ "log" \notin Holding
      BY <2>1, <2>5, AllPcs DEF OnError, Holding
    <3>2. Shape([s EXCEPT !.pc = "log"])
      BY <2>5 DEF Shape, Holding, PassAt, ProcStates
    <3> QED
      BY <1>1, <2>3, <3>1, <3>2, TypesFollowGoOn
  <2>6. CASE s.pc \notin {"terminateCRM", "flip"}
    <3>1. GoOn(p, "next")
      BY <2>1, <2>2, <2>6 DEF OnError
    <3> QED
      BY <1>1, <2>3, <3>1, TypesFollowGoOn
  <2> QED
    BY <2>4, <2>5, <2>6
<1>3. CASE ReviveFails(p, c)
  BY <1>1, <1>3, TypesFollowSkip DEF ReviveFails, Scanning, At
<1>4. CASE c \in Customers /\ OpenLookupFails(p, c)
  <2>1. CASE Begin(p, "summary", c, None, NoRow)
    <3>1. NoRow \in Rows
      BY DEF NoRow, Rows, RequestStatuses, Kinds
    <3> QED
      BY <1>1, <1>4, <2>1, <3>1, BeginTypes
  <2>2. CASE ~Begin(p, "summary", c, None, NoRow)
    BY <1>1, <1>4, <2>2, ScanTerminateTypes DEF OpenLookupFails
  <2> QED
    BY <2>1, <2>2
<1> QED
  BY <1>2, <1>3, <1>4

LEMMA CrashTypes ==
    ASSUME TypeInv, Crash
    PROVE  TypeInv'
<1>0. TablesOK /\ ProcsOK /\ HandsNameRequests
  BY TwoHalves
<1>1. TablesOK' /\ requests' = requests
  BY <1>0, SubscriptionsAssumption DEF Crash, TablesOK, service, paperwork, OrdersNameRequests
<1>2. procs' \in [Procs -> ProcStates] /\ \A p \in Procs : procs'[p] \in {procs[p], Idle}
  BY <1>0, IdleOK DEF Crash, ProcsOK
<1>3. ProcsOK'
  BY <1>0, <1>2, IdleOK DEF ProcsOK
<1>4. HandsNameRequests'
  <2>1. Idle.pc \notin Holding
    BY DEF Idle, Holding
  <2> QED
    BY <1>0, <1>1, <1>2, <2>1 DEF HandsNameRequests
<1> QED
  BY <1>1, <1>3, <1>4, TwoHalves, PTL

\* Billing and settling an invoice, and a day.
LEMMA LedgerTypes ==
    ASSUME TypeInv,
           \/ \E c \in Customers : Bill(c) \/ \E a \in unpaid[c] : Settle(c, a)
           \/ Day
    PROVE  TypeInv'
<1>0. TablesOK /\ ProcsOK /\ HandsNameRequests
  BY TwoHalves
<1>1. UNCHANGED <<crm, radius, ladder, requests, wos, procs, faults, crashes>>
  BY DEF Bill, Settle, Day, service, paperwork
<1>2. /\ unpaid' \in [Customers -> SUBSET (0..MaxAge)]
      /\ suspendedFor' \in [Customers -> 0..TerminateAfter]
  <2>1. ASSUME NEW c \in Customers, Bill(c) \/ \E a \in unpaid[c] : Settle(c, a) PROVE <1>2
    BY <1>0, <2>1, SubscriptionsAssumption DEF Bill, Settle, TablesOK, service
  <2>2. CASE Day
    <3>1. \A a \in 0..MaxAge : Min({a + 1, MaxAge}) \in 0..MaxAge
      BY SubscriptionsAssumption, MinOfTwo
    <3>2. \A a \in 0..TerminateAfter : Min({a + 1, TerminateAfter}) \in 0..TerminateAfter
      BY SubscriptionsAssumption, MinOfTwo
    <3>3. unpaid' \in [Customers -> SUBSET (0..MaxAge)]
      <4>1. \A c \in Customers : {Min({a + 1, MaxAge}) : a \in unpaid[c]} \in SUBSET (0..MaxAge)
        <5> TAKE c \in Customers
        <5>1. unpaid[c] \in SUBSET (0..MaxAge)
          BY <1>0 DEF TablesOK
        <5> QED
          BY <3>1, <5>1, Zenon
      <4> QED
        BY <2>2, <4>1, Zenon DEF Day
    <3>4. suspendedFor' \in [Customers -> 0..TerminateAfter]
      BY <1>0, <2>2, <3>2 DEF Day, TablesOK
    <3> QED
      BY <3>3, <3>4
  <2> QED
    BY <2>1, <2>2
<1>3. TablesOK' /\ ProcsOK' /\ HandsNameRequests'
  BY <1>0, <1>1, <1>2 DEF TablesOK, ProcsOK, HandsNameRequests, OrdersNameRequests
<1> QED
  BY <1>3, TwoHalves, PTL

LEMMA SameTypes ==
    ASSUME TypeInv, UNCHANGED vars
    PROVE  TypeInv'
BY DEF TypeInv, TypeOK, OrdersNameRequests, HandsNameRequests, vars, service, paperwork

LEMMA StepTypes ==
    ASSUME TypeInv, NEW p \in Procs, Start(p) \/ Request(p) \/ Step(p)
    PROVE  TypeInv'
<1>1. CASE Start(p)
  BY <1>1, TickTypes, LoopTypes DEF Start
<1>2. CASE Request(p)
  BY <1>2, DeskStartTypes
<1>3. ASSUME NEW c \in Customers, ForCustomer(p, c) PROVE TypeInv'
  <2>1. CASE ScanTerminate(p, c)
    <3>1. CASE Open(c)
      <4>1. Skip(p, c) /\ ~At(p, "idle")
        BY <2>1, <3>1 DEF ScanTerminate, Scanning, At
      <4>2. TablesOK' /\ RowsStay
        BY <2>1, TwoHalves, SameTables DEF ScanTerminate, paperwork, RowsStay
      <4> QED
        BY <4>1, <4>2, TypesFollowSkip
    <3>2. CASE ~Open(c)
      <4> PICK s \in ProcStates : s = procs[p] /\ Shape(s)
        BY TwoHalves DEF ProcsOK
      <4>1. TablesOK' /\ RowsStay
        BY <2>1, TwoHalves, SameTables DEF ScanTerminate, paperwork, RowsStay
      <4>2. /\ Scanning(p, "terminate", c)
            /\ Become(p, [s EXCEPT !.pc = "create", !.cust = c,
                             !.row = NewRequest(c, "auto", "wo_pending")])
        BY <2>1, <3>2 DEF ScanTerminate
      <4> QED
        BY <4>1, <4>2, ScanTerminateTypes
    <3> QED
      BY <3>1, <3>2
  <2> QED
    BY <1>3, <2>1, TickTypes, LoopTypes DEF ForCustomer
<1>4. CASE \/ SuspendCRM(p) \/ SuspendRadius(p) \/ ListSuspended(p)
           \/ RestoreCRM(p) \/ RestoreRadius(p) \/ ListLongSuspended(p) \/ FinishTick(p)
  BY <1>4, TickTypes
<1>5. CASE \/ CreateRequest(p) \/ MintWO(p) \/ UpdateRequest(p)
           \/ Summary(p) \/ Outstanding(p) \/ FinalInvoice(p)
           \/ ApproveWO(p) \/ CompleteTerminationByWO(p) \/ TerminateCRM(p) \/ Deactivate(p)
  BY <1>5, CreateTypes, MintTypes, UpdateTypes, DeskRequestTypes, DeskApprovalTypes
<1>6. CASE Flip(p) \/ LogAction(p) \/ ReviveCRM(p) \/ FinishLoop(p)
  BY <1>6, LoopTypes
<1> QED
  BY <1>1, <1>2, <1>3, <1>4, <1>5, <1>6 DEF Step

\* The tables and the processes are well formed whatever overlaps, fails or
\* stops; a request keeps its customer, and who holds it works for that one.
THEOREM TypeCorrect == Spec => []TypeInv
<1>1. Init => TypeInv
  <2> SUFFICES ASSUME Init PROVE TypeInv
    OBVIOUS
  <2>1. TablesOK
    BY SubscriptionsAssumption
       DEF Init, TablesOK, Actions, Rows, NoRow, RequestStatuses, Kinds, OrdersNameRequests
  <2>2. ProcsOK /\ HandsNameRequests
    BY IdleOK DEF Init, ProcsOK, HandsNameRequests, Holding, Idle
  <2> QED
    BY <2>1, <2>2, TwoHalves
<1>2. TypeInv /\ [Next]_vars => TypeInv'
  <2> SUFFICES ASSUME TypeInv, [Next]_vars PROVE TypeInv'
    OBVIOUS
  <2>1. CASE UNCHANGED vars
    BY <2>1, TwoHalves, SameTypes
  <2>2. ASSUME NEW p \in Procs, Start(p) \/ Request(p) \/ Step(p) PROVE TypeInv'
    BY <2>2, StepTypes
  <2>3. ASSUME NEW p \in Procs, CallFails(p) PROVE TypeInv'
    BY <2>3, FaultTypes
  <2>4. ASSUME NEW p \in Procs, NEW c \in Customers, ReviveFails(p, c) \/ OpenLookupFails(p, c)
        PROVE  TypeInv'
    BY <2>4, FaultTypes
  <2> QED
    BY <2>1, <2>2, <2>3, <2>4, CrashTypes, LedgerTypes DEF Next
<1> QED
  BY <1>1, <1>2, PTL DEF Spec

-----------------------------------------------------------------------------
(* One process at a time *)

AloneAt(p) == \A q \in Procs \ {p} : procs[q] = Idle

\* TerminationsMatch and AccountsMatch, when s is the state of the only process
\* that may be half-way.
Matches(s) ==
    \A c \in Customers :
        /\ crm[c] = "terminated" => \E t \in RequestIds : Done(t, c)
        /\ (\E t \in RequestIds : Ended(t, c)) =>
              crm[c] = "terminated" \/ (s.pc = "terminateCRM" /\ s.cust = c)
        /\ crm[c] = "active" =>
              radius[c] = "online" \/ (s.pc = "restoreRadius" /\ s.cust = c)
        /\ crm[c] = "terminated" =>
              radius[c] = "deactivated" \/ (s.pc = "deactivate" /\ s.cust = c)

LEMMA HalfwayAlone ==
    ASSUME NEW p \in Procs, AloneAt(p), NEW c,
           NEW pc \in {"terminateCRM", "restoreRadius", "deactivate"}
    PROVE  Halfway(c, pc) <=> procs[p].pc = pc /\ procs[p].cust = c
<1>1. Idle.pc # pc
  BY DEF Idle
<1> QED
  BY <1>1 DEF Halfway, At, AloneAt

LEMMA MatchesAlone ==
    ASSUME NEW p \in Procs, AloneAt(p)
    PROVE  TerminationsMatch /\ AccountsMatch <=> Matches(procs[p])
BY HalfwayAlone DEF Matches, TerminationsMatch, AccountsMatch

\* Whoever moves is alone: it was busy already, or it began on a quiet system.
LEMMA MoverIsAlone ==
    ASSUME OneBusy, NEW p \in Procs, procs[p] # Idle \/ Quiet
    PROVE  AloneAt(p)
BY DEF OneBusy, Quiet, AloneAt

\* What the process knows, if it is not idle, and all that the tables show.
Knows(s) == s # Idle => Holds(s)

\* A step of one process: it is alone before and after.
LEMMA AloneSteps ==
    ASSUME TypeInv, NEW p \in Procs, AloneAt(p), NEW n \in ProcStates, Become(p, n),
           Knows(n)', OneOpenRequest', Smooth' => Matches(n)'
    PROVE  SerialInv'
<1>1. procs'[p] = n /\ \A q \in Procs \ {p} : procs'[q] = Idle
  BY DEF TypeInv, TypeOK, Become, AloneAt
<1>2. AloneAt(p)' /\ OneBusy'
  BY <1>1 DEF AloneAt, OneBusy
<1>3. \A q \in Procs : procs'[q] # Idle => Holds(procs[q])'
  <2> SUFFICES ASSUME NEW q \in Procs, procs'[q] # Idle PROVE Holds(procs[q])'
    OBVIOUS
  <2>1. q = p /\ procs'[q] = n
    BY <1>1
  <2> QED
    BY <2>1 DEF Knows
<1>4. Smooth' => (TerminationsMatch /\ AccountsMatch)'
  <2>1. (TerminationsMatch /\ AccountsMatch)' <=> Matches(procs[p])'
    BY <1>2, MatchesAlone, PTL
  <2>2. Matches(procs[p])' <=> Matches(n)'
    BY <1>1 DEF Matches
  <2> QED
    BY <2>1, <2>2
<1> QED
  BY <1>2, <1>3, <1>4 DEF SerialInv

\* A step that leaves the tables alone.
LEMMA AloneTurns ==
    ASSUME TypeInv, SerialInv, NEW p \in Procs, AloneAt(p), NEW s \in ProcStates, s = procs[p],
           s.pc \notin {"terminateCRM", "restoreRadius", "deactivate"},
           NEW n \in ProcStates, Become(p, n), Knows(n),
           UNCHANGED <<crm, suspendedFor, radius, unpaid, paperwork, faults, crashes>>
    PROVE  SerialInv'
<1>1. Knows(n)'
  BY DEF Knows, Holds, ListingHolds, CustomerHolds, RequestHolds, PassHolds, Overdue, Open, Unused,
         LongSuspended, Done, Ended, paperwork
<1>2. OneOpenRequest'
  BY DEF SerialInv, OneOpenRequest, paperwork
<1>3. Smooth' => Matches(n)'
  <2> SUFFICES ASSUME Smooth' PROVE Matches(n)'
    OBVIOUS
  <2>1. Matches(s)
    BY MatchesAlone DEF SerialInv, Smooth
  <2> QED
    BY <2>1 DEF Matches, Done, Ended, paperwork
<1> QED
  BY <1>1, <1>2, <1>3, AloneSteps

\* The pass has nothing left to do for customer c.
Through(pass, c) ==
    /\ pass = "suspend" => ~(crm[c] = "active" /\ Overdue(c, SuspendAfter))
    /\ pass = "restore" => ~(crm[c] = "suspended" /\ ~Overdue(c, 0))
    /\ pass = "terminate" /\ Unused # {} => (LongSuspended(c) => Open(c))

LEMMA SkippedKnows ==
    ASSUME NEW s \in ProcStates, NEW c \in Customers, ListingHolds(s), s.cust \in {None, c},
           faults = 0 => PassHolds(s) /\ Through(s.pass, c)
    PROVE  Knows(Skipped(s, c))
<1> SUFFICES ASSUME s.pass # "desk" PROVE Holds(Skipped(s, c))
  BY DEF Knows, Skipped
<1> DEFINE n == Skipped(s, c)
<1>1. /\ n.pc = "scan" /\ n.pass = s.pass /\ n.cust = None /\ n.seen = s.seen
      /\ n.todo = s.todo \ {c}
  BY DEF Skipped, Idle
<1> HIDE DEF n
<1>2. ListingHolds(n)
  BY <1>1 DEF ListingHolds
<1>3. CustomerHolds(n) /\ RequestHolds(n)
  BY <1>1 DEF CustomerHolds, RequestHolds
<1>4. faults = 0 => PassHolds(n)
  BY <1>1 DEF PassHolds, Through
<1> QED
  BY <1>2, <1>3, <1>4 DEF Holds, n

\* The tick's listings and looks.
LEMMA TickLooks ==
    ASSUME TypeInv, SerialInv, NEW p \in Procs, AloneAt(p), NEW c,
           \/ StartTick(p) \/ ScanSuspend(p, c) \/ ListSuspended(p) \/ ScanRestore(p, c)
           \/ ListLongSuspended(p) \/ FinishTick(p)
    PROVE  SerialInv'
<1>0. TablesOK /\ ProcsOK
  BY TwoHalves
<1> PICK s \in ProcStates : s = procs[p] /\ Shape(s)
  BY <1>0 DEF ProcsOK
<1>1. s # Idle => Holds(s)
  BY DEF SerialInv
<1>2. /\ UNCHANGED <<crm, suspendedFor, radius, unpaid, paperwork, faults, crashes>>
      /\ s.pc \in {"idle", "scan"}
  BY DEF StartTick, ScanSuspend, ListSuspended, ScanRestore, ListLongSuspended, FinishTick,
         Free, Scanning, Listed, At, Idle, service
<1>3. s.pc = "scan" => s.cust = None /\ Holds(s) /\ s.cust \notin Customers
  BY <1>1, SubscriptionsAssumption DEF Shape, Idle
<1>4. ASSUME NEW n \in ProcStates, Become(p, n), Knows(n) PROVE SerialInv'
  BY <1>2, <1>4, AloneTurns
<1>5. ASSUME NEW pass \in PassAt.scan, NEW todo \in SUBSET Customers, List(p, pass, todo),
             pass \in {"suspend", "restore", "terminate"},
             pass = "suspend" =>
                /\ \A d \in todo : crm[d] = "active"
                /\ \A d \in Customers : crm[d] = "active" => d \in todo,
             pass \in {"restore", "terminate"} /\ faults = 0 =>
                \A d \in Customers : crm[d] = "active" => ~Overdue(d, SuspendAfter),
             pass = "restore" =>
                /\ \A d \in todo : crm[d] = "suspended"
                /\ \A d \in Customers : crm[d] = "suspended" => d \in todo,
             pass = "terminate" =>
                /\ faults = 0 => \A d \in Customers : crm[d] = "suspended" => Overdue(d, 0)
                /\ \A d \in Customers : LongSuspended(d) => d \in todo
      PROVE  SerialInv'
  <2> DEFINE n == [Idle EXCEPT !.pc = "scan", !.pass = pass, !.todo = todo]
  <2>1. n \in ProcStates
    BY <1>5, ListedOK
  <2>2. n.pc = "scan" /\ n.pass = pass /\ n.todo = todo /\ n.cust = None
    BY DEF Idle
  <2>3. Become(p, n)
    BY <1>5 DEF List
  <2> HIDE DEF n
  <2>4. ListingHolds(n)
    BY <1>5, <2>2 DEF ListingHolds
  <2>5. CustomerHolds(n) /\ RequestHolds(n)
    BY <2>2 DEF CustomerHolds, RequestHolds
  <2>6. faults = 0 => PassHolds(n)
    BY <1>5, <2>2 DEF PassHolds
  <2> QED
    BY <1>4, <2>1, <2>3, <2>4, <2>5, <2>6 DEF Knows, Holds
<1>6. CASE StartTick(p)
  <2> DEFINE todo == {d \in Customers : crm[d] = "active"}
  <2>1. "suspend" \in PassAt.scan /\ todo \in SUBSET Customers /\ List(p, "suspend", todo)
    BY <1>6 DEF StartTick, PassAt
  <2> QED
    BY <1>5, <2>1
<1>7. CASE ListSuspended(p)
  <2> DEFINE todo == {d \in Customers : crm[d] = "suspended"}
  <2>1. "restore" \in PassAt.scan /\ todo \in SUBSET Customers /\ List(p, "restore", todo)
    BY <1>7 DEF ListSuspended, PassAt
  <2>2. faults = 0 => \A d \in Customers : crm[d] = "active" => ~Overdue(d, SuspendAfter)
    BY <1>3, <1>7 DEF ListSuspended, Listed, At, Holds, PassHolds
  <2> QED
    BY <1>5, <2>1, <2>2
<1>8. CASE ListLongSuspended(p)
  <2> DEFINE todo == {d \in Customers : LongSuspended(d)}
  <2>1. "terminate" \in PassAt.scan /\ todo \in SUBSET Customers /\ List(p, "terminate", todo)
    BY <1>8 DEF ListLongSuspended, PassAt
  <2>2. faults = 0 => /\ \A d \in Customers : crm[d] = "active" => ~Overdue(d, SuspendAfter)
                      /\ \A d \in Customers : crm[d] = "suspended" => Overdue(d, 0)
    BY <1>3, <1>8 DEF ListLongSuspended, Listed, At, Holds, PassHolds
  <2> QED
    BY <1>5, <2>1, <2>2
<1>9. CASE FinishTick(p)
  BY <1>4, <1>9, IdleOK DEF FinishTick, Knows
<1>10. ASSUME NEW d \in Customers, d \in s.todo, NEW pc \in {"suspendCRM", "restoreCRM"},
              s.pc = "scan", s.pass = IF pc = "suspendCRM" THEN "suspend" ELSE "restore",
              Become(p, [s EXCEPT !.pc = pc, !.cust = d]),
              pc = "suspendCRM" => Overdue(d, SuspendAfter),
              pc = "restoreCRM" => ~Overdue(d, 0)
       PROVE  SerialInv'
  <2> DEFINE n == [s EXCEPT !.pc = pc, !.cust = d]
  <2>1. /\ n \in ProcStates /\ n.pc = pc /\ n.pass = s.pass /\ n.cust = d
        /\ n.todo = s.todo
    BY AllPcs DEF ProcStates
  <2> HIDE DEF n
  <2>0. s.pass \in {"suspend", "restore"} /\ (pc = "suspendCRM" <=> s.pass = "suspend")
    BY <1>10
  <2>2. ListingHolds(n)
    BY <1>3, <1>10, <2>0, <2>1 DEF ListingHolds, Holds, ProcStates
  <2>3. CustomerHolds(n) /\ RequestHolds(n)
    BY <1>3, <1>10, <2>0, <2>1 DEF CustomerHolds, RequestHolds, Holds, ListingHolds
  <2>4. faults = 0 => PassHolds(n)
    BY <1>3, <1>10, <2>1 DEF PassHolds, Holds
  <2> QED
    BY <1>4, <1>10, <2>1, <2>2, <2>3, <2>4 DEF Knows, Holds, n
<1>11. ASSUME NEW d \in Customers, s.pc = "scan", Skip(p, d), Through(s.pass, d) PROVE SerialInv'
  <2>1. Knows(Skipped(s, d))
    BY <1>3, <1>11, SkippedKnows DEF Holds
  <2>2. Skipped(s, d) \in ProcStates /\ Become(p, Skipped(s, d))
    BY <1>11, SkippedOK DEF Skip, Skipped
  <2> QED
    BY <1>4, <2>1, <2>2
<1>12. CASE ScanSuspend(p, c)
  <2>1. c \in Customers /\ c \in s.todo /\ s.pc = "scan" /\ s.pass = "suspend"
    BY <1>12 DEF ScanSuspend, Scanning, At, ProcStates
  <2>2. CASE PastWindow(c)
    BY <1>10, <1>12, <2>1, <2>2 DEF ScanSuspend, PastWindow
  <2>3. CASE ~PastWindow(c)
    BY <1>11, <1>12, <2>1, <2>3 DEF ScanSuspend, PastWindow, Through
  <2> QED
    BY <2>2, <2>3
<1>13. CASE ScanRestore(p, c)
  <2>1. c \in Customers /\ c \in s.todo /\ s.pc = "scan" /\ s.pass = "restore"
    BY <1>13 DEF ScanRestore, Scanning, At, ProcStates
  <2>2. CASE ~StillOverdue(c)
    BY <1>10, <1>13, <2>1, <2>2 DEF ScanRestore, StillOverdue
  <2>3. CASE StillOverdue(c)
    BY <1>11, <1>13, <2>1, <2>3 DEF ScanRestore, StillOverdue, Through
  <2> QED
    BY <2>2, <2>3
<1> QED
  BY <1>6, <1>7, <1>8, <1>9, <1>12, <1>13

\* What it knows then does not depend on the RADIUS accounts, nor on failures.
LEMMA SkippedStillKnows ==
    ASSUME NEW s, NEW c, Knows(Skipped(s, c)),
           UNCHANGED <<crm, suspendedFor, unpaid, requests>>, faults' = 0 => faults = 0
    PROVE  Knows(Skipped(s, c))'
<1> DEFINE n == Skipped(s, c)
<1>1. n = Idle \/ n.pc = "scan"
  BY DEF Skipped, Idle
<1> HIDE DEF n
<1>2. Knows(n)'
  BY <1>1 DEF n, Knows, Holds, ListingHolds, CustomerHolds, RequestHolds, PassHolds, Overdue, Open,
        Unused, LongSuspended
<1> QED
  BY <1>2 DEF n

\* A step goes on to pc with its customer, or leaves it.
LEMMA AloneGoesOn ==
    ASSUME TypeInv, NEW p \in Procs, AloneAt(p), NEW s \in ProcStates, s = procs[p], Shape(s),
           s.pc # "idle", NEW pc \in Pcs \cup {"next"}, GoOn(p, pc), Knows(GoneOn(s, pc))',
           OneOpenRequest', Smooth' => Matches(GoneOn(s, pc))'
    PROVE  SerialInv'
<1> DEFINE n == GoneOn(s, pc)
<1>1. n \in ProcStates
  <2>1. CASE pc = "next"
    BY <2>1, SkippedOK DEF GoneOn
  <2>2. CASE pc # "next"
    BY <2>2 DEF GoneOn, ProcStates
  <2> QED
    BY <2>1, <2>2
<1>2. Become(p, n)
  BY DEF GoOn, GoneOn, Skip, Skipped
<1> HIDE DEF n
<1>3. Knows(n)' /\ (Smooth' => Matches(n)')
  BY DEF n
<1> QED
  BY <1>1, <1>2, <1>3, AloneSteps

\* A process that has left its customer is nowhere half-way.
LEMMA SkippedIsNowhere ==
    ASSUME NEW s, NEW c
    PROVE  Skipped(s, c).pc \notin {"terminateCRM", "restoreRadius", "deactivate"}
BY DEF Skipped, Idle

\* The tick suspends a customer.
LEMMA TickSuspends ==
    ASSUME TypeInv, SerialInv, NEW p \in Procs, AloneAt(p), SuspendCRM(p) \/ SuspendRadius(p)
    PROVE  SerialInv'
<1>0. TablesOK /\ ProcsOK
  BY TwoHalves
<1> PICK s \in ProcStates : s = procs[p] /\ Shape(s)
  BY <1>0 DEF ProcsOK
<1>1. /\ s.pc \in {"suspendCRM", "suspendRadius"} /\ s.pass = "suspend" /\ s.cust \in Customers
      /\ s # Idle
  BY DEF SuspendCRM, SuspendRadius, At, Shape, PassAt, Idle
<1>2. Holds(s) /\ ListingHolds(s) /\ CustomerHolds(s) /\ (faults = 0 => PassHolds(s))
  BY <1>1 DEF SerialInv, Holds
<1>3. Smooth => Matches(s)
  BY MatchesAlone DEF SerialInv
<1>4. UNCHANGED <<unpaid, paperwork, faults, crashes>> /\ OneOpenRequest'
  BY DEF SuspendCRM, SuspendRadius, SerialInv, OneOpenRequest, paperwork
<1>5. CASE SuspendCRM(p)
  <2> DEFINE n == [s EXCEPT !.pc = "suspendRadius"]
  <2>1. /\ n.pc = "suspendRadius" /\ n.pass = s.pass /\ n.todo = s.todo /\ n.cust = s.cust
        /\ n = GoneOn(s, "suspendRadius") /\ "suspendRadius" \in Pcs
    BY AllPcs DEF ProcStates, GoneOn
  <2>2. crm' = [crm EXCEPT ![s.cust] = "suspended"] /\ radius' = radius
    BY <1>5 DEF SuspendCRM, SetCustomerStatus
  <2>3. s.pc = "suspendCRM" /\ crm[s.cust] = "active"
    BY <1>2, <1>5 DEF SuspendCRM, At, CustomerHolds
  <2> HIDE DEF n
  <2>4. ListingHolds(n)' /\ CustomerHolds(n)' /\ RequestHolds(n)'
    BY <1>0, <1>1, <1>2, <2>1, <2>2
       DEF ListingHolds, CustomerHolds, RequestHolds, ProcStates, TablesOK
  <2>5. faults' = 0 => PassHolds(n)'
    BY <1>0, <1>1, <1>2, <1>4, <2>1, <2>2 DEF PassHolds, Overdue, TablesOK
  <2>6. Smooth' => Matches(n)'
    BY <1>0, <1>1, <1>3, <1>4, <2>1, <2>2, <2>3 DEF Matches, Done, Ended, Smooth, paperwork, TablesOK
  <2> QED
    BY <1>1, <1>4, <1>5, <2>1, <2>4, <2>5, <2>6, AloneGoesOn DEF SuspendCRM, Knows, Holds
<1>6. CASE SuspendRadius(p)
  <2>1. /\ radius' = [radius EXCEPT ![s.cust] = "suspended"] /\ UNCHANGED <<crm, suspendedFor>>
        /\ GoOn(p, "next")
    BY <1>6 DEF SuspendRadius, SetRadius
  <2>2. crm[s.cust] = "suspended" /\ s.pc = "suspendRadius"
    BY <1>2, <1>6 DEF SuspendRadius, At, CustomerHolds
  <2>3. Knows(Skipped(s, s.cust))
    BY <1>1, <1>2, <2>2, SkippedKnows DEF Through
  <2>4. Knows(Skipped(s, s.cust))'
    BY <1>4, <2>1, <2>3, SkippedStillKnows DEF paperwork
  <2>5. Smooth' => Matches(Skipped(s, s.cust))'
    BY <1>0, <1>1, <1>3, <1>4, <2>1, <2>2, SkippedIsNowhere
       DEF Matches, Done, Ended, Smooth, paperwork, TablesOK
  <2> QED
    BY <1>1, <1>4, <2>1, <2>4, <2>5, AloneGoesOn DEF GoneOn
<1> QED
  BY <1>5, <1>6

\* The tick restores a customer.
LEMMA TickRestores ==
    ASSUME TypeInv, SerialInv, NEW p \in Procs, AloneAt(p), RestoreCRM(p) \/ RestoreRadius(p)
    PROVE  SerialInv'
<1>0. TablesOK /\ ProcsOK
  BY TwoHalves
<1> PICK s \in ProcStates : s = procs[p] /\ Shape(s)
  BY <1>0 DEF ProcsOK
<1>1. /\ s.pc \in {"restoreCRM", "restoreRadius"} /\ s.pass = "restore" /\ s.cust \in Customers
      /\ s # Idle
  BY DEF RestoreCRM, RestoreRadius, At, Shape, PassAt, Idle
<1>2. Holds(s) /\ ListingHolds(s) /\ CustomerHolds(s) /\ (faults = 0 => PassHolds(s))
  BY <1>1 DEF SerialInv, Holds
<1>3. Smooth => Matches(s)
  BY MatchesAlone DEF SerialInv
<1>4. UNCHANGED <<unpaid, paperwork, faults, crashes>> /\ OneOpenRequest'
  BY DEF RestoreCRM, RestoreRadius, SerialInv, OneOpenRequest, paperwork
<1>5. CASE RestoreCRM(p)
  <2> DEFINE n == [s EXCEPT !.pc = "restoreRadius"]
  <2>1. /\ n.pc = "restoreRadius" /\ n.pass = s.pass /\ n.todo = s.todo /\ n.cust = s.cust
        /\ n = GoneOn(s, "restoreRadius") /\ "restoreRadius" \in Pcs
    BY AllPcs DEF ProcStates, GoneOn
  <2>2. crm' = [crm EXCEPT ![s.cust] = "active"] /\ radius' = radius
    BY <1>5 DEF RestoreCRM, SetCustomerStatus
  <2>3. s.pc = "restoreCRM" /\ crm[s.cust] = "suspended" /\ ~Overdue(s.cust, 0)
    BY <1>2, <1>5 DEF RestoreCRM, At, CustomerHolds
  <2>4. ~Overdue(s.cust, SuspendAfter)
    <3>1. \A a \in unpaid[s.cust] : a \in Nat /\ ~(a > 0)
      BY <1>0, <1>1, <2>3, SubscriptionsAssumption DEF Overdue, TablesOK
    <3> QED
      BY <3>1, SubscriptionsAssumption DEF Overdue
  <2> HIDE DEF n
  <2>5. ListingHolds(n)' /\ CustomerHolds(n)' /\ RequestHolds(n)'
    BY <1>0, <1>1, <1>2, <2>1, <2>2
       DEF ListingHolds, CustomerHolds, RequestHolds, ProcStates, TablesOK
  <2>6. faults' = 0 => PassHolds(n)'
    <3> SUFFICES ASSUME faults' = 0 PROVE PassHolds(n)'
      OBVIOUS
    <3>1. \A c \in Customers : crm'[c] = IF c = s.cust THEN "active" ELSE crm[c]
      BY <1>0, <1>1, <2>2 DEF TablesOK
    <3>2. \A c \in Customers : \A d : Overdue(c, d)' <=> Overdue(c, d)
      BY <1>4 DEF Overdue
    <3>3. PassHolds(s) /\ n.pass = "restore" /\ n.todo = s.todo
      BY <1>1, <1>2, <1>4, <2>1
    <3> QED
      BY <1>1, <2>4, <3>1, <3>2, <3>3 DEF PassHolds
  <2>7. Smooth' => Matches(n)'
    BY <1>0, <1>1, <1>3, <1>4, <2>1, <2>2, <2>3 DEF Matches, Done, Ended, Smooth, paperwork, TablesOK
  <2> QED
    BY <1>1, <1>4, <1>5, <2>1, <2>5, <2>6, <2>7, AloneGoesOn DEF RestoreCRM, Knows, Holds
<1>6. CASE RestoreRadius(p)
  <2>1. /\ radius' = [radius EXCEPT ![s.cust] = "online"] /\ UNCHANGED <<crm, suspendedFor>>
        /\ GoOn(p, "next")
    BY <1>6 DEF RestoreRadius, SetRadius
  <2>2. crm[s.cust] = "active" /\ s.pc = "restoreRadius"
    BY <1>2, <1>6 DEF RestoreRadius, At, CustomerHolds
  <2>3. Knows(Skipped(s, s.cust))
    BY <1>1, <1>2, <2>2, SkippedKnows DEF Through
  <2>4. Knows(Skipped(s, s.cust))'
    BY <1>4, <2>1, <2>3, SkippedStillKnows DEF paperwork
  <2>5. Smooth' => Matches(Skipped(s, s.cust))'
    BY <1>0, <1>1, <1>3, <1>4, <2>1, <2>2, SkippedIsNowhere
       DEF Matches, Done, Ended, Smooth, paperwork, TablesOK
  <2> QED
    BY <1>1, <1>4, <2>1, <2>4, <2>5, AloneGoesOn DEF GoneOn
<1> QED
  BY <1>5, <1>6

-----------------------------------------------------------------------------
(* Requests, one process at a time *)

\* A process that leaves its customer when requests have been written.
LEMMA SkippedKnowsNext ==
    ASSUME NEW s \in ProcStates, NEW c \in Customers, ListingHolds(s), s.cust \in {None, c},
           UNCHANGED <<crm, suspendedFor, unpaid>>, faults' = 0 => faults = 0 /\ PassHolds(s),
           s.pass \in {"terminate", "desk"}, Unused' \subseteq Unused,
           \A d \in Customers : Open(d) => Open(d)',
           s.pass = "terminate" => Open(c)'
    PROVE  Knows(Skipped(s, c))'
<1> DEFINE n == Skipped(s, c)
<1>1. n = Idle \/ /\ n.pc = "scan" /\ n.pass = "terminate" /\ n.cust = None
                  /\ n.todo = s.todo \ {c} /\ s.pass = "terminate"
  BY DEF Skipped, Idle
<1>2. CASE n = Idle
  BY <1>2 DEF Knows
<1>3. CASE n # Idle
  <2> HIDE DEF n
  <2>1. ListingHolds(n)' /\ CustomerHolds(n)' /\ RequestHolds(n)'
    BY <1>1, <1>3 DEF ListingHolds, CustomerHolds, RequestHolds
  <2>2. faults' = 0 => PassHolds(n)'
    <3> SUFFICES ASSUME faults' = 0 PROVE PassHolds(n)'
      OBVIOUS
    <3>1. \A d \in Customers : /\ LongSuspended(d)' <=> LongSuspended(d)
                               /\ \A days : Overdue(d, days)' <=> Overdue(d, days)
      BY DEF LongSuspended, Overdue
    <3> QED
      BY <1>1, <1>3, <3>1 DEF PassHolds
  <2> QED
    BY <2>1, <2>2 DEF Knows, Holds, n
<1> QED
  BY <1>2, <1>3

\* The tick asks for a termination.
LEMMA TickAsks ==
    ASSUME TypeInv, SerialInv, NEW p \in Procs, AloneAt(p), NEW c, ScanTerminate(p, c)
    PROVE  SerialInv'
<1>0. TablesOK /\ ProcsOK
  BY TwoHalves
<1> PICK s \in ProcStates : s = procs[p] /\ Shape(s)
  BY <1>0 DEF ProcsOK
<1>1. /\ s.pc = "scan" /\ s.pass = "terminate" /\ c \in s.todo /\ c \in Customers /\ s # Idle
      /\ s.cust = None /\ s.cust \notin Customers
  BY SubscriptionsAssumption DEF ScanTerminate, Scanning, At, ProcStates, Shape, Idle
<1>2. Holds(s)
  BY <1>1 DEF SerialInv
<1>3. UNCHANGED <<crm, suspendedFor, radius, unpaid, paperwork, faults, crashes>>
  BY DEF ScanTerminate, service
<1>4. CASE ~Open(c)
  <2> DEFINE row == NewRequest(c, "auto", "wo_pending")
             n == [s EXCEPT !.pc = "create", !.cust = c, !.row = row]
  <2>1. row \in Rows
    BY <1>1 DEF NewRequest, Rows, RequestStatuses, Kinds
  <2>2. Become(p, n)
    BY <1>4 DEF ScanTerminate
  <2> HIDE DEF row
  <2>3. /\ n \in ProcStates /\ n.pc = "create" /\ n.pass = "terminate" /\ n.cust = c
        /\ n.todo = s.todo
    BY <1>1, <2>1, AllPcs DEF ProcStates
  <2> HIDE DEF n
  <2>4. ListingHolds(n) /\ CustomerHolds(n) /\ RequestHolds(n)
    BY <1>4, <2>3 DEF ListingHolds, CustomerHolds, RequestHolds
  <2>5. faults = 0 => PassHolds(n)
    BY <1>1, <1>2, <2>3 DEF PassHolds, Holds
  <2>6. Knows(n)
    BY <2>4, <2>5 DEF Knows, Holds
  <2> QED
    BY <1>1, <1>3, <2>2, <2>3, <2>6, AloneTurns
<1>5. CASE Open(c)
  <2>1. Knows(Skipped(s, c))
    BY <1>1, <1>2, <1>5, SkippedKnows DEF Holds, Through
  <2>2. Skipped(s, c) \in ProcStates
    BY <1>1, SkippedOK
  <2>3. Become(p, Skipped(s, c))
    BY <1>5 DEF ScanTerminate, Skip, Skipped
  <2> QED
    BY <1>1, <1>3, <2>1, <2>2, <2>3, AloneTurns
<1> QED
  BY <1>4, <1>5

\* The INSERT of a request.
LEMMA SerialCreate ==
    ASSUME TypeInv, SerialInv, NEW p \in Procs, AloneAt(p), CreateRequest(p)
    PROVE  SerialInv'
<1>0. TablesOK /\ ProcsOK
  BY TwoHalves
<1> PICK s \in ProcStates : s = procs[p] /\ Shape(s)
  BY <1>0 DEF ProcsOK
<1>1. /\ s.pc = "create" /\ s.pass \in {"terminate", "desk"} /\ s.cust \in Customers /\ s # Idle
      /\ s.row \in Rows /\ s.row.cust = s.cust /\ s.row.status \in {"awaiting_payment", "wo_pending"}
  BY DEF CreateRequest, At, Shape, PassAt, Idle, ProcStates
<1>2. /\ Holds(s) /\ ListingHolds(s) /\ (faults = 0 => PassHolds(s))
      /\ (faults = 0 => ~Open(s.cust))
  BY <1>1 DEF SerialInv, Holds, RequestHolds
<1>3. Smooth => Matches(s)
  BY MatchesAlone DEF SerialInv
<1>4. UNCHANGED <<crm, suspendedFor, radius, unpaid, wos, faults, crashes>>
  BY DEF CreateRequest, service
<1> DEFINE first == CHOOSE u \in Unused : TRUE
<1>5. CASE Unused # {} /\ Unique(first, s.row)
  <2> PICK t \in RequestIds : t = first /\ t \in Unused
    BY <1>5 DEF Unused
  <2>1. requests[t].status = "absent"
    BY DEF Unused
  <2>2. requests' = [requests EXCEPT ![t] = s.row]
    BY <1>5 DEF CreateRequest
  <2>3. IF s.row.status = "wo_pending" THEN Become(p, [s EXCEPT !.pc = "mint", !.req = t])
                                       ELSE GoOn(p, "next")
    BY <1>5 DEF CreateRequest
  <2> HIDE DEF first
  <2>4. \A u \in RequestIds : requests'[u] = IF u = t THEN s.row ELSE requests[u]
    BY <1>0, <2>1, <2>2 DEF TablesOK
  <2>5. requests[t].cust \notin Customers
    BY <1>0, <2>1, SubscriptionsAssumption DEF TablesOK
  <2>6. Unused' \subseteq Unused /\ (\A d \in Customers : Open(d) => Open(d)') /\ Open(s.cust)'
    BY <1>1, <2>1, <2>4, <2>5 DEF Unused, Open, Closed
  <2>7. OneOpenRequest'
    <3> SUFFICES ASSUME faults' = 0, NEW u \in RequestIds, NEW v \in RequestIds,
                        requests'[u].cust # None, requests'[u].cust = requests'[v].cust,
                        {requests'[u].status, requests'[v].status} \cap Closed = {}
                 PROVE  u = v
      BY DEF OneOpenRequest
    <3>1. \A w \in RequestIds \ {t} : requests[w].cust = s.cust => requests[w].status \in Closed
      BY <1>2, <1>4 DEF Open
    <3>2. CASE u # t /\ v # t
      BY <1>4, <2>4, <3>2 DEF SerialInv, OneOpenRequest
    <3>3. CASE u = t /\ v # t
      BY <1>1, <2>4, <3>1, <3>3
    <3>4. CASE u # t /\ v = t
      BY <1>1, <2>4, <3>1, <3>4
    <3> QED
      BY <3>2, <3>3, <3>4
  <2>8. \A c \in Customers : \A u \in RequestIds :
            (Done(u, c)' <=> Done(u, c)) /\ (Ended(u, c)' <=> Ended(u, c))
    BY <1>1, <1>4, <2>1, <2>4, <2>5 DEF Done, Ended
  <2>9. CASE s.row.status = "wo_pending"
    <3> DEFINE n == [s EXCEPT !.pc = "mint", !.req = t]
    <3>1. /\ n \in ProcStates /\ n.pc = "mint" /\ n.pass = s.pass /\ n.cust = s.cust
          /\ n.req = t /\ n.row = s.row /\ n.todo = s.todo
      BY <2>1, AllPcs DEF ProcStates
    <3>2. Become(p, n)
      BY <2>3, <2>9
    <3> HIDE DEF n
    <3>3. ListingHolds(n)' /\ CustomerHolds(n)' /\ RequestHolds(n)'
      <4>1. requests'[n.req] = n.row /\ n.pc = "mint" /\ n.pass \in {"terminate", "desk"}
        BY <1>1, <2>1, <2>4, <3>1
      <4> QED
        BY <4>1 DEF ListingHolds, CustomerHolds, RequestHolds
    <3>4. faults' = 0 => PassHolds(n)'
      <4> SUFFICES ASSUME faults' = 0 PROVE PassHolds(n)'
        OBVIOUS
      <4>1. \A d \in Customers : /\ LongSuspended(d)' <=> LongSuspended(d)
                                 /\ \A days : Overdue(d, days)' <=> Overdue(d, days)
        BY <1>4 DEF LongSuspended, Overdue
      <4>2. Unused' # {} => Unused # {}
        BY <2>6
      <4>3. PassHolds(s) /\ n.pass = s.pass /\ n.todo = s.todo /\ crm' = crm
        BY <1>2, <1>4, <3>1
      <4> QED
        BY <1>1, <2>6, <4>1, <4>2, <4>3 DEF PassHolds
    <3>5. Smooth' => Matches(n)'
      BY <1>1, <1>3, <1>4, <2>8, <3>1 DEF Matches, Smooth
    <3>6. Knows(n)'
      BY <3>3, <3>4 DEF Knows, Holds
    <3> QED
      BY <2>7, <3>1, <3>2, <3>5, <3>6, AloneSteps
  <2>10. CASE s.row.status # "wo_pending"
    <3>1. Knows(Skipped(s, s.cust))'
      BY <1>1, <1>2, <1>4, <2>6, SkippedKnowsNext
    <3>2. Smooth' => Matches(Skipped(s, s.cust))'
      BY <1>1, <1>3, <1>4, <2>8, SkippedIsNowhere DEF Matches, Smooth
    <3> QED
      BY <1>1, <2>3, <2>7, <2>10, <3>1, <3>2, AloneGoesOn DEF GoneOn
  <2> QED
    BY <2>9, <2>10
<1>6. CASE ~(Unused # {} /\ Unique(first, s.row))
  <2>1. GoOn(p, "next") /\ UNCHANGED requests
    BY <1>6 DEF CreateRequest
  <2>2. Unused = {} \/ Open(s.cust)
    BY <1>1, <1>6 DEF Unique, Open, Closed
  <2>3. Knows(Skipped(s, s.cust))
    BY <1>1, <1>2, <2>2, SkippedKnows DEF Through
  <2>4. Skipped(s, s.cust) \in ProcStates
    BY <1>1, SkippedOK
  <2>5. Become(p, Skipped(s, s.cust))
    BY <2>1 DEF GoOn, Skip, Skipped
  <2> QED
    BY <1>1, <1>4, <2>1, <2>3, <2>4, <2>5, AloneTurns DEF paperwork
<1> QED
  BY <1>5, <1>6

\* The work order of a request.
LEMMA SerialMint ==
    ASSUME TypeInv, SerialInv, NEW p \in Procs, AloneAt(p), MintWO(p)
    PROVE  SerialInv'
<1>0. TablesOK /\ ProcsOK
  BY TwoHalves
<1> PICK s \in ProcStates : s = procs[p] /\ Shape(s)
  BY <1>0 DEF ProcsOK
<1>1. /\ s.pc = "mint" /\ s.pass \in {"terminate", "desk"} /\ s.cust \in Customers /\ s # Idle
      /\ s.req \in RequestIds /\ s.row \in Rows /\ s.row.cust = s.cust /\ s.row.status = "wo_pending"
  BY DEF MintWO, At, Shape, Holding, PassAt, Idle, ProcStates
<1>2. ListingHolds(s) /\ (faults = 0 => PassHolds(s)) /\ requests[s.req] = s.row
  BY <1>1 DEF SerialInv, Holds, RequestHolds
<1>3. Smooth => Matches(s)
  BY MatchesAlone DEF SerialInv
<1>4. /\ UNCHANGED <<crm, suspendedFor, radius, unpaid, requests, faults, crashes>>
      /\ wos' = [wos EXCEPT ![s.req] = "open"] /\ OneOpenRequest'
  BY DEF MintWO, service, SerialInv, OneOpenRequest
<1>5. \A c \in Customers : \A u \in RequestIds :
            (Done(u, c)' <=> Done(u, c)) /\ (Ended(u, c)' <=> Ended(u, c))
  BY <1>0, <1>1, <1>2, <1>4 DEF Done, Ended, TablesOK
<1> DEFINE row == [s.row EXCEPT !.status = "wo_created", !.wo = TRUE]
           n == [s EXCEPT !.pc = "update", !.row.status = "wo_created", !.row.wo = TRUE]
<1>6. row \in Rows /\ row.cust = s.cust /\ row.status = "wo_created"
  BY <1>1 DEF Rows, RequestStatuses
<1>7. /\ n.pc = "update" /\ n.pass = s.pass /\ n.cust = s.cust /\ n.req = s.req
      /\ n.row = row /\ n.todo = s.todo
  BY <1>1 DEF ProcStates
<1>8. n \in ProcStates
  BY <1>1, <1>6, AllPcs DEF ProcStates
<1>9. Become(p, n)
  BY DEF MintWO
<1> HIDE DEF n, row
<1>10. ListingHolds(n)' /\ CustomerHolds(n)' /\ RequestHolds(n)'
  BY <1>1, <1>2, <1>4, <1>6, <1>7 DEF ListingHolds, CustomerHolds, RequestHolds, Closed
<1>11. faults' = 0 => PassHolds(n)'
  <2> SUFFICES ASSUME faults' = 0 PROVE PassHolds(n)'
    OBVIOUS
  <2>1. /\ Unused' = Unused
        /\ \A d \in Customers : /\ LongSuspended(d)' <=> LongSuspended(d)
                                /\ Open(d)' <=> Open(d)
                                /\ \A days : Overdue(d, days)' <=> Overdue(d, days)
    BY <1>4 DEF LongSuspended, Overdue, Open, Unused
  <2> QED
    BY <1>1, <1>2, <1>4, <1>7, <2>1 DEF PassHolds
<1>12. Smooth' => Matches(n)'
  BY <1>1, <1>3, <1>4, <1>5, <1>7 DEF Matches, Smooth
<1> QED
  BY <1>4, <1>8, <1>9, <1>10, <1>11, <1>12, AloneSteps DEF Knows, Holds

\* The UPDATE of a request.
LEMMA SerialUpdate ==
    ASSUME TypeInv, SerialInv, NEW p \in Procs, AloneAt(p), UpdateRequest(p)
    PROVE  SerialInv'
<1>0. TablesOK /\ ProcsOK
  BY TwoHalves
<1> PICK s \in ProcStates : s = procs[p] /\ Shape(s)
  BY <1>0 DEF ProcsOK
<1> DEFINE t == s.req
           row == s.row
<1>1. /\ s.pc = "update" /\ s.pass \in {"terminate", "desk"} /\ s.cust \in Customers /\ s # Idle
      /\ t \in RequestIds /\ row.cust = s.cust
      /\ row.status \in {"wo_created"} \cup Closed
      /\ (s.pass # "desk" => row.status = "wo_created")
  BY DEF UpdateRequest, At, Shape, Holding, PassAt, Idle
<1>2. /\ ListingHolds(s) /\ (faults = 0 => PassHolds(s))
      /\ requests[t].cust = s.cust /\ requests[t].status \notin {"absent"} \cup Closed
      /\ (row.status = "completed" => wos[t] = "approved")
  BY <1>1 DEF SerialInv, Holds, RequestHolds
<1>3. Smooth => Matches(s)
  BY MatchesAlone DEF SerialInv
<1>4. UNCHANGED <<crm, suspendedFor, radius, unpaid, wos, faults, crashes>>
  BY DEF UpdateRequest, service
<1> HIDE DEF t, row
<1>5. CASE Unique(t, row)
  <2>1. requests' = [requests EXCEPT ![t] = row]
    BY <1>5 DEF UpdateRequest, t, row
  <2>2. GoOn(p, IF row.status = "completed" THEN "terminateCRM" ELSE "next")
    BY <1>5 DEF UpdateRequest, t, row
  <2>3. \A u \in RequestIds : requests'[u] = IF u = t THEN row ELSE requests[u]
    BY <1>0, <1>1, <2>1 DEF TablesOK
  <2>4. /\ Unused' \subseteq Unused
        /\ s.pass = "terminate" => (\A d \in Customers : Open(d) => Open(d)') /\ Open(s.cust)'
    BY <1>1, <1>2, <2>3 DEF Unused, Open, Closed
  <2>5. OneOpenRequest'
    BY <1>1, <1>2, <1>4, <2>3 DEF SerialInv, OneOpenRequest, Closed
  <2>6. CASE row.status # "completed"
    <3>1. \A c \in Customers : \A u \in RequestIds :
            (Done(u, c)' <=> Done(u, c)) /\ (Ended(u, c)' <=> Ended(u, c))
      BY <1>2, <1>4, <2>3, <2>6 DEF Done, Ended, Closed
    <3>2. Knows(Skipped(s, s.cust))'
      <4>1. CASE s.pass = "desk"
        BY <4>1 DEF Skipped, Knows
      <4>2. CASE s.pass = "terminate"
        BY <1>1, <1>2, <1>4, <2>4, <4>2, SkippedKnowsNext
      <4> QED
        BY <1>1, <4>1, <4>2
    <3>3. Smooth' => Matches(Skipped(s, s.cust))'
      BY <1>1, <1>3, <1>4, <3>1, SkippedIsNowhere DEF Matches, Smooth
    <3> QED
      BY <1>1, <2>2, <2>5, <2>6, <3>2, <3>3, AloneGoesOn DEF GoneOn
  <2>7. CASE row.status = "completed"
    <3> DEFINE n == [s EXCEPT !.pc = "terminateCRM"]
    <3>1. /\ n.pc = "terminateCRM" /\ n.pass = s.pass /\ n.cust = s.cust /\ n.todo = s.todo
          /\ n = GoneOn(s, "terminateCRM") /\ "terminateCRM" \in Pcs
      BY AllPcs DEF ProcStates, GoneOn
    <3>2. s.pass = "desk" /\ Done(t, s.cust)'
      BY <1>1, <1>2, <1>4, <2>3, <2>7 DEF Done, Ended
    <3>3. \A c \in Customers : \A u \in RequestIds \ {t} :
            (Done(u, c)' <=> Done(u, c)) /\ (Ended(u, c)' <=> Ended(u, c))
      BY <1>4, <2>3 DEF Done, Ended
    <3>4. \A c \in Customers : ~Done(t, c) /\ ~Ended(t, c) /\ (Ended(t, c)' => c = s.cust)
      BY <1>1, <1>2, <2>3 DEF Done, Ended, Closed
    <3> HIDE DEF n
    <3>5. Knows(n)'
      BY <1>1, <3>1, <3>2
         DEF Knows, Holds, ListingHolds, CustomerHolds, RequestHolds, PassHolds
    <3>6. Smooth' => Matches(n)'
      <4> SUFFICES ASSUME Smooth', NEW c \in Customers
                   PROVE  /\ crm'[c] = "terminated" => \E u \in RequestIds : Done(u, c)'
                          /\ (\E u \in RequestIds : Ended(u, c)') =>
                                crm'[c] = "terminated" \/ c = s.cust
                          /\ crm'[c] = "active" => radius'[c] = "online"
                          /\ crm'[c] = "terminated" => radius'[c] = "deactivated"
        BY <3>1 DEF Matches
      <4> QED
        BY <1>1, <1>3, <1>4, <3>3, <3>4 DEF Matches, Smooth
    <3> QED
      BY <1>1, <2>2, <2>5, <2>7, <3>1, <3>5, <3>6, AloneGoesOn
  <2> QED
    BY <2>6, <2>7
<1>6. CASE ~Unique(t, row)
  <2>1. GoOn(p, "next") /\ UNCHANGED requests
    BY <1>6 DEF UpdateRequest, t, row
  <2>2. Open(s.cust)
    BY <1>1, <1>2 DEF Open
  <2>3. Knows(Skipped(s, s.cust))
    BY <1>1, <1>2, <2>2, SkippedKnows DEF Through
  <2>4. Skipped(s, s.cust) \in ProcStates
    BY <1>1, SkippedOK
  <2>5. Become(p, Skipped(s, s.cust))
    BY <2>1 DEF GoOn, Skip, Skipped
  <2> QED
    BY <1>1, <1>4, <2>1, <2>3, <2>4, <2>5, AloneTurns DEF paperwork
<1> QED
  BY <1>5, <1>6

-----------------------------------------------------------------------------
(* Desks, one process at a time *)

DeskPcs == {"summary", "outstanding", "invoice", "create", "mint", "update", "approve", "hook",
            "terminateCRM", "deactivate"}

\* A desk has no listing.
LEMMA DeskKnows ==
    ASSUME NEW s, s.pass = "desk", s.pc \in DeskPcs, RequestHolds(s)
    PROVE  Knows(s)
BY DEF Knows, Holds, ListingHolds, CustomerHolds, PassHolds, DeskPcs

LEMMA DeskBegins ==
    ASSUME TypeInv, SerialInv, NEW p \in Procs, AloneAt(p), NEW pc \in {"summary", "update", "approve"},
           NEW c \in Customers, NEW t \in RequestIds \cup {None}, NEW row \in Rows,
           Begin(p, pc, c, t, row),
           pc = "summary" => (faults = 0 => ~Open(c)),
           pc # "summary" => requests[t].cust = c,
           pc = "update" => /\ row.status = "cancelled"
                            /\ requests[t].status \notin {"absent"} \cup Closed,
           UNCHANGED <<crm, suspendedFor, radius, unpaid, paperwork, faults, crashes>>
    PROVE  SerialInv'
<1> DEFINE n == [Idle EXCEPT !.pc = pc, !.pass = "desk", !.cust = c, !.req = t, !.row = row]
<1>1. /\ n \in ProcStates /\ n.pc = pc /\ n.pass = "desk" /\ n.cust = c /\ n.req = t
      /\ n.row = row
  BY IdleOK, AllPcs DEF ProcStates, Passes, Idle
<1>2. Become(p, n) /\ procs[p] = Idle
  BY DEF Begin, Free
<1>3. Idle \in ProcStates /\ Idle.pc \notin {"terminateCRM", "restoreRadius", "deactivate"}
  BY IdleOK DEF Idle
<1> HIDE DEF n
<1>4. RequestHolds(n)
  BY <1>1 DEF RequestHolds
<1>5. Knows(n)
  BY <1>1, <1>4, DeskKnows DEF DeskPcs
<1> QED
  BY <1>1, <1>2, <1>3, <1>5, AloneTurns

LEMMA SerialRequests ==
    ASSUME TypeInv, SerialInv, NEW p \in Procs, AloneAt(p), Request(p)
    PROVE  SerialInv'
<1>1. TablesOK /\ NoRow \in Rows /\ None \in RequestIds \cup {None}
  BY TwoHalves DEF NoRow, Rows, RequestStatuses, Kinds
<1>2. ASSUME NEW c \in Customers, RequestTermination(p, c) PROVE SerialInv'
  <2>1. UNCHANGED <<crm, suspendedFor, radius, unpaid, paperwork, faults, crashes>>
    BY <1>2 DEF RequestTermination, service
  <2> QED
    BY <1>1, <1>2, <2>1, DeskBegins DEF RequestTermination
<1>3. ASSUME NEW t \in RequestIds, CancelTerminationRequest(p, t) PROVE SerialInv'
  <2> PICK row \in Rows : row = requests[t]
    BY <1>1 DEF TablesOK
  <2>1. UNCHANGED <<crm, suspendedFor, radius, unpaid, paperwork, faults, crashes>>
    BY <1>3 DEF CancelTerminationRequest, service
  <2>2. row.status \notin {"absent"} \cup Closed /\ row.cust \in Customers
    BY <1>1, <1>3 DEF CancelTerminationRequest, MayCancel, TablesOK, Rows
  <2>3. /\ [row EXCEPT !.status = "cancelled"] \in Rows
        /\ [row EXCEPT !.status = "cancelled"].status = "cancelled"
    BY DEF Rows, RequestStatuses, Closed
  <2>4. Begin(p, "update", row.cust, t, [row EXCEPT !.status = "cancelled"])
    BY <1>3 DEF CancelTerminationRequest
  <2> QED
    BY <2>1, <2>2, <2>3, <2>4, DeskBegins
<1>4. ASSUME NEW t \in RequestIds, VerifyBAST(p, t) PROVE SerialInv'
  <2> PICK row \in Rows : row = requests[t]
    BY <1>1 DEF TablesOK
  <2>1. UNCHANGED <<crm, suspendedFor, radius, unpaid, paperwork, faults, crashes>>
    BY <1>4 DEF VerifyBAST, service
  <2>2. row.cust \in Customers
    BY <1>1, <1>4 DEF VerifyBAST, TablesOK, OrdersNameRequests, Rows
  <2>3. Begin(p, "approve", row.cust, t, NoRow)
    BY <1>4 DEF VerifyBAST
  <2> QED
    BY <1>1, <2>1, <2>2, <2>3, DeskBegins
<1> QED
  BY <1>2, <1>3, <1>4 DEF Request

\* A request up to its INSERT.
LEMMA SerialAsks ==
    ASSUME TypeInv, SerialInv, NEW p \in Procs, AloneAt(p),
           Summary(p) \/ Outstanding(p) \/ FinalInvoice(p)
    PROVE  SerialInv'
<1>0. TablesOK /\ ProcsOK
  BY TwoHalves
<1> PICK s \in ProcStates : s = procs[p] /\ Shape(s)
  BY <1>0 DEF ProcsOK
<1>1. s.pc \in {"summary", "outstanding", "invoice"} /\ s # Idle
  <2>1. s.pc \in {"summary", "outstanding", "invoice"}
    BY DEF Summary, Outstanding, FinalInvoice, At
  <2> QED
    BY <2>1 DEF Idle
<1>2. s.pass = "desk" /\ s.cust \in Customers
  BY <1>1 DEF Shape, PassAt
<1>3. faults = 0 => ~Open(s.cust)
  BY <1>1 DEF SerialInv, Holds, RequestHolds
<1>4. UNCHANGED <<crm, suspendedFor, radius, paperwork, faults, crashes>>
  BY DEF Summary, Outstanding, FinalInvoice, service
<1>5. ASSUME NEW n \in ProcStates, n.pass = "desk", n.pc \in {"outstanding", "invoice", "create"},
             n.cust = s.cust, Become(p, n), UNCHANGED unpaid
      PROVE  SerialInv'
  <2>1. RequestHolds(n)
    BY <1>3, <1>5 DEF RequestHolds
  <2>2. Knows(n)
    BY <1>5, <2>1, DeskKnows DEF DeskPcs
  <2> QED
    BY <1>1, <1>4, <1>5, <2>2, AloneTurns
<1>6. CASE Summary(p)
  <2>1. GoOn(p, IF crm[s.cust] = "terminated" THEN "next" ELSE "outstanding") /\ UNCHANGED unpaid
    BY <1>6 DEF Summary
  <2>2. CASE crm[s.cust] = "terminated"
    <3>1. Become(p, Idle)
      BY <1>2, <2>1, <2>2 DEF GoOn, Skip
    <3> QED
      BY <1>1, <1>4, <2>1, <3>1, IdleOK, AloneTurns DEF Knows
  <2>3. CASE crm[s.cust] # "terminated"
    <3> DEFINE n == [s EXCEPT !.pc = "outstanding"]
    <3>1. n \in ProcStates /\ n.pass = "desk" /\ n.pc = "outstanding" /\ n.cust = s.cust
      BY <1>2, AllPcs DEF ProcStates
    <3>2. Become(p, n)
      BY <2>1, <2>3 DEF GoOn
    <3> HIDE DEF n
    <3> QED
      BY <1>5, <2>1, <3>1, <3>2
  <2> QED
    BY <2>2, <2>3
<1>7. CASE Outstanding(p)
  <2>1. PICK pc \in {"invoice", "create"}, status \in {"awaiting_payment", "wo_pending"} :
            Become(p, [s EXCEPT !.pc = pc, !.row = NewRequest(s.cust, "voluntary", status)])
    BY <1>7 DEF Outstanding
  <2> DEFINE row == NewRequest(s.cust, "voluntary", status)
             n == [s EXCEPT !.pc = pc, !.row = row]
  <2>2. row \in Rows
    BY <1>2 DEF NewRequest, Rows, RequestStatuses, Kinds
  <2>3. Become(p, n) /\ UNCHANGED unpaid
    BY <1>7, <2>1 DEF Outstanding
  <2> HIDE DEF row
  <2>4. n \in ProcStates /\ n.pass = "desk" /\ n.pc = pc /\ n.cust = s.cust
    BY <1>2, <2>2, AllPcs DEF ProcStates
  <2> HIDE DEF n
  <2> QED
    BY <1>5, <2>3, <2>4
<1>8. CASE FinalInvoice(p)
  <2> DEFINE n == [s EXCEPT !.pc = "create"]
  <2>1. /\ n.pass = "desk" /\ n.pc = "create" /\ n.cust = s.cust
        /\ n = GoneOn(s, "create") /\ "create" \in Pcs
    BY <1>2, AllPcs DEF ProcStates, GoneOn
  <2> HIDE DEF n
  <2>2. RequestHolds(n)'
    BY <1>3, <1>4, <2>1 DEF RequestHolds, Open, paperwork
  <2>3. Knows(n)'
    BY <2>1, <2>2 DEF Knows, Holds, ListingHolds, CustomerHolds, PassHolds
  <2>4. OneOpenRequest'
    BY <1>4 DEF SerialInv, OneOpenRequest, paperwork
  <2>5. Smooth' => Matches(n)'
    <3>1. Smooth => Matches(s)
      BY MatchesAlone DEF SerialInv
    <3> QED
      BY <1>1, <1>4, <3>1 DEF Matches, Done, Ended, Smooth, paperwork
  <2> QED
    BY <1>1, <1>8, <2>1, <2>3, <2>4, <2>5, AloneGoesOn DEF FinalInvoice
<1> QED
  BY <1>6, <1>7, <1>8

\* The approval of a work order, the completion of its request, the end of the
\* customer's service.
LEMMA SerialApproval ==
    ASSUME TypeInv, SerialInv, NEW p \in Procs, AloneAt(p),
           \/ ApproveWO(p) \/ CompleteTerminationByWO(p) \/ TerminateCRM(p) \/ Deactivate(p)
    PROVE  SerialInv'
<1>0. TablesOK /\ ProcsOK
  BY TwoHalves
<1> PICK s \in ProcStates : s = procs[p] /\ Shape(s)
  BY <1>0 DEF ProcsOK
<1>1. s.pc \in {"approve", "hook", "terminateCRM", "deactivate"} /\ s # Idle
  BY DEF ApproveWO, CompleteTerminationByWO, TerminateCRM, Deactivate, At, Idle
<1>2. /\ s.pass = "desk" /\ s.cust \in Customers
      /\ s.pc \in {"approve", "hook"} => s.req \in RequestIds
  BY <1>1 DEF Shape, PassAt, Holding
<1>3. RequestHolds(s)
  BY <1>1 DEF SerialInv, Holds
<1>4. Smooth => Matches(s)
  BY MatchesAlone DEF SerialInv
<1>5. UNCHANGED <<unpaid, requests, faults, crashes>> /\ OneOpenRequest'
  BY DEF ApproveWO, CompleteTerminationByWO, TerminateCRM, Deactivate, paperwork, SerialInv,
         OneOpenRequest
<1>6. CASE ApproveWO(p)
  <2> DEFINE n == [s EXCEPT !.pc = "hook"]
  <2>1. /\ n.pass = "desk" /\ n.pc = "hook" /\ n.cust = s.cust /\ n.req = s.req
        /\ n = GoneOn(s, "hook") /\ "hook" \in Pcs /\ s.pc = "approve"
    BY <1>2, <1>6, AllPcs DEF ProcStates, GoneOn, ApproveWO, At
  <2>2. wos' = [wos EXCEPT ![s.req] = "approved"] /\ UNCHANGED <<crm, suspendedFor, radius>>
    BY <1>6 DEF ApproveWO, service
  <2>3. \A t \in RequestIds : wos'[t] = IF t = s.req THEN "approved" ELSE wos[t]
    BY <1>0, <2>2 DEF TablesOK
  <2> HIDE DEF n
  <2>4. RequestHolds(n)'
    BY <1>2, <1>3, <1>5, <2>1, <2>3 DEF RequestHolds
  <2>5. Knows(n)'
    BY <2>1, <2>4 DEF Knows, Holds, ListingHolds, CustomerHolds, PassHolds
  <2>6. Smooth' => Matches(n)'
    <3>1. \A t \in RequestIds : \A c \in Customers :
              (Ended(t, c)' <=> Ended(t, c)) /\ (Done(t, c) => Done(t, c)')
      BY <1>5, <2>3 DEF Done, Ended
    <3> QED
      BY <1>4, <1>5, <2>1, <2>2, <3>1 DEF Matches, Smooth
  <2> QED
    BY <1>1, <1>5, <1>6, <2>1, <2>5, <2>6, AloneGoesOn DEF ApproveWO
<1>7. CASE CompleteTerminationByWO(p)
  <2>1. UNCHANGED <<crm, suspendedFor, radius, unpaid, paperwork, faults, crashes>>
    BY <1>7 DEF CompleteTerminationByWO, service
  <2>2. s.pc = "hook" /\ s.req \in RequestIds
    BY <1>2, <1>7 DEF CompleteTerminationByWO, At
  <2> PICK row \in Rows : row = requests[s.req]
    BY <1>0, <2>2 DEF TablesOK
  <2>3. CASE MayComplete(row)
    <3> DEFINE done == [row EXCEPT !.status = "completed"]
               n == [s EXCEPT !.pc = "update", !.row = done]
    <3>1. done \in Rows
      BY DEF Rows, RequestStatuses, Closed
    <3>2. Become(p, n)
      BY <1>7, <2>3 DEF CompleteTerminationByWO
    <3> HIDE DEF done
    <3>3. n \in ProcStates /\ n.pass = "desk" /\ n.pc = "update" /\ n.cust = s.cust /\ n.req = s.req
      BY <1>2, <3>1, AllPcs DEF ProcStates
    <3> HIDE DEF n
    <3>4. requests[s.req].status \notin {"absent"} \cup Closed
      BY <2>2, <2>3, TwoHalves DEF MayComplete, HandsNameRequests, Holding
    <3>5. RequestHolds(n)
      BY <1>3, <2>2, <3>3, <3>4 DEF RequestHolds
    <3>6. Knows(n)
      BY <3>3, <3>5, DeskKnows DEF DeskPcs
    <3> QED
      BY <2>1, <2>2, <3>2, <3>3, <3>6, AloneTurns
  <2>4. CASE ~MayComplete(row)
    <3>1. Become(p, Idle)
      BY <1>7, <2>4 DEF CompleteTerminationByWO
    <3> QED
      BY <2>1, <2>2, <3>1, IdleOK, AloneTurns DEF Knows
  <2> QED
    BY <2>3, <2>4
<1>8. CASE TerminateCRM(p)
  <2> DEFINE n == [s EXCEPT !.pc = "deactivate"]
  <2>1. /\ n.pass = "desk" /\ n.pc = "deactivate" /\ n.cust = s.cust
        /\ n = GoneOn(s, "deactivate") /\ "deactivate" \in Pcs /\ s.pc = "terminateCRM"
    BY <1>2, <1>8, AllPcs DEF ProcStates, GoneOn, TerminateCRM, At
  <2>2. crm' = [crm EXCEPT ![s.cust] = "terminated"] /\ UNCHANGED <<radius, wos>>
    BY <1>8 DEF TerminateCRM, SetCustomerStatus, paperwork
  <2>3. \A c \in Customers : crm'[c] = IF c = s.cust THEN "terminated" ELSE crm[c]
    BY <1>0, <2>2 DEF TablesOK
  <2> HIDE DEF n
  <2>4. RequestHolds(n)'
    BY <1>2, <2>1, <2>3 DEF RequestHolds
  <2>5. Knows(n)'
    BY <2>1, <2>4 DEF Knows, Holds, ListingHolds, CustomerHolds, PassHolds
  <2>6. Smooth' => Matches(n)'
    <3>1. \A t \in RequestIds : \A c \in Customers :
              (Ended(t, c)' <=> Ended(t, c)) /\ (Done(t, c)' <=> Done(t, c))
      BY <1>5, <2>2 DEF Done, Ended
    <3>2. \E t \in RequestIds : Done(t, s.cust)
      BY <1>3, <2>1 DEF RequestHolds
    <3> QED
      BY <1>2, <1>4, <1>5, <2>1, <2>2, <2>3, <3>1, <3>2 DEF Matches, Smooth
  <2> QED
    BY <1>1, <1>5, <1>8, <2>1, <2>5, <2>6, AloneGoesOn DEF TerminateCRM
<1>9. CASE Deactivate(p)
  <2>1. /\ radius' = [radius EXCEPT ![s.cust] = "deactivated"] /\ UNCHANGED <<crm, wos>>
        /\ GoOn(p, "next") /\ s.pc = "deactivate"
    BY <1>9 DEF Deactivate, SetRadius, At, paperwork
  <2>2. \A c \in Customers : radius'[c] = IF c = s.cust THEN "deactivated" ELSE radius[c]
    BY <1>0, <2>1 DEF TablesOK
  <2>3. Skipped(s, s.cust) = Idle
    BY <1>2 DEF Skipped
  <2>4. Smooth' => Matches(Skipped(s, s.cust))'
    <3> SUFFICES ASSUME Smooth' PROVE Matches(Skipped(s, s.cust))'
      OBVIOUS
    <3>1. \A t \in RequestIds : \A c \in Customers :
              (Ended(t, c)' <=> Ended(t, c)) /\ (Done(t, c)' <=> Done(t, c))
      BY <1>5, <2>1 DEF Done, Ended
    <3>2. crm[s.cust] = "terminated" /\ Matches(s)
      BY <1>3, <1>4, <1>5, <2>1 DEF RequestHolds, Smooth
    <3> QED
      BY <1>2, <2>1, <2>2, <3>1, <3>2, SkippedIsNowhere DEF Matches
  <2>5. Knows(Skipped(s, s.cust))'
    BY <2>3 DEF Knows
  <2> QED
    BY <1>1, <1>5, <2>1, <2>4, <2>5, AloneGoesOn DEF GoneOn
<1> QED
  BY <1>6, <1>7, <1>8, <1>9

-----------------------------------------------------------------------------
(* The loops of the orchestration service, one process at a time *)

\* Their listings.
LEMMA SerialListings ==
    ASSUME TypeInv, SerialInv, NEW p \in Procs, AloneAt(p), StartSuspension(p) \/ StartRestore(p)
    PROVE  SerialInv'
<1>0. TablesOK
  BY TwoHalves
<1>1. /\ UNCHANGED <<crm, suspendedFor, radius, unpaid, paperwork, faults, crashes>>
      /\ procs[p] = Idle
  BY DEF StartSuspension, StartRestore, Free, service
<1>2. Idle \in ProcStates /\ Idle.pc \notin {"terminateCRM", "restoreRadius", "deactivate"}
  BY IdleOK DEF Idle
<1>3. CASE StartSuspension(p)
  <2> DEFINE seen == [d \in Customers |-> Oldest(d)]
             todo == {d \in Customers : Candidate(d)}
             n == [Idle EXCEPT !.pc = "scan", !.pass = "escalate", !.todo = todo, !.seen = seen]
  <2>1. Become(p, n)
    BY <1>3 DEF StartSuspension
  <2>2. seen \in [Customers -> 0..MaxAge] /\ todo \in SUBSET Customers
    BY <1>0, OldestAge
  <2>3. \A d \in todo : crm[d] # "terminated"
    BY DEF Candidate
  <2>4. \A d \in Customers : seen[d] > SoftGrace => Overdue(d, SoftGrace)
    <3> TAKE d \in Customers
    <3>1. seen[d] = Oldest(d)
      OBVIOUS
    <3> HIDE DEF seen
    <3>2. Oldest(d) \in 0..MaxAge /\ (Oldest(d) > 0 => Oldest(d) \in unpaid[d])
      BY <1>0, OldestAge
    <3> PICK a \in 0..MaxAge : a = Oldest(d)
      BY <3>2
    <3>3. a > SoftGrace => a > 0
      BY SubscriptionsAssumption
    <3> QED
      BY <3>1, <3>2, <3>3 DEF Overdue
  <2> HIDE DEF seen, todo
  <2>5. /\ n \in ProcStates /\ n.pc = "scan" /\ n.pass = "escalate" /\ n.todo = todo
        /\ n.seen = seen /\ n.cust = None
    BY <2>2, IdleOK, AllPcs DEF ProcStates, Passes, Idle
  <2> HIDE DEF n
  <2>6. ListingHolds(n)
    BY <2>3, <2>4, <2>5 DEF ListingHolds
  <2>7. CustomerHolds(n) /\ RequestHolds(n) /\ PassHolds(n)
    BY <2>5 DEF CustomerHolds, RequestHolds, PassHolds
  <2> QED
    BY <1>1, <1>2, <2>1, <2>5, <2>6, <2>7, AloneTurns DEF Knows, Holds
<1>4. CASE StartRestore(p)
  <2> DEFINE todo == {d \in Customers : crm[d] = "suspended" /\ unpaid[d] = {}}
             n == [Idle EXCEPT !.pc = "scan", !.pass = "revive", !.todo = todo]
  <2>1. Become(p, n)
    BY <1>4 DEF StartRestore, List
  <2>2. "revive" \in PassAt.scan /\ todo \in SUBSET Customers
    BY DEF PassAt
  <2>3. \A d \in todo : crm[d] = "suspended"
    OBVIOUS
  <2> HIDE DEF todo
  <2>4. n \in ProcStates /\ n.pc = "scan" /\ n.pass = "revive" /\ n.todo = todo /\ n.cust = None
    BY <2>2, ListedOK DEF Idle
  <2> HIDE DEF n
  <2>5. ListingHolds(n)
    BY <2>3, <2>4 DEF ListingHolds
  <2>6. CustomerHolds(n) /\ RequestHolds(n) /\ PassHolds(n)
    BY <2>4 DEF CustomerHolds, RequestHolds, PassHolds
  <2> QED
    BY <1>1, <1>2, <2>1, <2>4, <2>5, <2>6, AloneTurns DEF Knows, Holds
<1> QED
  BY <1>3, <1>4

\* A stage that suspends is reached past the soft grace.
LEMMA StagesReached ==
    ASSUME NEW age \in Nat, NEW last \in Actions,
           NextAction(last, age) \notin {"none", "warn"}
    PROVE  age > SoftGrace
<1>1. Reached(age) \in {"hard_suspend", "soft_suspend"} => age > SoftGrace
  <2>1. CASE age > HardGrace
    BY <2>1, SubscriptionsAssumption
  <2>2. CASE age <= HardGrace /\ age > SoftGrace
    BY <2>2
  <2>3. CASE age <= HardGrace /\ age <= SoftGrace
    <3>1. ~(age > HardGrace) /\ ~(age > SoftGrace)
      BY <2>3, SubscriptionsAssumption
    <3> QED
      BY <2>3, <3>1 DEF Reached
  <2> QED
    BY <2>1, <2>2, <2>3, SubscriptionsAssumption
<1>2. Reached(age) \in {"none", "warn", "soft_suspend", "hard_suspend"}
  BY SubscriptionsAssumption DEF Reached
<1> QED
  BY <1>1, <1>2 DEF NextAction

\* The look at the ladder, the end of a loop.
LEMMA SerialStages ==
    ASSUME TypeInv, SerialInv, NEW p \in Procs, AloneAt(p), NEW c, Escalate(p, c) \/ FinishLoop(p)
    PROVE  SerialInv'
<1>0. TablesOK /\ ProcsOK
  BY TwoHalves
<1> PICK s \in ProcStates : s = procs[p] /\ Shape(s)
  BY <1>0 DEF ProcsOK
<1>1. /\ UNCHANGED <<crm, suspendedFor, radius, unpaid, paperwork, faults, crashes>>
      /\ s.pc = "scan"
  BY DEF Escalate, FinishLoop, Scanning, Listed, At, service
<1>2. Holds(s) /\ s.cust = None
  BY <1>1 DEF SerialInv, Shape, Idle
<1>3. CASE FinishLoop(p)
  BY <1>1, <1>3, IdleOK, AloneTurns DEF FinishLoop, Knows
<1>4. CASE Escalate(p, c)
  <2>1. s.pass = "escalate" /\ c \in s.todo /\ c \in Customers
    BY <1>4 DEF Escalate, Scanning, ProcStates
  <2>2. ListingHolds(s) /\ crm[c] # "terminated"
    BY <1>2, <2>1 DEF Holds, ListingHolds
  <2> DEFINE act == NextAction(ladder[c], s.seen[c])
             pc == IF act = "warn" THEN "log" ELSE "flip"
             n == [s EXCEPT !.cust = c, !.act = act, !.pc = pc]
  <2>3. act \in Actions
    BY <2>1 DEF NextAction, Reached, Actions
  <2>4. IF act = "none" THEN Skip(p, c) ELSE Become(p, n)
    BY <1>4 DEF Escalate
  <2>5. act \notin {"none", "warn"} => Overdue(c, SoftGrace)
    <3>1. s.seen[c] \in Nat /\ ladder[c] \in Actions
      BY <1>0, <2>1, SubscriptionsAssumption DEF ProcStates, TablesOK
    <3>2. act \notin {"none", "warn"} => s.seen[c] > SoftGrace
      BY <3>1, StagesReached
    <3> QED
      BY <2>1, <2>2, <3>2 DEF ListingHolds
  <2> HIDE DEF act
  <2>6. CASE act = "none"
    <3>1. Knows(Skipped(s, c))
      BY <1>2, <2>1, <2>2, SkippedKnows DEF Holds, Through
    <3>2. Skipped(s, c) \in ProcStates
      BY <1>1, SkippedOK
    <3>3. Become(p, Skipped(s, c))
      BY <2>4, <2>6 DEF Skip, Skipped
    <3> QED
      BY <1>1, <3>1, <3>2, <3>3, AloneTurns
  <2>7. CASE act # "none"
    <3>1. pc \in {"log", "flip"} /\ (pc = "flip" => Overdue(c, SoftGrace))
      BY <2>5, <2>7
    <3> HIDE DEF pc
    <3>2. /\ n \in ProcStates /\ n.pc = pc /\ n.pass = s.pass /\ n.cust = c
          /\ n.todo = s.todo /\ n.seen = s.seen
      BY <2>1, <2>3, <3>1, AllPcs DEF ProcStates
    <3> HIDE DEF n
    <3>3. ListingHolds(n)
      BY <2>1, <2>2, <3>2 DEF ListingHolds
    <3>4. CustomerHolds(n) /\ RequestHolds(n) /\ PassHolds(n)
      BY <2>1, <2>2, <3>1, <3>2 DEF CustomerHolds, RequestHolds, PassHolds
    <3> QED
      BY <1>1, <2>4, <2>7, <3>2, <3>3, <3>4, AloneTurns DEF Knows, Holds
  <2> QED
    BY <2>6, <2>7
<1> QED
  BY <1>3, <1>4

\* The suspension loop suspends a customer.
LEMMA SerialFlip ==
    ASSUME TypeInv, SerialInv, NEW p \in Procs, AloneAt(p), Flip(p)
    PROVE  SerialInv'
<1>0. TablesOK /\ ProcsOK
  BY TwoHalves
<1> PICK s \in ProcStates : s = procs[p] /\ Shape(s)
  BY <1>0 DEF ProcsOK
<1>1. s.pc = "flip" /\ s.pass = "escalate" /\ s.cust \in Customers /\ s # Idle
  <2>1. s.pc = "flip"
    BY DEF Flip, At
  <2> QED
    BY <2>1 DEF Shape, PassAt, Idle
<1>2. ListingHolds(s) /\ CustomerHolds(s)
  BY <1>1 DEF SerialInv, Holds
<1>3. Smooth => Matches(s)
  BY MatchesAlone DEF SerialInv
<1>4. UNCHANGED <<radius, unpaid, requests, wos, faults, crashes>> /\ OneOpenRequest'
  BY DEF Flip, paperwork, SerialInv, OneOpenRequest
<1>5. \A d \in Customers : crm'[d] = IF d = s.cust THEN "suspended" ELSE crm[d]
  BY <1>0, <1>1 DEF Flip, SetCustomerStatus, TablesOK
<1> DEFINE n == [s EXCEPT !.pc = "log"]
<1>6. /\ n.pc = "log" /\ n.pass = s.pass /\ n.todo = s.todo /\ n.cust = s.cust
      /\ n.seen = s.seen /\ n = GoneOn(s, "log") /\ "log" \in Pcs
  BY AllPcs DEF ProcStates, GoneOn
<1> HIDE DEF n
<1>7. ListingHolds(n)'
  <2>1. \A d \in Customers : Overdue(d, SoftGrace)' <=> Overdue(d, SoftGrace)
    BY <1>4 DEF Overdue
  <2>2. s.todo \subseteq Customers
    BY DEF ProcStates
  <2> QED
    BY <1>1, <1>2, <1>5, <1>6, <2>1, <2>2 DEF ListingHolds
<1>8. CustomerHolds(n)' /\ RequestHolds(n)' /\ PassHolds(n)'
  BY <1>1, <1>6 DEF CustomerHolds, RequestHolds, PassHolds
<1>9. Smooth' => Matches(n)'
  <2>1. \A t \in RequestIds : \A c \in Customers :
            (Ended(t, c)' <=> Ended(t, c)) /\ (Done(t, c)' <=> Done(t, c))
    BY <1>4 DEF Done, Ended
  <2>2. crm[s.cust] # "terminated"
    BY <1>1, <1>2 DEF CustomerHolds
  <2>3. Smooth => \A t \in RequestIds : ~Ended(t, s.cust)
    BY <1>1, <1>3, <2>2 DEF Matches
  <2> QED
    BY <1>1, <1>3, <1>4, <1>5, <1>6, <2>1, <2>2, <2>3 DEF Matches, Smooth
<1> QED
  BY <1>1, <1>4, <1>6, <1>7, <1>8, <1>9, AloneGoesOn DEF Flip, Knows, Holds

\* The ladder row of either loop.
LEMMA SerialLog ==
    ASSUME TypeInv, SerialInv, NEW p \in Procs, AloneAt(p), LogAction(p)
    PROVE  SerialInv'
<1>0. TablesOK /\ ProcsOK
  BY TwoHalves
<1> PICK s \in ProcStates : s = procs[p] /\ Shape(s)
  BY <1>0 DEF ProcsOK
<1>1. s.pc = "log" /\ s.pass \in {"escalate", "revive"} /\ s.cust \in Customers /\ s # Idle
  <2>1. s.pc = "log"
    BY DEF LogAction, At
  <2> QED
    BY <2>1 DEF Shape, PassAt, Idle
<1>2. Holds(s)
  BY <1>1 DEF SerialInv
<1>3. Knows(Skipped(s, s.cust))
  BY <1>1, <1>2, SkippedKnows DEF Holds, Through
<1>4. Skipped(s, s.cust) \in ProcStates
  BY <1>1, SkippedOK
<1>5. Become(p, Skipped(s, s.cust))
  BY DEF LogAction, GoOn, Skip, Skipped
<1>6. UNCHANGED <<crm, suspendedFor, radius, unpaid, paperwork, faults, crashes>>
  BY DEF LogAction
<1> QED
  BY <1>1, <1>3, <1>4, <1>5, <1>6, AloneTurns

\* The restore loop restores a customer.
LEMMA SerialRevives ==
    ASSUME TypeInv, SerialInv, NEW p \in Procs, AloneAt(p), NEW c,
           ReviveRadius(p, c) \/ ReviveCRM(p)
    PROVE  SerialInv'
<1>0. TablesOK /\ ProcsOK
  BY TwoHalves
<1> PICK s \in ProcStates : s = procs[p] /\ Shape(s)
  BY <1>0 DEF ProcsOK
<1>1. s.pc \in {"scan", "reviveCRM"} /\ s.pass = "revive" /\ s # Idle
  <2>1. s.pc \in {"scan", "reviveCRM"}
    BY DEF ReviveRadius, ReviveCRM, Scanning, At
  <2>2. s.pass = "revive"
    BY <2>1 DEF ReviveRadius, ReviveCRM, Scanning, At, Shape, PassAt
  <2> QED
    BY <2>1, <2>2 DEF Idle
<1>2. ListingHolds(s) /\ CustomerHolds(s)
  BY <1>1 DEF SerialInv, Holds
<1>3. Smooth => Matches(s)
  BY MatchesAlone DEF SerialInv
<1>4. UNCHANGED <<unpaid, requests, wos, faults, crashes>> /\ OneOpenRequest'
  BY DEF ReviveRadius, ReviveCRM, paperwork, SerialInv, OneOpenRequest
<1>5. \A t \in RequestIds : \A d \in Customers :
          (Ended(t, d)' <=> Ended(t, d)) /\ (Done(t, d)' <=> Done(t, d))
  BY <1>4 DEF Done, Ended
<1>6. CASE ReviveRadius(p, c)
  <2>1. s.pc = "scan" /\ s.cust = None /\ c \in s.todo /\ c \in Customers /\ s.cust \notin Customers
    BY <1>6, SubscriptionsAssumption DEF ReviveRadius, Scanning, At, ProcStates, Shape
  <2>2. crm' = crm /\ \A d \in Customers : radius'[d] = IF d = c THEN "online" ELSE radius[d]
    BY <1>0, <1>6, <2>1 DEF ReviveRadius, SetRadius, TablesOK
  <2>3. crm[c] = "suspended"
    BY <1>1, <1>2, <2>1 DEF ListingHolds
  <2> DEFINE n == [s EXCEPT !.pc = "reviveCRM", !.cust = c, !.act = "restore"]
  <2>4. n \in ProcStates /\ n.pc = "reviveCRM" /\ n.pass = s.pass /\ n.todo = s.todo /\ n.cust = c
    BY <2>1, AllPcs DEF ProcStates, Actions
  <2>5. Become(p, n)
    BY <1>6 DEF ReviveRadius
  <2> HIDE DEF n
  <2>6. ListingHolds(n)'
    BY <1>1, <1>2, <2>1, <2>2, <2>4 DEF ListingHolds, ProcStates
  <2>7. CustomerHolds(n)' /\ RequestHolds(n)' /\ PassHolds(n)'
    BY <1>1, <2>1, <2>2, <2>3, <2>4 DEF CustomerHolds, RequestHolds, PassHolds
  <2>8. Smooth' => Matches(n)'
    BY <1>3, <1>4, <1>5, <2>1, <2>2, <2>3, <2>4 DEF Matches, Smooth
  <2> QED
    BY <1>4, <2>4, <2>5, <2>6, <2>7, <2>8, AloneSteps DEF Knows, Holds
<1>7. CASE ReviveCRM(p)
  <2>1. s.pc = "reviveCRM" /\ s.cust \in Customers
    BY <1>7 DEF ReviveCRM, At, Shape
  <2>2. radius' = radius /\ \A d \in Customers : crm'[d] = IF d = s.cust THEN "active" ELSE crm[d]
    BY <1>0, <1>7, <2>1 DEF ReviveCRM, SetCustomerStatus, TablesOK
  <2>3. crm[s.cust] = "suspended" /\ radius[s.cust] = "online"
    BY <1>2, <2>1 DEF CustomerHolds
  <2> DEFINE n == [s EXCEPT !.pc = "log"]
  <2>4. /\ n.pc = "log" /\ n.pass = s.pass /\ n.todo = s.todo /\ n.cust = s.cust
        /\ n = GoneOn(s, "log") /\ "log" \in Pcs
    BY AllPcs DEF ProcStates, GoneOn
  <2> HIDE DEF n
  <2>5. ListingHolds(n)'
    BY <1>1, <1>2, <2>1, <2>2, <2>4 DEF ListingHolds, ProcStates
  <2>6. CustomerHolds(n)' /\ RequestHolds(n)' /\ PassHolds(n)'
    BY <1>1, <2>4 DEF CustomerHolds, RequestHolds, PassHolds
  <2>7. Smooth' => Matches(n)'
    <3>1. Smooth => \A t \in RequestIds : ~Ended(t, s.cust)
      BY <1>3, <2>1, <2>3 DEF Matches
    <3> QED
      BY <1>3, <1>4, <1>5, <2>1, <2>2, <2>3, <2>4, <3>1 DEF Matches, Smooth
  <2> QED
    BY <1>1, <1>4, <1>7, <2>1, <2>4, <2>5, <2>6, <2>7, AloneGoesOn DEF ReviveCRM, Knows, Holds
<1> QED
  BY <1>6, <1>7

-----------------------------------------------------------------------------
(* Failed calls, crashes, the ledger and the calendar *)

\* A process that leaves its customer because a call failed.
LEMMA SkippedAfterFault ==
    ASSUME NEW s \in ProcStates, NEW c, ListingHolds(s), s.cust \in {None, c},
           UNCHANGED <<crm, unpaid>>, faults' # 0
    PROVE  Knows(Skipped(s, c))'
<1> DEFINE n == Skipped(s, c)
<1>1. n = Idle \/ /\ n.pc = "scan" /\ n.pass = s.pass /\ n.cust = None
                  /\ n.todo = s.todo \ {c} /\ n.seen = s.seen
  BY DEF Skipped, Idle
<1>2. CASE n = Idle
  BY <1>2 DEF Knows
<1>3. CASE n # Idle
  <2> HIDE DEF n
  <2>1. \A d \in Customers : \A days : Overdue(d, days)' <=> Overdue(d, days)
    BY DEF Overdue
  <2>2. ListingHolds(n)'
    BY <1>1, <1>3, <2>1 DEF ListingHolds
  <2>3. CustomerHolds(n)' /\ RequestHolds(n)'
    BY <1>1, <1>3 DEF CustomerHolds, RequestHolds
  <2> QED
    BY <2>2, <2>3 DEF Knows, Holds, n
<1> QED
  BY <1>2, <1>3

LEMMA SerialFaults ==
    ASSUME TypeInv, SerialInv, NEW p \in Procs, AloneAt(p), NEW c,
           CallFails(p) \/ ReviveFails(p, c) \/ (c \in Customers /\ OpenLookupFails(p, c))
    PROVE  SerialInv'
<1>0. TablesOK /\ ProcsOK
  BY TwoHalves
<1> PICK s \in ProcStates : s = procs[p] /\ Shape(s)
  BY <1>0 DEF ProcsOK
<1>1. UNCHANGED <<crm, suspendedFor, radius, unpaid, requests, wos, crashes>>
  BY DEF CallFails, ReviveFails, OpenLookupFails, service, paperwork
<1>2. faults' # 0
  BY <1>0, SubscriptionsAssumption DEF CallFails, ReviveFails, OpenLookupFails, Fault, TablesOK
<1>3. OneOpenRequest' /\ ~Smooth'
  BY <1>2 DEF OneOpenRequest, Smooth
<1>4. s # Idle => ListingHolds(s)
  BY DEF SerialInv, Holds
<1>5. ASSUME NEW n \in ProcStates, Become(p, n), Knows(n)' PROVE SerialInv'
  BY <1>3, <1>5, AloneSteps
<1>6. ASSUME NEW d, s # Idle, s.cust \in {None, d}, Skip(p, d) PROVE SerialInv'
  <2>1. s.pc # "idle"
    BY <1>6 DEF Shape
  <2>2. Skipped(s, d) \in ProcStates
    BY <2>1, SkippedOK
  <2>3. Become(p, Skipped(s, d))
    BY <1>6 DEF Skip, Skipped
  <2>4. Knows(Skipped(s, d))'
    BY <1>1, <1>2, <1>4, <1>6, SkippedAfterFault
  <2> QED
    BY <1>5, <2>2, <2>3, <2>4
<1>7. CASE CallFails(p)
  <2>1. s.pc \in DOMAIN OnError /\ GoOn(p, OnError[s.pc])
    BY <1>7 DEF CallFails
  <2>2. s.pc \in {"suspendCRM", "suspendRadius", "restoreCRM", "restoreRadius", "mint",
                  "terminateCRM", "deactivate", "flip", "log", "reviveCRM"}
    BY <2>1 DEF OnError
  <2>3. s # Idle
    BY <2>2 DEF Idle
  <2>4. CASE s.pc = "terminateCRM"
    <3> DEFINE n == [s EXCEPT !.pc = "deactivate"]
    <3>1. n \in ProcStates /\ n.pc = "deactivate" /\ n.pass = "desk"
      BY <2>4, AllPcs DEF ProcStates, Shape, PassAt
    <3>2. Become(p, n)
      BY <2>1, <2>4 DEF OnError, GoOn
    <3> HIDE DEF n
    <3>3. Knows(n)'
      BY <1>2, <3>1
         DEF Knows, Holds, ListingHolds, CustomerHolds, RequestHolds, PassHolds
    <3> QED
      BY <1>5, <3>1, <3>2, <3>3
  <2>5. CASE s.pc = "flip"
    <3> DEFINE n == [s EXCEPT !.pc = "log"]
    <3>1. /\ n \in ProcStates /\ n.pc = "log" /\ n.pass = s.pass /\ n.todo = s.todo
          /\ n.seen = s.seen /\ n.cust = s.cust
      BY <2>5, AllPcs DEF ProcStates
    <3>2. Become(p, n)
      BY <2>1, <2>5 DEF OnError, GoOn
    <3> HIDE DEF n
    <3>3. ListingHolds(n)'
      <4>1. \A d \in Customers : Overdue(d, SoftGrace)' <=> Overdue(d, SoftGrace)
        BY <1>1 DEF Overdue
      <4> QED
        BY <1>1, <1>4, <2>3, <3>1, <4>1 DEF ListingHolds
    <3>4. CustomerHolds(n)' /\ RequestHolds(n)'
      BY <3>1 DEF CustomerHolds, RequestHolds
    <3> QED
      BY <1>2, <1>5, <3>1, <3>2, <3>3, <3>4 DEF Knows, Holds
  <2>6. CASE s.pc \notin {"terminateCRM", "flip"}
    <3>1. GoOn(p, "next")
      BY <2>1, <2>2, <2>6 DEF OnError
    <3> QED
      BY <1>6, <2>3, <3>1 DEF GoOn
  <2> QED
    BY <2>4, <2>5, <2>6
<1>8. CASE ReviveFails(p, c)
  <2>1. s.pc = "scan"
    BY <1>8 DEF ReviveFails, Scanning, At
  <2>2. s # Idle /\ s.cust = None
    BY <2>1 DEF Idle, Shape
  <2> QED
    BY <1>6, <1>8, <2>2 DEF ReviveFails
<1>9. CASE c \in Customers /\ OpenLookupFails(p, c)
  <2>1. CASE Begin(p, "summary", c, None, NoRow)
    <3> DEFINE n == [Idle EXCEPT !.pc = "summary", !.pass = "desk", !.cust = c, !.req = None,
                         !.row = NoRow]
    <3>1. n \in ProcStates /\ n.pc = "summary" /\ n.pass = "desk"
      BY <1>9, IdleOK, AllPcs DEF ProcStates, Passes, Idle
    <3>2. Become(p, n)
      BY <2>1 DEF Begin
    <3> HIDE DEF n
    <3>3. Knows(n)'
      BY <1>2, <3>1
         DEF Knows, Holds, ListingHolds, CustomerHolds, RequestHolds, PassHolds
    <3> QED
      BY <1>5, <3>1, <3>2, <3>3
  <2>2. CASE ~Begin(p, "summary", c, None, NoRow)
    <3> DEFINE row == NewRequest(c, "auto", "wo_pending")
               n == [s EXCEPT !.pc = "create", !.cust = c, !.row = row]
    <3>1. Scanning(p, "terminate", c) /\ Become(p, n)
      BY <1>9, <2>2 DEF OpenLookupFails
    <3>2. row \in Rows
      BY <1>9 DEF NewRequest, Rows, RequestStatuses, Kinds
    <3> HIDE DEF row
    <3>3. n \in ProcStates /\ n.pc = "create" /\ n.pass = "terminate"
      BY <1>9, <3>1, <3>2, AllPcs DEF ProcStates, Scanning
    <3> HIDE DEF n
    <3>4. Knows(n)'
      BY <1>2, <3>3
         DEF Knows, Holds, ListingHolds, CustomerHolds, RequestHolds, PassHolds
    <3> QED
      BY <1>5, <3>1, <3>3, <3>4
  <2> QED
    BY <2>1, <2>2
<1> QED
  BY <1>7, <1>8, <1>9

\* What a process knows it still knows after another one stopped.
LEMMA SerialCrash ==
    ASSUME TypeInv, SerialInv, Crash
    PROVE  SerialInv'
<1>0. TablesOK /\ ProcsOK
  BY TwoHalves
<1>1. UNCHANGED <<crm, suspendedFor, radius, unpaid, requests, wos, faults>>
  BY DEF Crash, service, paperwork
<1>2. \A q \in Procs : procs'[q] \in {procs[q], Idle}
  BY DEF Crash
<1>3. crashes' # 0
  BY <1>0, SubscriptionsAssumption DEF Crash, TablesOK
<1>4. OneBusy'
  BY <1>2 DEF SerialInv, OneBusy
<1>5. \A q \in Procs : procs'[q] # Idle => Holds(procs[q])'
  <2> SUFFICES ASSUME NEW q \in Procs, procs'[q] # Idle PROVE Holds(procs[q])'
    OBVIOUS
  <2> PICK s \in ProcStates : s = procs[q]
    BY <1>0 DEF ProcsOK
  <2>1. procs'[q] = s /\ Holds(s)
    BY <1>2 DEF SerialInv
  <2>2. Holds(s)'
    BY <1>1, <2>1 DEF Holds, ListingHolds, CustomerHolds, RequestHolds, PassHolds, Overdue, Open,
       Unused, LongSuspended, Done, Ended
  <2>3. Holds(procs[q])' <=> Holds(s)'
    BY <2>1 DEF Holds, ListingHolds, CustomerHolds, RequestHolds, PassHolds
  <2> QED
    BY <2>2, <2>3
<1> QED
  BY <1>1, <1>3, <1>4, <1>5 DEF SerialInv, OneOpenRequest, Smooth

LEMMA SerialLedger ==
    ASSUME SerialInv, ~Overlap,
           \/ \E c \in Customers : Bill(c) \/ \E a \in unpaid[c] : Settle(c, a)
           \/ Day
    PROVE  SerialInv'
<1>1. Quiet /\ UNCHANGED <<crm, radius, requests, wos, procs, faults, crashes>>
  BY DEF Bill, Settle, Day, service, paperwork
<1>2. \A q \in Procs : procs'[q] = Idle
  BY <1>1 DEF Quiet
<1>3. OneBusy' /\ OneOpenRequest'
  BY <1>1, <1>2 DEF OneBusy, SerialInv, OneOpenRequest
<1>4. Smooth' => (TerminationsMatch /\ AccountsMatch)'
  BY <1>1 DEF SerialInv, Smooth, TerminationsMatch, AccountsMatch, Halfway, At, Done, Ended
<1> QED
  BY <1>2, <1>3, <1>4 DEF SerialInv

-----------------------------------------------------------------------------
(* Together *)

LEMMA SerialStep ==
    ASSUME TypeInv, SerialInv, NEW p \in Procs, AloneAt(p), Start(p) \/ Request(p) \/ Step(p)
    PROVE  SerialInv'
<1>1. CASE Start(p)
  BY <1>1, TickLooks, SerialListings DEF Start
<1>2. CASE Request(p)
  BY <1>2, SerialRequests
<1>3. ASSUME NEW c \in Customers, ForCustomer(p, c) PROVE SerialInv'
  BY <1>3, TickLooks, TickAsks, SerialStages, SerialRevives DEF ForCustomer
<1>4. CASE \/ SuspendCRM(p) \/ SuspendRadius(p) \/ ListSuspended(p)
           \/ RestoreCRM(p) \/ RestoreRadius(p) \/ ListLongSuspended(p) \/ FinishTick(p)
  BY <1>4, TickLooks, TickSuspends, TickRestores
<1>5. CASE \/ CreateRequest(p) \/ MintWO(p) \/ UpdateRequest(p)
           \/ Summary(p) \/ Outstanding(p) \/ FinalInvoice(p)
           \/ ApproveWO(p) \/ CompleteTerminationByWO(p) \/ TerminateCRM(p) \/ Deactivate(p)
  BY <1>5, SerialCreate, SerialMint, SerialUpdate, SerialAsks, SerialApproval
<1>6. CASE Flip(p) \/ LogAction(p) \/ ReviveCRM(p) \/ FinishLoop(p)
  BY <1>6, SerialFlip, SerialLog, SerialRevives, SerialStages
<1> QED
  BY <1>1, <1>2, <1>3, <1>4, <1>5, <1>6 DEF Step

\* A pass starts on a quiet system; a busy process goes on alone.
LEMMA MovesAlone ==
    ASSUME ~Overlap, OneBusy, NEW p \in Procs, NEW c,
           \/ Start(p) \/ Request(p) \/ Step(p)
           \/ CallFails(p) \/ ReviveFails(p, c) \/ OpenLookupFails(p, c)
    PROVE  AloneAt(p)
<1>1. Free(p) => Quiet
  BY DEF Free
<1>2. ASSUME procs[p].pc # "idle" PROVE procs[p] # Idle
  BY <1>2 DEF Idle
<1>3. CASE Start(p)
  BY <1>1, <1>3, MoverIsAlone DEF Start, StartTick, StartSuspension, StartRestore
<1>4. CASE Request(p)
  BY <1>1, <1>4, MoverIsAlone
     DEF Request, RequestTermination, CancelTerminationRequest, VerifyBAST, Begin
<1>5. CASE Step(p)
  <2>1. CASE \E d \in Customers : ForCustomer(p, d)
    <3>1. procs[p].pc = "scan"
      BY <2>1 DEF ForCustomer, ScanSuspend, ScanRestore, ScanTerminate, Escalate, ReviveRadius,
         Scanning, At
    <3> QED
      BY <1>2, <3>1, MoverIsAlone
  <2>2. CASE \/ SuspendCRM(p) \/ SuspendRadius(p) \/ ListSuspended(p)
             \/ RestoreCRM(p) \/ RestoreRadius(p) \/ ListLongSuspended(p) \/ FinishTick(p)
             \/ Flip(p) \/ LogAction(p) \/ ReviveCRM(p) \/ FinishLoop(p)
    <3>1. procs[p].pc # "idle"
      BY <2>2 DEF SuspendCRM, SuspendRadius, ListSuspended, RestoreCRM, RestoreRadius,
         ListLongSuspended, FinishTick, Flip, LogAction, ReviveCRM, FinishLoop, Listed, At
    <3> QED
      BY <1>2, <3>1, MoverIsAlone
  <2>3. CASE \/ CreateRequest(p) \/ MintWO(p) \/ UpdateRequest(p)
             \/ Summary(p) \/ Outstanding(p) \/ FinalInvoice(p)
             \/ ApproveWO(p) \/ CompleteTerminationByWO(p) \/ TerminateCRM(p) \/ Deactivate(p)
    <3>1. procs[p].pc # "idle"
      BY <2>3 DEF CreateRequest, MintWO, UpdateRequest, Summary, Outstanding, FinalInvoice,
         ApproveWO, CompleteTerminationByWO, TerminateCRM, Deactivate, At
    <3> QED
      BY <1>2, <3>1, MoverIsAlone
  <2> QED
    BY <1>5, <2>1, <2>2, <2>3 DEF Step
<1>6. CASE CallFails(p)
  BY <1>2, <1>6, MoverIsAlone DEF CallFails, OnError
<1>7. CASE ReviveFails(p, c)
  BY <1>2, <1>7, MoverIsAlone DEF ReviveFails, Scanning, At
<1>8. CASE OpenLookupFails(p, c)
  BY <1>1, <1>2, <1>8, MoverIsAlone DEF OpenLookupFails, Scanning, At, Begin
<1> QED
  BY <1>3, <1>4, <1>5, <1>6, <1>7, <1>8

LEMMA SerialInit == ASSUME Init PROVE SerialInv
<1>1. OneBusy /\ \A p \in Procs : procs[p] = Idle
  BY DEF Init, OneBusy
<1>2. OneOpenRequest
  BY DEF Init, OneOpenRequest, NoRow
<1>3. TerminationsMatch /\ AccountsMatch
  BY DEF Init, TerminationsMatch, AccountsMatch, Ended, Done, NoRow
<1> QED
  BY <1>1, <1>2, <1>3 DEF SerialInv

LEMMA SerialNext ==
    ASSUME ~Overlap, TypeInv, SerialInv, [Next]_vars
    PROVE  SerialInv'
<1>0. OneBusy
  BY DEF SerialInv
<1>1. CASE UNCHANGED vars
  <2>1. UNCHANGED <<crm, suspendedFor, radius, unpaid, requests, wos, procs, faults, crashes>>
    BY <1>1 DEF vars, service, paperwork
  <2>2. OneBusy' /\ OneOpenRequest'
    BY <2>1 DEF SerialInv, OneBusy, OneOpenRequest
  <2>3. Smooth' => (TerminationsMatch /\ AccountsMatch)'
    BY <2>1 DEF SerialInv, Smooth, TerminationsMatch, AccountsMatch, Halfway, At, Done, Ended
  <2>4. \A q \in Procs : procs'[q] # Idle => Holds(procs[q])'
    BY <2>1 DEF SerialInv, Holds, ListingHolds, CustomerHolds, RequestHolds, PassHolds, Overdue,
       Open, Unused, LongSuspended, Done, Ended
  <2> QED
    BY <2>2, <2>3, <2>4 DEF SerialInv
<1>2. ASSUME NEW p \in Procs, Start(p) \/ Request(p) \/ Step(p) PROVE SerialInv'
  BY <1>0, <1>2, MovesAlone, SerialStep
<1>3. ASSUME NEW p \in Procs, CallFails(p) PROVE SerialInv'
  BY <1>0, <1>3, MovesAlone, SerialFaults
<1>4. ASSUME NEW p \in Procs, NEW c \in Customers, ReviveFails(p, c) \/ OpenLookupFails(p, c)
      PROVE  SerialInv'
  BY <1>0, <1>4, MovesAlone, SerialFaults
<1> QED
  BY <1>1, <1>2, <1>3, <1>4, SerialCrash, SerialLedger DEF Next

\* When passes do not overlap, one process at most is busy, and what it has
\* listed and copied is still so; it is what all the promises below rest on.
THEOREM SerialCorrect == ~Overlap => (Spec => [](TypeInv /\ SerialInv))
<1> SUFFICES ASSUME ~Overlap PROVE Spec => [](TypeInv /\ SerialInv)
  OBVIOUS
<1>1. Init => SerialInv
  BY SerialInit
<1>2. TypeInv /\ SerialInv /\ [Next]_vars => SerialInv'
  BY SerialNext
<1>3. Spec => []TypeInv
  BY TypeCorrect
<1> QED
  BY <1>1, <1>2, <1>3, PTL DEF Spec

-----------------------------------------------------------------------------
(* The promises *)

\* runAutoTermination and RequestVoluntaryTermination leave no customer two
\* requests in progress, whatever stops half-way.
THEOREM OneOpenRequestAlways == ~Overlap => (Spec => []OneOpenRequest)
<1> SUFFICES ASSUME ~Overlap PROVE Spec => []OneOpenRequest
  OBVIOUS
<1>1. SerialInv => OneOpenRequest
  BY DEF SerialInv
<1>2. Spec => [](TypeInv /\ SerialInv)
  BY SerialCorrect
<1> QED
  BY <1>1, <1>2, PTL

\* Nobody is half-way when nothing runs.
LEMMA QuietIsSettled ==
    ASSUME Quiet, NEW c, NEW pc \in {"terminateCRM", "restoreRadius", "deactivate"}
    PROVE  ~Halfway(c, pc)
BY DEF Quiet, Halfway, At, Idle

\* CompleteTerminationByWO's two writes, and nothing else, end a service: the
\* terminated customers are those of the completed requests.
THEOREM TerminatedByRequestAlways == ~Overlap => (Spec => []TerminatedByRequest)
<1> SUFFICES ASSUME ~Overlap PROVE Spec => []TerminatedByRequest
  OBVIOUS
<1>1. SerialInv => TerminatedByRequest
  BY QuietIsSettled DEF SerialInv, TerminatedByRequest, TerminationsMatch, Done, Ended
<1>2. Spec => [](TypeInv /\ SerialInv)
  BY SerialCorrect
<1> QED
  BY <1>1, <1>2, PTL

\* The tick, the restore loop and the approval each leave the RADIUS account of
\* a customer as crm.customers.status says.
THEOREM ServedAsRecordedAlways == ~Overlap => (Spec => []ServedAsRecorded)
<1> SUFFICES ASSUME ~Overlap PROVE Spec => []ServedAsRecorded
  OBVIOUS
<1>1. SerialInv => ServedAsRecorded
  BY QuietIsSettled DEF SerialInv, ServedAsRecorded, AccountsMatch
<1>2. Spec => [](TypeInv /\ SerialInv)
  BY SerialCorrect
<1> QED
  BY <1>1, <1>2, PTL

\* RunBillingTick reaches its end with all of its passes' work done, for every
\* customer, a crash of another replica included.
THEOREM TickConvergesAlways == ~Overlap => (Spec => []TickConverges)
<1> SUFFICES ASSUME ~Overlap PROVE Spec => []TickConverges
  OBVIOUS
<1>1. SerialInv => TickConverges
  <2> SUFFICES ASSUME SerialInv, NEW p \in Tickers, Listed(p, "terminate"), faults = 0,
                      Unused # {}, NEW c \in Customers
               PROVE  /\ crm[c] = "active" => ~Overdue(c, SuspendAfter)
                      /\ crm[c] = "suspended" => Overdue(c, 0)
                      /\ LongSuspended(c) => Open(c)
    BY DEF TickConverges
  <2>1. p \in Procs /\ procs[p] # Idle
    BY DEF Procs, Listed, At, Idle
  <2>2. PassHolds(procs[p])
    BY <2>1 DEF SerialInv, Holds
  <2> QED
    BY <2>2 DEF PassHolds, Listed
<1>2. Spec => [](TypeInv /\ SerialInv)
  BY SerialCorrect
<1> QED
  BY <1>1, <1>2, PTL

\* Only suspendCRM and SetSuspensionState suspend, and they come to a customer
\* who is past their window.
LEMMA StepSuspendsForDebt ==
    ASSUME TypeInv, SerialInv, NEW p \in Procs, Step(p), NEW c \in Customers,
           crm[c] = "active", crm'[c] = "suspended"
    PROVE  Overdue(c, SuspendAfter) \/ Overdue(c, SoftGrace)
<1>0. TablesOK /\ ProcsOK
  BY TwoHalves
<1> PICK s \in ProcStates : s = procs[p] /\ Shape(s)
  BY <1>0 DEF ProcsOK
<1>1. CASE SuspendCRM(p) \/ Flip(p)
  <2>1. s.pc \in {"suspendCRM", "flip"} /\ s # Idle
    <3>1. s.pc \in {"suspendCRM", "flip"}
      BY <1>1 DEF SuspendCRM, Flip, At
    <3> QED
      BY <3>1 DEF Idle
  <2>2. CustomerHolds(s)
    BY <2>1 DEF SerialInv, Holds
  <2>3. c = s.cust
    BY <1>0, <1>1 DEF SuspendCRM, Flip, SetCustomerStatus, TablesOK
  <2> QED
    BY <2>1, <2>2, <2>3 DEF CustomerHolds
<1>2. CASE RestoreCRM(p) \/ ReviveCRM(p) \/ TerminateCRM(p)
  BY <1>0, <1>2 DEF RestoreCRM, ReviveCRM, TerminateCRM, SetCustomerStatus, TablesOK
<1>3. CASE UNCHANGED crm
  BY <1>3
<1>4. CASE \E d \in Customers : ForCustomer(p, d)
  BY <1>3, <1>4 DEF ForCustomer, ScanSuspend, ScanRestore, ScanTerminate, Escalate, ReviveRadius, service
<1>5. CASE \/ SuspendRadius(p) \/ ListSuspended(p) \/ RestoreRadius(p) \/ ListLongSuspended(p)
           \/ FinishTick(p) \/ LogAction(p) \/ FinishLoop(p) \/ Deactivate(p)
  BY <1>3, <1>5 DEF SuspendRadius, ListSuspended, RestoreRadius, ListLongSuspended, FinishTick,
     LogAction, FinishLoop, Deactivate, service
<1>6. CASE \/ CreateRequest(p) \/ MintWO(p) \/ UpdateRequest(p)
           \/ Summary(p) \/ Outstanding(p) \/ FinalInvoice(p)
           \/ ApproveWO(p) \/ CompleteTerminationByWO(p)
  BY <1>3, <1>6 DEF CreateRequest, MintWO, UpdateRequest, Summary, Outstanding, FinalInvoice,
     ApproveWO, CompleteTerminationByWO, service
<1> QED
  BY <1>1, <1>2, <1>4, <1>5, <1>6 DEF Step

\* No loop suspends a customer for an invoice that was paid since its listing.
THEOREM SuspendedForDebtAlways == ~Overlap => (Spec => SuspendedForDebt)
<1> SUFFICES ASSUME ~Overlap PROVE Spec => SuspendedForDebt
  OBVIOUS
<1> DEFINE A == \A c \in Customers :
                   crm[c] = "active" /\ crm'[c] = "suspended" =>
                       Overdue(c, SuspendAfter) \/ Overdue(c, SoftGrace)
<1>1. TypeInv /\ SerialInv /\ [Next]_vars => [A]_vars
  <2> SUFFICES ASSUME TypeInv, SerialInv, Next PROVE A
    OBVIOUS
  <2>1. CASE UNCHANGED crm
    BY <2>1
  <2>2. ASSUME NEW p \in Procs, Step(p) PROVE A
    BY <2>2, StepSuspendsForDebt
  <2>3. ASSUME NEW p \in Procs, Start(p) \/ Request(p) \/ CallFails(p) PROVE A
    BY <2>1, <2>3 DEF Start, StartTick, StartSuspension, StartRestore, Request,
       RequestTermination, CancelTerminationRequest, VerifyBAST, CallFails, service
  <2>4. ASSUME NEW p \in Procs, NEW c \in Customers, ReviveFails(p, c) \/ OpenLookupFails(p, c)
        PROVE  A
    BY <2>1, <2>4 DEF ReviveFails, OpenLookupFails, service
  <2>5. CASE \/ Crash \/ Day
             \/ \E c \in Customers : Bill(c) \/ \E a \in unpaid[c] : Settle(c, a)
    BY <2>1, <2>5 DEF Crash, Day, Bill, Settle, service
  <2> QED
    BY <2>2, <2>3, <2>4, <2>5 DEF Next
<1>2. Spec => [](TypeInv /\ SerialInv)
  BY SerialCorrect
<1>3. Spec => [][A]_vars
  <2> HIDE DEF A
  <2> QED
    BY <1>1, <1>2, PTL DEF Spec
<1> QED
  BY <1>3 DEF SuspendedForDebt

=============================================================================
