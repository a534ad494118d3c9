---------------------------- MODULE Subscriptions ----------------------------
(***************************************************************************)
(* The service life of customers as billing-svc drives it: suspended for   *)
(* unpaid invoices, restored, and terminated through a request, a field    *)
(* work order and its approval.  Five actors write the same rows: the      *)
(* billing tick (every 30 minutes in each replica and on demand), the      *)
(* daily suspension loop, the five-minute restore loop, the staff          *)
(* endpoints and field-svc's approval callback.                            *)
(*                                                                         *)
(* Each actor is a process whose steps are single statements or calls: it  *)
(* lists customers once, then decides and writes one customer at a time,   *)
(* by id, whatever the row holds by then.                                  *)
(*                                                                         *)
(* Abstraction: the issued invoices of a customer are the set of their     *)
(* ages: 0 when not yet due, n when due between n - 1 and n days ago, so   *)
(* that "more than d days overdue" is n > d.  Ages saturate at MaxAge, past*)
(* every threshold.  Amounts, reasons and notes are left out, and so are   *)
(* the policies per customer: all have the same thresholds.  A customer    *)
(* enters the model once installed.                                        *)
(***************************************************************************)
EXTENDS FiniteSetsExt, Naturals

CONSTANTS
    Customers,
    RequestIds,         \* termination requests, each with the work order it mints
    Tickers, Suspenders, Restorers, Desks,  \* the processes
    SuspendAfter,       \* days overdue before the tick suspends
    TerminateAfter,     \* days suspended before the tick asks for termination
    WarnGrace, SoftGrace, HardGrace,        \* the suspension loop's stages
    MaxAge,             \* ages saturate here
    MaxUnpaid,          \* bound on the issued invoices of a customer
    MaxMishaps,         \* bound on failed calls and crashes together
    Overlap,            \* FALSE: a process starts only when no other runs
    None                \* NULL

ASSUME SubscriptionsAssumption ==
    /\ {SuspendAfter, TerminateAfter, WarnGrace, SoftGrace, HardGrace} \subseteq Nat
    /\ 0 < SoftGrace /\ SoftGrace <= HardGrace
    /\ MaxAge \in Nat /\ \A n \in {SuspendAfter, WarnGrace, SoftGrace, HardGrace} : n < MaxAge
    /\ {MaxUnpaid, MaxMishaps} \subseteq Nat
    /\ Overlap \in BOOLEAN
    /\ None \notin Customers \cup RequestIds

VARIABLES
    crm,            \* customer -> crm.customers.status
    suspendedFor,   \* customer -> days since suspended_at, saturating
    radius,         \* customer -> status of the RADIUS account
    unpaid,         \* customer -> ages of the issued invoices
    ladder,         \* customer -> last row of suspension_actions
    requests,       \* termination_requests
    wos,            \* request -> its work order
    procs,          \* process -> its state
    faults, crashes     \* calls that failed, and crashes, so far

service == <<crm, suspendedFor, radius, ladder>>
paperwork == <<requests, wos>>
vars == <<service, unpaid, paperwork, procs, faults, crashes>>

Procs == Tickers \cup Suspenders \cup Restorers \cup Desks

Actions == {"none", "warn", "soft_suspend", "hard_suspend", "restore"}

Kinds == {"voluntary", "auto"}
Closed == {"completed", "cancelled"}
RequestStatuses == {"awaiting_payment", "wo_pending", "wo_created"} \cup Closed

Rows == [status : RequestStatuses \cup {"absent"}, cust : Customers \cup {None},
         kind : Kinds, wo : BOOLEAN]
NoRow == [status |-> "absent", cust |-> None, kind |-> "auto", wo |-> FALSE]

Idle == [pc |-> "idle", pass |-> "none", todo |-> {}, seen |-> [c \in Customers |-> 0],
         cust |-> None, req |-> None, row |-> NoRow, act |-> "none"]

Init ==
    /\ crm = [c \in Customers |-> "active"]
    /\ suspendedFor = [c \in Customers |-> 0]
    /\ radius = [c \in Customers |-> "online"]
    /\ unpaid = [c \in Customers |-> {}]
    /\ ladder = [c \in Customers |-> "none"]
    /\ requests = [t \in RequestIds |-> NoRow]
    /\ wos = [t \in RequestIds |-> "none"]
    /\ procs = [p \in Procs |-> Idle]
    /\ faults = 0
    /\ crashes = 0

-----------------------------------------------------------------------------
(* Processes *)

Quiet == \A p \in Procs : procs[p] = Idle
Free(p) == procs[p] = Idle /\ (Overlap \/ Quiet)
At(p, pc) == procs[p].pc = pc

Become(p, state) == procs' = [procs EXCEPT ![p] = state]

\* Lists the customers a pass will go through.
List(p, pass, customers) == Become(p, [Idle EXCEPT !.pc = "scan", !.pass = pass, !.todo = customers])

\* On to the next customer of the listing; a desk has only one.
Skip(p, c) ==
    IF procs[p].pass = "desk" THEN Become(p, Idle)
    ELSE Become(p, [Idle EXCEPT !.pc = "scan", !.pass = procs[p].pass,
                        !.seen = procs[p].seen, !.todo = procs[p].todo \ {c}])

GoOn(p, pc) ==
    IF pc = "next" THEN Skip(p, procs[p].cust)
                   ELSE Become(p, [procs[p] EXCEPT !.pc = pc])

Scanning(p, pass, c) == At(p, "scan") /\ procs[p].pass = pass /\ c \in procs[p].todo
Listed(p, pass) == At(p, "scan") /\ procs[p].pass = pass /\ procs[p].todo = {}

-----------------------------------------------------------------------------
(* Statements *)

SetCustomerStatus(c, s) ==
    /\ crm' = [crm EXCEPT ![c] = s]
    /\ suspendedFor' = [suspendedFor EXCEPT ![c] = IF s = "terminated" THEN @ ELSE 0]

SetRadius(c, s) == radius' = [radius EXCEPT ![c] = s]

\* UNIQUE (customer_id, kind, status).
Unique(t, row) ==
    \A u \in RequestIds \ {t} :
        <<requests[u].cust, requests[u].kind, requests[u].status>>
            # <<row.cust, row.kind, row.status>>

\* (defect) a request waiting for payment does not count as open
OpenWithWork(c) ==
    \E t \in RequestIds :
        requests[t].cust = c /\ requests[t].status \in {"wo_pending", "wo_created"}

\* FindOpenForCustomer.
Open(c) == \E t \in RequestIds : requests[t].cust = c /\ requests[t].status \notin Closed

Overdue(c, days) == \E a \in unpaid[c] : a > days

-----------------------------------------------------------------------------
(* RunBillingTick, passes 3 and 4: suspend, restore, auto-terminate *)

StartTick(p) ==
    /\ p \in Tickers
    /\ Free(p)
    /\ List(p, "suspend", {c \in Customers : crm[c] = "active"})
    /\ UNCHANGED <<service, unpaid, paperwork, faults, crashes>>

\* (defect) suspends for an invoice that is not due yet
PastWindowAny(c) == unpaid[c] # {}

PastWindow(c) == Overdue(c, SuspendAfter)

ScanSuspend(p, c) ==
    /\ Scanning(p, "suspend", c)
    /\ IF PastWindow(c)
       THEN Become(p, [procs[p] EXCEPT !.pc = "suspendCRM", !.cust = c])
       ELSE Skip(p, c)
    /\ UNCHANGED <<service, unpaid, paperwork, faults, crashes>>

SuspendCRM(p) ==
    /\ At(p, "suspendCRM")
    /\ SetCustomerStatus(procs[p].cust, "suspended")
    /\ GoOn(p, "suspendRadius")
    /\ UNCHANGED <<radius, ladder, unpaid, paperwork, faults, crashes>>

SuspendRadius(p) ==
    /\ At(p, "suspendRadius")
    /\ SetRadius(procs[p].cust, "suspended")
    /\ GoOn(p, "next")
    /\ UNCHANGED <<crm, suspendedFor, ladder, unpaid, paperwork, faults, crashes>>

ListSuspended(p) ==
    /\ Listed(p, "suspend")
    /\ List(p, "restore", {c \in Customers : crm[c] = "suspended"})
    /\ UNCHANGED <<service, unpaid, paperwork, faults, crashes>>

\* (defect) asks for no issued invoice at all, as after a later bill
StillOverdueAtAll(c) == Overdue(c, 0) \/ unpaid[c] = {}

StillOverdue(c) == Overdue(c, 0)

ScanRestore(p, c) ==
    /\ Scanning(p, "restore", c)
    /\ IF StillOverdue(c)
       THEN Skip(p, c)
       ELSE Become(p, [procs[p] EXCEPT !.pc = "restoreCRM", !.cust = c])
    /\ UNCHANGED <<service, unpaid, paperwork, faults, crashes>>

RestoreCRM(p) ==
    /\ At(p, "restoreCRM")
    /\ SetCustomerStatus(procs[p].cust, "active")
    /\ GoOn(p, "restoreRadius")
    /\ UNCHANGED <<radius, ladder, unpaid, paperwork, faults, crashes>>

\* (defect) restores the CRM status only
RestoreRadiusNot(p) ==
    /\ At(p, "restoreRadius")
    /\ GoOn(p, "next")
    /\ UNCHANGED <<service, unpaid, paperwork, faults, crashes>>

RestoreRadius(p) ==
    /\ At(p, "restoreRadius")
    /\ SetRadius(procs[p].cust, "online")
    /\ GoOn(p, "next")
    /\ UNCHANGED <<crm, suspendedFor, ladder, unpaid, paperwork, faults, crashes>>

\* shouldAutoTerminate, on the suspended_at of the listing.
LongSuspended(c) == crm[c] = "suspended" /\ suspendedFor[c] >= TerminateAfter

ListLongSuspended(p) ==
    /\ Listed(p, "restore")
    /\ List(p, "terminate", {c \in Customers : LongSuspended(c)})
    /\ UNCHANGED <<service, unpaid, paperwork, faults, crashes>>

NewRequest(c, kind, status) == [status |-> status, cust |-> c, kind |-> kind, wo |-> FALSE]

ScanTerminate(p, c) ==
    /\ Scanning(p, "terminate", c)
    /\ IF Open(c)
       THEN Skip(p, c)
       ELSE Become(p, [procs[p] EXCEPT !.pc = "create", !.cust = c,
                          !.row = NewRequest(c, "auto", "wo_pending")])
    /\ UNCHANGED <<service, unpaid, paperwork, faults, crashes>>

FinishTick(p) ==
    /\ Listed(p, "terminate")
    /\ Become(p, Idle)
    /\ UNCHANGED <<service, unpaid, paperwork, faults, crashes>>

-----------------------------------------------------------------------------
(* The request row and its work order, for both flows *)

\* Ids are interchangeable: a new request takes the first unused one.
Unused == {t \in RequestIds : requests[t].status = "absent"}

\* The INSERT; one that waits for payment mints no work order.  (Bound: with
\* every id in use it fails like a violation of the index.)
CreateRequest(p) ==
    LET row == procs[p].row  t == CHOOSE u \in Unused : TRUE IN
    /\ At(p, "create")
    /\ IF Unused # {} /\ Unique(t, row)
       THEN /\ requests' = [requests EXCEPT ![t] = row]
            /\ IF row.status = "wo_pending"
               THEN Become(p, [procs[p] EXCEPT !.pc = "mint", !.req = t])
               ELSE GoOn(p, "next")
       ELSE GoOn(p, "next") /\ UNCHANGED requests
    /\ UNCHANGED <<service, unpaid, wos, faults, crashes>>

\* CustomerSummary and CreateTerminationWO.
MintWO(p) ==
    /\ At(p, "mint")
    /\ wos' = [wos EXCEPT ![procs[p].req] = "open"]
    /\ Become(p, [procs[p] EXCEPT !.pc = "update", !.row.status = "wo_created", !.row.wo = TRUE])
    /\ UNCHANGED <<service, unpaid, requests, faults, crashes>>

\* TerminationRequestRepository.Update: the whole copy, by id.  A completion
\* goes on to the customer; an index violation ends the request.
UpdateRequest(p) ==
    LET t == procs[p].req  row == procs[p].row IN
    /\ At(p, "update")
    /\ IF Unique(t, row)
       THEN /\ requests' = [requests EXCEPT ![t] = row]
            /\ GoOn(p, IF row.status = "completed" THEN "terminateCRM" ELSE "next")
       ELSE GoOn(p, "next") /\ UNCHANGED requests
    /\ UNCHANGED <<service, unpaid, wos, faults, crashes>>

-----------------------------------------------------------------------------
(* Staff endpoints and the approval of the work order *)

Begin(p, pc, c, t, row) ==
    /\ p \in Desks
    /\ Free(p)
    /\ Become(p, [Idle EXCEPT !.pc = pc, !.pass = "desk", !.cust = c, !.req = t, !.row = row])

\* RequestVoluntaryTermination up to its look for an open request.
RequestTermination(p, c) ==
    /\ ~Open(c)
    /\ Begin(p, "summary", c, None, NoRow)
    /\ UNCHANGED <<service, unpaid, paperwork, faults, crashes>>

Summary(p) ==
    /\ At(p, "summary")
    /\ GoOn(p, IF crm[procs[p].cust] = "terminated" THEN "next" ELSE "outstanding")
    /\ UNCHANGED <<service, unpaid, paperwork, faults, crashes>>

\* A customer who owes nothing, lock-in penalty included, goes straight to the
\* work order; a penalty is billed by a final invoice first.
Outstanding(p) ==
    LET c == procs[p].cust IN
    /\ At(p, "outstanding")
    /\ \E penalty \in BOOLEAN :
         LET status == IF penalty \/ unpaid[c] # {} THEN "awaiting_payment" ELSE "wo_pending"
         IN  Become(p, [procs[p] EXCEPT !.pc = IF penalty THEN "invoice" ELSE "create",
                            !.row = NewRequest(c, "voluntary", status)])
    /\ UNCHANGED <<service, unpaid, paperwork, faults, crashes>>

FinalInvoice(p) ==
    /\ At(p, "invoice")
    /\ unpaid' = [unpaid EXCEPT ![procs[p].cust] = @ \cup {0}]
    /\ GoOn(p, "create")
    /\ UNCHANGED <<service, paperwork, faults, crashes>>

\* (defect) cancels a completed termination
MayCancelCompleted(row) == row.status \notin {"absent", "cancelled"}

MayCancel(row) == row.status \notin {"absent"} \cup Closed

CancelTerminationRequest(p, t) ==
    /\ MayCancel(requests[t])
    /\ Begin(p, "update", requests[t].cust, t, [requests[t] EXCEPT !.status = "cancelled"])
    /\ UNCHANGED <<service, unpaid, paperwork, faults, crashes>>

\* VerifyBAST on a termination order: the check, the two updates, the hook.
VerifyBAST(p, t) ==
    /\ wos[t] = "open"
    /\ Begin(p, "approve", requests[t].cust, t, NoRow)
    /\ UNCHANGED <<service, unpaid, paperwork, faults, crashes>>

ApproveWO(p) ==
    /\ At(p, "approve")
    /\ wos' = [wos EXCEPT ![procs[p].req] = "approved"]
    /\ GoOn(p, "hook")
    /\ UNCHANGED <<service, unpaid, requests, faults, crashes>>

MayComplete(row) == row.wo /\ row.status \notin Closed

\* CompleteTerminationByWO: the request is found by the order stamped on it.
CompleteTerminationByWO(p) ==
    LET row == requests[procs[p].req] IN
    /\ At(p, "hook")
    /\ IF MayComplete(row)
       THEN Become(p, [procs[p] EXCEPT !.pc = "update", !.row = [row EXCEPT !.status = "completed"]])
       ELSE Become(p, Idle)
    /\ UNCHANGED <<service, unpaid, paperwork, faults, crashes>>

TerminateCRM(p) ==
    /\ At(p, "terminateCRM")
    /\ SetCustomerStatus(procs[p].cust, "terminated")
    /\ GoOn(p, "deactivate")
    /\ UNCHANGED <<radius, ladder, unpaid, paperwork, faults, crashes>>

Deactivate(p) ==
    /\ At(p, "deactivate")
    /\ SetRadius(procs[p].cust, "deactivated")
    /\ GoOn(p, "next")
    /\ UNCHANGED <<crm, suspendedFor, ladder, unpaid, paperwork, faults, crashes>>

-----------------------------------------------------------------------------
(* The suspension and restore loops of OrchestrationService *)

Oldest(c) == IF unpaid[c] = {} THEN 0 ELSE Max(unpaid[c])

Candidate(c) == Overdue(c, 0) /\ crm[c] \in {"active", "suspended"}

\* ListSuspensionCandidates, with the due date of the oldest overdue invoice.
StartSuspension(p) ==
    /\ p \in Suspenders
    /\ Free(p)
    /\ Become(p, [Idle EXCEPT !.pc = "scan", !.pass = "escalate",
                     !.todo = {c \in Customers : Candidate(c)},
                     !.seen = [c \in Customers |-> Oldest(c)]])
    /\ UNCHANGED <<service, unpaid, paperwork, faults, crashes>>

Stage(action) == CASE action = "warn" -> 1
                   [] action = "soft_suspend" -> 2
                   [] action = "hard_suspend" -> 3
                   [] OTHER -> 0

\* The highest stage crossed.
Reached(age) ==
    CASE age > HardGrace -> "hard_suspend"
      [] age <= HardGrace /\ age > SoftGrace -> "soft_suspend"
      [] age <= HardGrace /\ age <= SoftGrace /\ age > WarnGrace -> "warn"
      [] OTHER -> "none"

\* (defect) takes the last stage again
NextActionAgain(last, age) ==
    IF Stage(Reached(age)) >= Stage(last) THEN Reached(age) ELSE "none"

\* NextActionFor: the stage reached, if it is above the last one.
NextAction(last, age) ==
    IF Stage(Reached(age)) > Stage(last) THEN Reached(age) ELSE "none"

Escalate(p, c) ==
    LET act == NextAction(ladder[c], procs[p].seen[c]) IN
    /\ Scanning(p, "escalate", c)
    /\ IF act = "none" THEN Skip(p, c)
       ELSE Become(p, [procs[p] EXCEPT !.cust = c, !.act = act,
                          !.pc = IF act = "warn" THEN "log" ELSE "flip"])
    /\ UNCHANGED <<service, unpaid, paperwork, faults, crashes>>

\* SetSuspensionState: the CRM status only.
Flip(p) ==
    /\ At(p, "flip")
    /\ SetCustomerStatus(procs[p].cust, "suspended")
    /\ GoOn(p, "log")
    /\ UNCHANGED <<radius, ladder, unpaid, paperwork, faults, crashes>>

LogAction(p) ==
    /\ At(p, "log")
    /\ ladder' = [ladder EXCEPT ![procs[p].cust] = procs[p].act]
    /\ GoOn(p, "next")
    /\ UNCHANGED <<crm, suspendedFor, radius, unpaid, paperwork, faults, crashes>>

\* ListRestoreCandidates: suspended and without an issued invoice.
StartRestore(p) ==
    /\ p \in Restorers
    /\ Free(p)
    /\ List(p, "revive", {c \in Customers : crm[c] = "suspended" /\ unpaid[c] = {}})
    /\ UNCHANGED <<service, unpaid, paperwork, faults, crashes>>

ReviveRadius(p, c) ==
    /\ Scanning(p, "revive", c)
    /\ SetRadius(c, "online")
    /\ Become(p, [procs[p] EXCEPT !.pc = "reviveCRM", !.cust = c, !.act = "restore"])
    /\ UNCHANGED <<crm, suspendedFor, ladder, unpaid, paperwork, faults, crashes>>

ReviveCRM(p) ==
    /\ At(p, "reviveCRM")
    /\ SetCustomerStatus(procs[p].cust, "active")
    /\ GoOn(p, "log")
    /\ UNCHANGED <<radius, ladder, unpaid, paperwork, faults, crashes>>

FinishLoop(p) ==
    /\ Listed(p, "escalate") \/ Listed(p, "revive")
    /\ Become(p, Idle)
    /\ UNCHANGED <<service, unpaid, paperwork, faults, crashes>>

-----------------------------------------------------------------------------
(* Failed calls and crashes *)

Fault == faults + crashes < MaxMishaps /\ faults' = faults + 1

\* Where the code goes when the call of a step returns an error.
OnError ==
    [suspendCRM   |-> "next", suspendRadius |-> "next",
     restoreCRM   |-> "next", restoreRadius |-> "next",
     mint         |-> "next", terminateCRM  |-> "deactivate", deactivate |-> "next",
     flip         |-> "log",  log           |-> "next",       reviveCRM  |-> "next"]

CallFails(p) ==
    /\ procs[p].pc \in DOMAIN OnError
    /\ Fault
    /\ GoOn(p, OnError[procs[p].pc])
    /\ UNCHANGED <<service, unpaid, paperwork, crashes>>

ReviveFails(p, c) ==
    /\ Scanning(p, "revive", c)
    /\ Fault
    /\ Skip(p, c)
    /\ UNCHANGED <<service, unpaid, paperwork, crashes>>

\* The error of FindOpenForCustomer is dropped, so no request is found.
OpenLookupFails(p, c) ==
    /\ Fault
    /\ \/ /\ Scanning(p, "terminate", c)
          /\ Become(p, [procs[p] EXCEPT !.pc = "create", !.cust = c,
                           !.row = NewRequest(c, "auto", "wo_pending")])
       \/ Begin(p, "summary", c, None, NoRow)
    /\ UNCHANGED <<service, unpaid, paperwork, crashes>>

\* A replica stops with everything it was doing.
Crash ==
    /\ faults + crashes < MaxMishaps
    /\ crashes' = crashes + 1
    /\ \E dead \in SUBSET {p \in Procs : procs[p] # Idle} :
         /\ dead # {}
         /\ procs' = [p \in Procs |-> IF p \in dead THEN Idle ELSE procs[p]]
    /\ UNCHANGED <<service, unpaid, paperwork, faults>>

-----------------------------------------------------------------------------
(* The ledger and the calendar *)

\* A recurring invoice of an active customer, or a late fee on an overdue one.
Bill(c) ==
    /\ Overlap \/ Quiet
    /\ crm[c] = "active" \/ Overdue(c, 0)
    /\ Cardinality(unpaid[c]) < MaxUnpaid
    /\ unpaid' = [unpaid EXCEPT ![c] = @ \cup {0}]
    /\ UNCHANGED <<service, paperwork, procs, faults, crashes>>

\* RecordPayment or CancelInvoice takes an invoice out of issued.
Settle(c, a) ==
    /\ Overlap \/ Quiet
    /\ a \in unpaid[c]
    /\ unpaid' = [unpaid EXCEPT ![c] = @ \ {a}]
    /\ UNCHANGED <<service, paperwork, procs, faults, crashes>>

\* Passes are short: the date does not change under one.
Day ==
    /\ Quiet
    /\ unpaid' = [c \in Customers |-> {Min({a + 1, MaxAge}) : a \in unpaid[c]}]
    /\ suspendedFor' = [c \in Customers |->
            IF crm[c] = "suspended" THEN Min({suspendedFor[c] + 1, TerminateAfter})
                                    ELSE suspendedFor[c]]
    /\ UNCHANGED <<crm, radius, ladder, paperwork, procs, faults, crashes>>

-----------------------------------------------------------------------------

Start(p) ==
    \/ StartTick(p)
    \/ StartSuspension(p)
    \/ StartRestore(p)

Request(p) ==
    \/ \E c \in Customers : RequestTermination(p, c)
    \/ \E t \in RequestIds : CancelTerminationRequest(p, t) \/ VerifyBAST(p, t)

ForCustomer(p, c) ==
    \/ ScanSuspend(p, c)
    \/ ScanRestore(p, c)
    \/ ScanTerminate(p, c)
    \/ Escalate(p, c)
    \/ ReviveRadius(p, c)

Step(p) ==
    \/ \E c \in Customers : ForCustomer(p, c)
    \/ SuspendCRM(p) \/ SuspendRadius(p) \/ ListSuspended(p)
    \/ RestoreCRM(p) \/ RestoreRadius(p) \/ ListLongSuspended(p)
    \/ FinishTick(p)
    \/ CreateRequest(p) \/ MintWO(p) \/ UpdateRequest(p)
    \/ Summary(p) \/ Outstanding(p) \/ FinalInvoice(p)
    \/ ApproveWO(p) \/ CompleteTerminationByWO(p) \/ TerminateCRM(p) \/ Deactivate(p)
    \/ Flip(p) \/ LogAction(p) \/ ReviveCRM(p) \/ FinishLoop(p)

Next ==
    \/ \E p \in Procs :
         \/ Start(p) \/ Request(p) \/ Step(p) \/ CallFails(p)
         \/ \E c \in Customers : ReviveFails(p, c) \/ OpenLookupFails(p, c)
    \/ Crash
    \/ \E c \in Customers : Bill(c) \/ \E a \in unpaid[c] : Settle(c, a)
    \/ Day

Spec == Init /\ [][Next]_vars

\* A statement or a call returns or fails, sooner or later.  Days pass, and the
\* tick's timer fires again whatever else happened in between: often enough for
\* a pass that others hold up to have its turn.  The other loops are not needed,
\* and nothing obliges a customer to pay or the staff to act.
Fairness ==
    /\ \A p \in Procs : WF_vars(Step(p))
    /\ \A p \in Tickers : SF_vars(StartTick(p))
    /\ SF_vars(Day)

FairSpec == Spec /\ Fairness

-----------------------------------------------------------------------------
(* Properties *)

Pcs == {"idle", "scan", "create", "mint", "update", "summary", "outstanding", "invoice",
        "approve", "hook", "deactivate"} \cup DOMAIN OnError

Passes == {"none", "desk", "suspend", "restore", "terminate", "escalate", "revive"}

ProcStates ==
    [pc : Pcs, pass : Passes, todo : SUBSET Customers, seen : [Customers -> 0..MaxAge],
     cust : Customers \cup {None}, req : RequestIds \cup {None}, row : Rows, act : Actions]

\* The tables and the processes are well formed; a request row has a customer.
TypeOK ==
    /\ crm \in [Customers -> {"active", "suspended", "terminated"}]
    /\ suspendedFor \in [Customers -> 0..TerminateAfter]
    /\ radius \in [Customers -> {"online", "suspended", "deactivated"}]
    /\ unpaid \in [Customers -> SUBSET (0..MaxAge)]
    /\ ladder \in [Customers -> Actions]
    /\ requests \in [RequestIds -> Rows]
    /\ \A t \in RequestIds : requests[t].status = "absent" <=> requests[t].cust = None
    /\ wos \in [RequestIds -> {"none", "open", "approved"}]
    /\ procs \in [Procs -> ProcStates]
    /\ faults \in 0..MaxMishaps
    /\ crashes \in 0..MaxMishaps

\* No call failed and no replica stopped.
Smooth == faults = 0 /\ crashes = 0

\* RequestVoluntaryTermination and runAutoTermination refuse a customer who has
\* a request in progress.  Of passes that do not overlap, none leaves a customer
\* two of them, crashes included; the index alone allows four.
OneOpenRequest ==
    faults = 0 =>
        \A t, u \in RequestIds :
            requests[t].cust # None /\ requests[t].cust = requests[u].cust
            /\ {requests[t].status, requests[u].status} \cap Closed = {} => t = u

\* Five writers keep crm.customers and the RADIUS account of a customer in
\* agreement: between passes an active customer is online and a terminated one
\* deactivated.  (A suspended one may be online: the daily suspension loop
\* writes the CRM status only.)
ServedAsRecorded ==
    Quiet /\ Smooth =>
        \A c \in Customers :
            /\ crm[c] = "active" => radius[c] = "online"
            /\ crm[c] = "terminated" => radius[c] = "deactivated"

\* CompleteTerminationByWO closes the request before it terminates the
\* customer: between passes, the customers of completed requests are the
\* terminated ones, each by an approved work order of their own.
TerminatedByRequest ==
    Quiet /\ Smooth =>
        \A c \in Customers :
            crm[c] = "terminated" <=>
                \E t \in RequestIds : /\ requests[t].cust = c
                                      /\ requests[t].status = "completed"
                                      /\ wos[t] = "approved"

\* RunBillingTick works in order, each pass on its own listing: when the last
\* one is through, no active customer is past the window, every suspended one
\* is in debt, and those suspended for long have a termination request.
TickConverges ==
    \A p \in Tickers :
        Listed(p, "terminate") /\ faults = 0 /\ Unused # {} =>
            \A c \in Customers :
                /\ crm[c] = "active" => ~Overdue(c, SuspendAfter)
                /\ crm[c] = "suspended" => Overdue(c, 0)
                /\ LongSuspended(c) => Open(c)

\* A customer is suspended only with an invoice past one of the two windows
\* that allow it, the tick's or the suspension loop's, whichever loop does it.
SuspendedForDebt ==
    [][\A c \in Customers :
          crm[c] = "active" /\ crm'[c] = "suspended" =>
              Overdue(c, SuspendAfter) \/ Overdue(c, SoftGrace)]_vars

\* A customer who stays suspended and in debt ends up with a termination
\* request, after every crash and failure.
DebtorsAreTerminated ==
    \A c \in Customers :
        crm[c] = "suspended" /\ unpaid[c] # {} ~>
            crm[c] # "suspended" \/ unpaid[c] = {} \/ Open(c) \/ Unused = {}

=============================================================================
