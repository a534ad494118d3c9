------------------------------ MODULE FieldWork ------------------------------
(***************************************************************************)
(* field: work orders (WOs), their sign-off documents (BASTs), the NOC's   *)
(* verdict on them, and what an approval sets off: for an installation the *)
(* customer's account and status, for a termination billing's callback.    *)
(*                                                                         *)
(* Abstraction: a WO's crew, date, priority and notes are left  *)
(* out, and so is the remote sign-off's code, which no step reads.  A      *)
(* termination request is known by its WO.                                 *)
(***************************************************************************)
EXTENDS Radius

CONSTANTS WOs, Basts

VARIABLES
    wo,             \* WO -> row, None before the INSERT
    bast,           \* BAST -> row, None before the INSERT
    request,        \* termination WO -> status of its request, else None
    signed,         \* history: the WOs a BAST of which was approved
    cut             \* history: those whose approval was left half done

field == <<wo, bast, request>>
history == <<signed, cut>>

WOStatuses ==
    {"unassigned", "assigned", "dispatched", "in_progress", "rescheduled",
     "pending_noc_verification", "completed", "cancelled"}

WORows == [type : {"install", "termination"}, of : Customers, status : WOStatuses]

NOCStatuses == {"pending", "approved", "rejected"}

BastRows == [on : WOs, noc : NOCStatuses]

RequestStatuses == {"wo_created", "completed", "cancelled"}

ASSUME NoneIsNoRow ==
    None \notin WORows /\ None \notin BastRows /\ None \notin RequestStatuses

FieldTypeOK ==
    /\ wo \in [WOs -> WORows \cup {None}]
    /\ bast \in [Basts -> BastRows \cup {None}]
    /\ request \in [WOs -> RequestStatuses \cup {None}]
    /\ signed \subseteq WOs
    /\ cut \subseteq signed

FieldInit ==
    /\ wo = [w \in WOs |-> None]
    /\ bast = [b \in Basts |-> None]
    /\ request = [w \in WOs |-> None]
    /\ signed = {}
    /\ cut = {}

-----------------------------------------------------------------------------
(* Opening work orders *)

InsertWO(w, type, c) ==
    /\ wo[w] = None
    /\ wo' = [wo EXCEPT ![w] = [type |-> type, of |-> c, status |-> "unassigned"]]

\* Nothing looks for an earlier WO of the order. The temporary account is
\* provisioned on the way; its failure is ignored.
CreateWOFromOrder(w, c) ==
    /\ order[c] # None
    /\ InsertWO(w, "install", c)
    /\ Provision(c) \/ UNCHANGED radius
    /\ UNCHANGED <<sales, bast, request, history, req>>

\* Billing's termination request, and the WO it mints for it.
CreateTerminationWO(w, c) ==
    /\ customer[c] \in CustomerStatuses \ {"terminated"}
    /\ ~ \E v \in WOs : request[v] = "wo_created" /\ wo[v].of = c
    /\ InsertWO(w, "termination", c)
    /\ request' = [request EXCEPT ![w] = "wo_created"]
    /\ UNCHANGED <<sales, radius, bast, history, req>>

CancelTerminationRequest(w) ==
    /\ request[w] = "wo_created"
    /\ request' = [request EXCEPT ![w] = "cancelled"]
    /\ UNCHANGED <<sales, radius, wo, bast, history, req>>

-----------------------------------------------------------------------------
(* Dispatch: each handler decides on a copy of the row and then writes the  *)
(* status, alone or with the rest of the copy                               *)

ValidTransitions ==
    [ unassigned |-> {"assigned", "cancelled", "rescheduled"},
      assigned |-> {"dispatched", "in_progress", "unassigned", "cancelled",
                    "rescheduled"},
      dispatched |-> {"in_progress", "cancelled", "rescheduled"},
      in_progress |-> {"pending_noc_verification", "rescheduled", "cancelled"},
      pending_noc_verification |-> {"completed", "in_progress"},
      rescheduled |-> {"assigned", "unassigned", "cancelled"},
      completed |-> {},
      cancelled |-> {} ]

Decide(p, w, status) ==
    /\ Begin(p, "writeWO", w, status)
    /\ UNCHANGED <<sales, radius, field, history>>

UpdateStatus(p, w) ==
    /\ wo[w] # None
    /\ \E s \in ValidTransitions[wo[w].status] : Decide(p, w, s)

\* The crew is replaced in a transaction first, whatever the status.
AssignTechnicians(p, w) ==
    /\ wo[w] # None
    /\ wo[w].status \in {"unassigned", "rescheduled"}
    /\ Decide(p, w, "assigned")

RescheduleWO(p, w) ==
    /\ wo[w] # None
    /\ wo[w].status \in {"assigned", "dispatched", "in_progress", "rescheduled"}
    /\ Decide(p, w, "rescheduled")

\* Sets the team and writes the copy back, status included.
RouteToTeam(p, w) ==
    /\ wo[w] # None
    /\ Decide(p, w, wo[w].status)

SetWOStatus(w, status) == wo' = [wo EXCEPT ![w].status = status]

WriteWO(p) ==
    /\ At(p, "writeWO")
    /\ SetWOStatus(req[p].on, req[p].arg)
    /\ Return(p)
    /\ UNCHANGED <<sales, radius, bast, request, history>>

-----------------------------------------------------------------------------
(* Sign-off *)

ActiveBasts(w) ==
    {b \in Basts : bast[b] # None /\ bast[b].on = w /\ bast[b].noc # "rejected"}

\* Refused as well while a required checklist item has no response.
SubmitBAST(p, w) ==
    /\ wo[w] # None
    /\ wo[w].status = "in_progress"
    /\ ActiveBasts(w) = {}
    /\ Begin(p, "createBAST", w, None)
    /\ UNCHANGED <<sales, radius, field, history>>

\* (defect) without the partial unique index
OneActivePerWO_unindexed(w, b) == TRUE

\* The partial unique index refuses a second active BAST of the WO.
OneActivePerWO(w, b) == ActiveBasts(w) \subseteq {b}

CreateBAST(p) ==
    /\ At(p, "createBAST")
    /\ \E b \in Basts :
        /\ bast[b] = None
        /\ OneActivePerWO(req[p].on, b)
        /\ bast' = [bast EXCEPT ![b] = [on |-> req[p].on, noc |-> "pending"]]
    /\ Goto(p, "awaitNOC")
    /\ UNCHANGED <<sales, radius, wo, request, history>>

AwaitNOC(p) ==
    /\ At(p, "awaitNOC")
    /\ SetWOStatus(req[p].on, "pending_noc_verification")
    /\ Return(p)
    /\ UNCHANGED <<sales, radius, bast, request, history>>

-----------------------------------------------------------------------------
(* VerifyBAST *)

VerifyBAST(p, b) ==
    /\ bast[b] # None
    /\ bast[b].noc = "pending"
    /\ \/ Begin(p, "paymentGate", b, "approved")
       \/ Begin(p, "markVerified", b, "rejected")
    /\ UNCHANGED <<sales, radius, field, history>>

WOOf(p) == bast[req[p].on].on
CustomerOf(p) == wo[WOOf(p)].of

\* The gate asks billing about the order; the two kinds of WO both carry it.
PaymentGate(p) ==
    /\ At(p, "paymentGate")
    /\ IF IsOrderOTCPaid(CustomerOf(p)) THEN Goto(p, "markVerified") ELSE Return(p)
    /\ UNCHANGED <<sales, radius, field, history>>

\* By id, whatever the verdict is by now; the index refuses to revive a
\* rejected BAST beside an active one.
MarkVerified(p) ==
    /\ At(p, "markVerified")
    /\ LET b == req[p].on
       IN  /\ req[p].arg # "rejected" => OneActivePerWO(bast[b].on, b)
           /\ bast' = [bast EXCEPT ![b].noc = req[p].arg]
           /\ signed' = IF req[p].arg = "approved"
                        THEN signed \cup {bast[b].on} ELSE signed
    /\ Goto(p, "driveWO")
    /\ UNCHANGED <<sales, radius, wo, request, cut>>

\* (defect) the hooks run whatever the verdict
DriveWO_anyVerdict(p) ==
    /\ At(p, "driveWO")
    /\ SetWOStatus(WOOf(p), IF req[p].arg = "rejected" THEN "in_progress" ELSE "completed")
    /\ Goto(p, IF wo[WOOf(p)].type = "install" THEN "provision" ELSE "completeRequest")
    /\ UNCHANGED <<sales, radius, bast, request, history>>

\* (defect) the hooks are skipped when the WO has left the NOC's queue
DriveWO_onlyQueued(p) ==
    /\ At(p, "driveWO")
    /\ IF wo[WOOf(p)].status # "pending_noc_verification"
       THEN Return(p) /\ UNCHANGED wo
       ELSE IF req[p].arg = "rejected"
       THEN SetWOStatus(WOOf(p), "in_progress") /\ Return(p)
       ELSE /\ SetWOStatus(WOOf(p), "completed")
            /\ Goto(p, IF wo[WOOf(p)].type = "install"
                       THEN "provision" ELSE "completeRequest")
    /\ UNCHANGED <<sales, radius, bast, request, history>>

\* Drives the WO, then reads it again for the hook its type calls for.
DriveWO(p) ==
    /\ At(p, "driveWO")
    /\ IF req[p].arg = "rejected"
       THEN SetWOStatus(WOOf(p), "in_progress") /\ Return(p)
       ELSE /\ SetWOStatus(WOOf(p), "completed")
            /\ Goto(p, IF wo[WOOf(p)].type = "install"
                       THEN "provision" ELSE "completeRequest")
    /\ UNCHANGED <<sales, radius, bast, request, history>>

-----------------------------------------------------------------------------
(* The approval's hooks *)

\* (defect) the account is left temporary
ProvisionAccount_only(p) ==
    /\ At(p, "provision")
    /\ Provision(CustomerOf(p))
    /\ Goto(p, "setActive")
    /\ UNCHANGED <<sales, field, history>>

ProvisionAccount(p) ==
    /\ At(p, "provision")
    /\ Provision(CustomerOf(p))
    /\ Goto(p, "promote")
    /\ UNCHANGED <<sales, field, history>>

PromoteAccount(p) ==
    /\ At(p, "promote")
    /\ PromoteToPermanent(CustomerOf(p))
    /\ Goto(p, "setActive")
    /\ UNCHANGED <<sales, field, history>>

\* (defect) without the WHERE
NotTerminated_always(c) == TRUE

NotTerminated(c) == customer[c] # "terminated"

\* "WHERE status <> 'terminated'"; no row is an error to the caller.
SetCustomerActive(p) ==
    /\ At(p, "setActive")
    /\ LET c == CustomerOf(p)
       IN  customer' = IF NotTerminated(c)
                       THEN [customer EXCEPT ![c] = "active"] ELSE customer
    /\ Return(p)
    /\ UNCHANGED <<lead, docs, converted, order, otc, radius, field, history>>

\* Billing's callback: skipped when the request is already terminal.
CompleteTermination(p) ==
    /\ At(p, "completeRequest")
    /\ IF request[WOOf(p)] = "wo_created"
       THEN /\ request' = [request EXCEPT ![WOOf(p)] = "completed"]
            /\ Goto(p, "terminate")
       ELSE Return(p) /\ UNCHANGED request
    /\ UNCHANGED <<sales, radius, wo, bast, history>>

\* A failure is logged and the callback goes on.
TerminateCustomer(p) ==
    /\ At(p, "terminate")
    /\ \/ customer' = [customer EXCEPT ![CustomerOf(p)] = "terminated"]
       \/ UNCHANGED customer
    /\ Goto(p, "deactivate")
    /\ UNCHANGED <<lead, docs, converted, order, otc, radius, field, history>>

DeactivateAccount(p) ==
    /\ At(p, "deactivate")
    /\ Deactivate(CustomerOf(p)) \/ UNCHANGED radius
    /\ Return(p)
    /\ UNCHANGED <<sales, field, history>>

-----------------------------------------------------------------------------

\* An error, or a crash, between two statements of any handler.
Fail(p) ==
    /\ Abandon(p)
    /\ cut' = IF \/ At(p, "driveWO") /\ req[p].arg = "approved"
                 \/ req[p].at \in {"provision", "promote", "setActive",
                                   "completeRequest", "terminate", "deactivate"}
              THEN cut \cup {WOOf(p)} ELSE cut
    /\ UNCHANGED <<sales, radius, field, signed>>

FieldNext ==
    \/ \E w \in WOs, c \in Customers :
        CreateWOFromOrder(w, c) \/ CreateTerminationWO(w, c)
    \/ \E w \in WOs : CancelTerminationRequest(w)
    \/ \E p \in Procs, w \in WOs :
        \/ UpdateStatus(p, w)
        \/ AssignTechnicians(p, w)
        \/ RescheduleWO(p, w)
        \/ RouteToTeam(p, w)
        \/ SubmitBAST(p, w)
    \/ \E p \in Procs, b \in Basts : VerifyBAST(p, b)
    \/ \E p \in Procs :
        \/ WriteWO(p) \/ CreateBAST(p) \/ AwaitNOC(p)
        \/ PaymentGate(p) \/ MarkVerified(p) \/ DriveWO(p)
        \/ ProvisionAccount(p) \/ PromoteAccount(p) \/ SetCustomerActive(p)
        \/ CompleteTermination(p) \/ TerminateCustomer(p) \/ DeactivateAccount(p)
        \/ Fail(p)

=============================================================================
