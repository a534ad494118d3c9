----------------------------- MODULE Intercompany -----------------------------
(***************************************************************************)
(* enterprise: the customer's purchase order for an approved BOQ, the      *)
(* orders between subsidiaries (IC-PO) it is split into, the work orders   *)
(* of the executing side (EWO-Y) and the ledger of internal transactions.  *)
(*                                                                         *)
(* Abstraction: a BOQ version has one line for each provider that is not   *)
(* the commercial owner; an IC-PO, its EWO-Y and the line's ledger row are *)
(* known by the version and the provider.                                  *)
(***************************************************************************)
EXTENDS Quotations

CONSTANTS
    Providers,      \* executing subsidiaries of the BOQ's lines
    AutoAccept      \* those whose pair with the owner accepts by itself

ASSUME IntercompanyAssumption == AutoAccept \subseteq Providers

VARIABLES
    customerPO,     \* version -> status; a bound: one order per version
    icpo,           \* <<version, provider>> -> status
    ewoY,           \* <<version, provider>> -> EWO-Y rows
    ledger          \* <<version, provider>> -> source_event, "none" without a row

intercompany == <<customerPO, icpo, ewoY, ledger>>

ICPOs == Versions \X Providers

CustomerPOStatuses == {"received", "validated", "accepted", "rejected", "cancelled"}
ICPOStatuses == {"draft", "issued", "accepted", "rejected", "cancelled"}

IntercompanyTypeOK ==
    /\ customerPO \in [Versions -> CustomerPOStatuses \cup {"absent"}]
    /\ icpo \in [ICPOs -> ICPOStatuses \cup {"absent"}]
    /\ ewoY \in [ICPOs -> Nat]
    /\ ledger \in [ICPOs -> {"none", "boq_approval", "ic_po_accept"}]

IntercompanyInit ==
    /\ customerPO = [v \in Versions |-> "absent"]
    /\ icpo = [o \in ICPOs |-> "absent"]
    /\ ewoY = [o \in ICPOs |-> 0]
    /\ ledger = [o \in ICPOs |-> "none"]

\* A line has one ledger row: an insert for a line that has one does nothing.
Recognise(orders, source) ==
    ledger' = [o \in ICPOs |->
        IF o \in orders /\ ledger[o] = "none" THEN source ELSE ledger[o]]

-----------------------------------------------------------------------------
(* The approval's last hook *)

RecognizeOnApproval(p) ==
    /\ At(p, "recognise")
    /\ Recognise({Of(p)} \X Providers, "boq_approval")
    /\ Return(p)
    /\ UNCHANGED <<customerPO, icpo, ewoY>>

-----------------------------------------------------------------------------
(* The customer's order *)

UploadCustomerPO(p, v) ==
    /\ boq[v].status = "boq_approved"
    /\ customerPO[v] = "absent"
    /\ Begin(p, "po", <<v>>, "received")
    /\ UNCHANGED intercompany

\* Each transition is checked on a copy, which is then written.
MovePO(p, v, from, to) ==
    /\ customerPO[v] \in from
    /\ Begin(p, "po", <<v>>, to)
    /\ UNCHANGED intercompany

ValidateCustomerPO(p, v) == MovePO(p, v, {"received"}, "validated")
AcceptCustomerPO(p, v) == MovePO(p, v, {"validated"}, "accepted")
RejectCustomerPO(p, v) == MovePO(p, v, {"received", "validated"}, "rejected")
CancelCustomerPO(p, v) == MovePO(p, v, {"received", "validated"}, "cancelled")

WritePO(p) ==
    /\ At(p, "po")
    /\ customerPO' = [customerPO EXCEPT ![Of(p)] = req[p].arg]
    /\ IF req[p].arg = "accepted" THEN Hold(p, Providers, "split") ELSE Return(p)
    /\ UNCHANGED <<icpo, ewoY, ledger>>

\* AcceptCustomerPO drafts an IC-PO for one provider after the other; one that
\* the policy accepts is issued and accepted before the next is drafted.
DraftICPO(p) ==
    /\ At(p, "split")
    /\ \E s \in req[p].got :
        /\ icpo' = [icpo EXCEPT ![<<Of(p), s>>] = "draft"]
        /\ req' = [req EXCEPT ![p] =
              [at |-> IF s \in AutoAccept THEN "autoIssue" ELSE "split",
               on |-> @.on, got |-> @.got \ {s}, arg |-> <<Of(p), s>>]]
    /\ UNCHANGED <<customerPO, ewoY, ledger>>

AllDrafted(p) ==
    /\ At(p, "split")
    /\ req[p].got = {}
    /\ Return(p)
    /\ UNCHANGED intercompany

AutoIssue(p) ==
    /\ At(p, "autoIssue")
    /\ icpo' = [icpo EXCEPT ![req[p].arg] = "issued"]
    /\ Goto(p, "autoAccept")
    /\ UNCHANGED <<customerPO, ewoY, ledger>>

AutoAcceptICPO(p) ==
    /\ At(p, "autoAccept")
    /\ icpo' = [icpo EXCEPT ![req[p].arg] = "accepted"]
    /\ Goto(p, "autoRecognise")
    /\ UNCHANGED <<customerPO, ewoY, ledger>>

\* No EWO-Y is spawned on this path.
AutoRecognise(p) ==
    /\ At(p, "autoRecognise")
    /\ Recognise({req[p].arg}, "ic_po_accept") \/ UNCHANGED ledger
    /\ Goto(p, "split")
    /\ UNCHANGED <<customerPO, icpo, ewoY>>

-----------------------------------------------------------------------------
(* Orders between subsidiaries *)

MoveICPO(p, o, from, to) ==
    /\ icpo[o] \in from
    /\ Begin(p, "icpo", o, to)
    /\ UNCHANGED intercompany

\* (defect) an accepted order can still be rejected
RejectIntercompanyPO_late(p, o) == MoveICPO(p, o, {"issued", "accepted"}, "rejected")

IssueIntercompanyPO(p, o) == MoveICPO(p, o, {"draft"}, "issued")
AcceptIntercompanyPO(p, o) == MoveICPO(p, o, {"issued"}, "accepted")
RejectIntercompanyPO(p, o) == MoveICPO(p, o, {"issued"}, "rejected")
CancelIntercompanyPO(p, o) == MoveICPO(p, o, {"draft", "issued"}, "cancelled")

WriteICPO(p) ==
    /\ At(p, "icpo")
    /\ icpo' = [icpo EXCEPT ![req[p].on] = req[p].arg]
    /\ IF req[p].arg = "accepted" THEN Goto(p, "recogniseICPO") ELSE Return(p)
    /\ UNCHANGED <<customerPO, ewoY, ledger>>

\* Best effort: whether the ledger took the row or not, the EWO-Y is next.
RecognizeOnICPOAccept(p) ==
    /\ At(p, "recogniseICPO")
    /\ \/ Recognise({req[p].on}, "ic_po_accept")
       \/ UNCHANGED ledger
    /\ Goto(p, "spawn")
    /\ UNCHANGED <<customerPO, icpo, ewoY>>

FindEWOY(p) ==
    /\ At(p, "spawn")
    /\ IF ewoY[req[p].on] = 0 THEN Goto(p, "insertY") ELSE Return(p)
    /\ UNCHANGED intercompany

\* Nothing but the check above keeps a second EWO-Y out.
AutoSpawnEWOY(p) ==
    /\ At(p, "insertY")
    /\ ewoY' = [ewoY EXCEPT ![req[p].on] = @ + 1]
    /\ Return(p)
    /\ UNCHANGED <<customerPO, icpo, ledger>>

IntercompanyNext ==
    \E p \in Procs :
        \/ \E v \in Versions :
            \/ UploadCustomerPO(p, v) \/ ValidateCustomerPO(p, v)
            \/ AcceptCustomerPO(p, v)
            \/ RejectCustomerPO(p, v) \/ CancelCustomerPO(p, v)
        \/ \E o \in ICPOs :
            \/ IssueIntercompanyPO(p, o) \/ AcceptIntercompanyPO(p, o)
            \/ RejectIntercompanyPO(p, o) \/ CancelIntercompanyPO(p, o)
        \/ WritePO(p) \/ DraftICPO(p) \/ AllDrafted(p)
        \/ AutoIssue(p) \/ AutoAcceptICPO(p) \/ AutoRecognise(p)
        \/ WriteICPO(p) \/ RecognizeOnICPOAccept(p)
        \/ FindEWOY(p) \/ AutoSpawnEWOY(p)

\* Requests that move a customer's order or one of its IC-POs from copies
Ordering ==
    {"po", "split", "autoIssue", "autoAccept", "autoRecognise",
     "icpo", "recogniseICPO", "spawn", "insertY"}

=============================================================================
