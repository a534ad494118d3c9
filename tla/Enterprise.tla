------------------------------ MODULE Enterprise ------------------------------
(***************************************************************************)
(* enterprise: a BOQ from its first draft to the work orders, composed of  *)
(* its versions and approvals, its quotations and the orders that follow.  *)
(***************************************************************************)
EXTENDS Intercompany

vars == <<boqs, quotations, intercompany, req>>

Init ==
    /\ BoqInit
    /\ QuotationsInit
    /\ IntercompanyInit
    /\ req = [p \in Procs |-> Idle]

\* EditBOQAfterQuotation asks for a quotation of the version.
EditQuoted ==
    \E p \in Procs, v \in Versions :
        quotes[v] # <<>> /\ EditBOQAfterQuotation(p, v)

\* Bounds. New requests are about the newest version. A version gives way to
\* another before its quotations are answered and with its chain as named;
\* the other keeps to that too. Orders start with one version, when only the
\* approvals' hooks are still under way, and move while the BOQ and its
\* quotations rest.
OnNewest ==
    \A p \in Procs : Free(p) /\ ~Free(p)' => Of(p)' = Cardinality(Existing')
Unanswered ==
    /\ \A v \in Existing : \A n \in DOMAIN quotes[v] :
        StatusOf(<<v, n>>) \in {"issued", "superseded"}
    /\ \A p \in Procs : req[p].at \notin {"settle", "accept"}
AsNamed ==
    /\ \A i \in Rows : chain[i] # "absent" => i[3] = Named
    /\ \A p \in Procs : ~At(p, "reassign")
GivingWay == Cardinality(Existing) > 1 \/ \E p \in Procs : At(p, "clone")
OrdersRest ==
    /\ \A v \in Versions : customerPO[v] = "absent"
    /\ \A p \in Procs : ~At(p, "po")
NoNewRequest == \A p \in Procs : Free(p) => req'[p] = req[p]
Ordered ==
    /\ Existing = {1}
    /\ Unanswered
    /\ AsNamed
    /\ \A p \in Procs : Free(p) \/ At(p, "recognise")

Next ==
    \/ /\ \/ (BoqNext \/ EditQuoted) /\ UNCHANGED quotations
          \/ QuotationsNext
       /\ OnNewest
       /\ GivingWay' => (Unanswered /\ AsNamed)'
       /\ OrdersRest \/ NoNewRequest
       /\ UNCHANGED intercompany
    \/ /\ OrdersRest => Ordered
       /\ IntercompanyNext
       /\ UNCHANGED <<boqs, quotations>>
    \/ \E p \in Procs : RecognizeOnApproval(p) /\ UNCHANGED <<boqs, quotations>>
    \/ \E p \in Procs : AbandonBoq(p) /\ UNCHANGED <<quotations, intercompany>>

\* Rows written from copies under no lock: with two requests on one of them
\* an update is lost. Decisions overlap, each under its own lock, and so do
\* the requests for an accepted quotation's invoice and work order.
Clash(p, q) ==
    /\ ~Free(p) /\ ~Free(q)
    /\ Of(p) = Of(q)
    /\ \/ req[p].at \in Rewriting /\ req[q].at \in Rewriting \cup Deciding
       \/ req[p].at \in Ordering /\ req[q].at \in Ordering

OneRequestPerCopy == \A p, q \in Procs : p # q => ~Clash(p, q)

Spec == Init /\ [][Next /\ OneRequestPerCopy']_vars

-----------------------------------------------------------------------------
(* Properties *)

\* What a customer is quoted is what every step of the chain approved:
\* approvals do not carry over to another price, whatever the order and the
\* deaths of decisions, hooks and new versions. Versions an edit of which died
\* half-way are excused: their chain was not reset (README).
QuotedAsSigned ==
    \A v \in Versions \ CutOff : \A n \in DOMAIN quotes[v], s \in Steps :
        signed[<<v, s>>] = quotes[v][n].total

\* Approvers who decide at once, each under the lock of his own row, do not
\* overturn a verdict: a rejected version stays rejected, and an approved one
\* only gives way to another version.
VerdictStands ==
    [][\A v \in Versions :
        /\ boq[v].status = "rejected" => boq'[v].status = "rejected"
        /\ boq[v].status = "boq_approved" =>
              boq'[v].status \in {"boq_approved", "superseded"}]_vars

\* However often acceptance, its hook and the operators who repeat it run, at
\* once or after a death, a quotation has one invoice and one EWO at most; and
\* both, once everyone is done, if it stands accepted and nobody died.
Settled == deaths = <<>> /\ \A p \in Procs : Free(p)

AcceptedIsBilledOnce ==
    \A v \in Versions : \A n \in DOMAIN quotes[v] :
        LET q == <<v, n>>
        IN  /\ invoices[q] <= 1 /\ ewos[q] <= 1
            /\ Settled /\ Accepted(q) => invoices[q] = 1 /\ ewos[q] = 1

\* Work and revenue between subsidiaries follow orders: an IC-PO belongs to a
\* customer's order that was accepted, an executing side has one work order at
\* most, for an accepted IC-PO, and the ledger books on acceptance of nothing
\* less. Once everyone is done and nobody died, each provider has its IC-PO,
\* and one who accepted by hand its work order.
WorkIsOrdered ==
    \A o \in ICPOs :
        /\ icpo[o] # "absent" => customerPO[o[1]] = "accepted"
        /\ ewoY[o] <= 1
        /\ ewoY[o] = 1 \/ ledger[o] = "ic_po_accept" => icpo[o] = "accepted"
        /\ Settled /\ customerPO[o[1]] = "accepted" => icpo[o] # "absent"
        /\ Settled /\ icpo[o] = "accepted" /\ o[2] \notin AutoAccept => ewoY[o] = 1

\* resetApprovalChain's comment: the BOQ stays in approval, only the chain
\* underneath is rebuilt. Once no request is under way someone can decide.
ChainIsRebuilt ==
    \A v \in Versions :
        boq[v].status = "in_approval" /\ (\A p \in Procs : Free(p)) => Pending(v) # {}

=============================================================================
