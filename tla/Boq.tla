--------------------------------- MODULE Boq ---------------------------------
(***************************************************************************)
(* enterprise: the versions of one bill of quantities (BOQ), their lines,  *)
(* and the chain of approvals a submitted version goes through.            *)
(*                                                                         *)
(* Abstraction: the lines of a version are their total price. A row of an  *)
(* approval chain is known by its version, its step and the user it is     *)
(* assigned to, which the table keeps unique.                              *)
(***************************************************************************)
EXTENDS Requests, Naturals, FiniteSets, Sequences

CONSTANTS
    Versions,       \* version_no of the BOQ's rows, 1 .. n
    Steps,          \* step_no of the approval template's members
    Users,          \* who a step may be assigned to
    Named,          \* the user the template names for a step
    Sequential,     \* the template's mode: in step order, or in parallel
    Prices,         \* totals the lines may come to
    MaxDeaths       \* a bound: requests that die between two statements

ASSUME BoqAssumption ==
    /\ Versions \subseteq Nat \ {0}
    /\ Steps \subseteq Nat /\ Steps # {}
    /\ Named \in Users
    /\ Sequential \in BOOLEAN /\ MaxDeaths \in Nat
    /\ None \notin Prices

Rows == Versions \X Steps \X Users

VARIABLES
    boq,        \* version -> header: its status and sell_total
    lines,      \* version -> price of its lines, None without lines
    chain,      \* approval row -> status, "absent" before it is inserted
    signed,     \* history: version -> what each step last approved
    deaths      \* history: the version each death was about, and whether it
                \* cut an edit off between its line and the new chain

boqs == <<boq, lines, chain, signed, deaths>>

NoBOQ == [status |-> "absent", total |-> None]

BOQStatuses ==
    {"draft", "in_approval", "boq_approved", "rejected", "revision_draft", "superseded"}

InstanceStatuses == {"pending", "approved", "rejected", "superseded_reset"}

BoqTypeOK ==
    /\ boq \in [Versions -> [status : BOQStatuses \cup {"absent"}, total : Prices \cup {None}]]
    /\ lines \in [Versions -> Prices \cup {None}]
    /\ chain \in [Rows -> InstanceStatuses \cup {"absent"}]
    /\ signed \in [Versions \X Steps -> Prices \cup {None}]
    /\ deaths \in Seq(Versions \X BOOLEAN) /\ Len(deaths) <= MaxDeaths

BoqInit ==
    /\ boq = [v \in Versions |-> NoBOQ]
    /\ lines = [v \in Versions |-> None]
    /\ chain = [i \in Rows |-> "absent"]
    /\ signed = [s \in Versions \X Steps |-> None]
    /\ deaths = <<>>

Chain(v) == {i \in Rows : i[1] = v /\ chain[i] # "absent"}

\* The version a request is about; its row is <<v>>, <<v, quotation>> or an
\* approval row
Of(p) == req[p].on[1]

SetStatus(v, status) == boq' = [boq EXCEPT ![v].status = status]

-----------------------------------------------------------------------------
(* Drafting *)

CreateBOQ ==
    /\ boq[1] = NoBOQ
    /\ SetStatus(1, "draft")
    /\ UNCHANGED <<lines, chain, signed, deaths, req>>

Unlocked == {"draft", "revision_draft"}

\* Lines are added and deleted in a draft only; a price may also be changed
\* while the chain decides.
EditLines(p, v, price) ==
    /\ \/ boq[v].status \in Unlocked
       \/ boq[v].status = "in_approval" /\ price # None
    /\ Begin(p, "line", <<v>>, price)
    /\ UNCHANGED boqs

WriteLine(p) ==
    /\ At(p, "line")
    /\ lines' = [lines EXCEPT ![Of(p)] = req[p].arg]
    /\ Goto(p, "header")
    /\ UNCHANGED <<boq, chain, signed, deaths>>

\* (defect) a price changed in approval leaves the approvals given
RecomputeHeader_keepsChain(p) ==
    /\ At(p, "header")
    /\ boq' = [boq EXCEPT ![Of(p)].total = lines[Of(p)]]
    /\ Return(p)
    /\ UNCHANGED <<lines, chain, signed, deaths>>

\* recomputeBOQHeader writes the whole row from the copy the request read
RecomputeHeader(p) ==
    LET v == Of(p)
    IN  /\ At(p, "header")
        /\ boq' = [boq EXCEPT ![v].total = lines[v]]
        /\ IF boq[v].status = "in_approval" THEN Goto(p, "reset") ELSE Return(p)
        /\ UNCHANGED <<lines, chain, signed, deaths>>

\* resetApprovalChain: every row in turn, then a fresh chain in one insert.
ResetRow(p) ==
    /\ At(p, "reset")
    /\ \E i \in Chain(Of(p)) :
        /\ chain[i] # "superseded_reset"
        /\ chain' = [chain EXCEPT ![i] = "superseded_reset"]
    /\ UNCHANGED <<boq, lines, signed, deaths, req>>

Fresh(v) == {v} \X Steps \X {Named}

\* The insert fails as a whole when a user already has a row for the step.
InsertChain(v) ==
    chain' = IF \A i \in Fresh(v) : chain[i] = "absent"
             THEN [i \in Rows |-> IF i \in Fresh(v) THEN "pending" ELSE chain[i]]
             ELSE chain

\* When the insert fails the edit only logs it.
RebuildChain(p) ==
    LET v == Of(p)
    IN  /\ At(p, "reset")
        /\ \A i \in Chain(v) : chain[i] = "superseded_reset"
        /\ InsertChain(v)
        /\ Return(p)
        /\ UNCHANGED <<boq, lines, signed, deaths>>

\* The lines are checked and the copy is written as in_approval.
SubmitBOQ(p, v) ==
    /\ boq[v].status \in Unlocked
    /\ lines[v] # None
    /\ Begin(p, "submit", <<v>>, None)
    /\ UNCHANGED boqs

WriteSubmitted(p) ==
    /\ At(p, "submit")
    /\ SetStatus(Of(p), "in_approval")
    /\ Goto(p, "chain")
    /\ UNCHANGED <<lines, chain, signed, deaths>>

CreateBatch(p) ==
    /\ At(p, "chain")
    /\ InsertChain(Of(p))
    /\ Return(p)
    /\ UNCHANGED <<boq, lines, signed, deaths>>

-----------------------------------------------------------------------------
(* Decisions, each under an advisory lock on its row *)

Deciding ==
    {"approve", "count", "approved", "older", "autoQuote", "insertQuote",
     "supersedeQuote", "recognise", "reject", "rejected", "list", "peers"}

\* (defect) decisions take no lock
LockFree_never(i) == TRUE

\* The lock is the connection's: it goes when the request ends, however it does.
LockFree(i) == \A q \in Procs : ~(req[q].on = i /\ req[q].at \in Deciding)

SequentialReady(i) ==
    Sequential => \A c \in Chain(i[1]) : c[2] < i[2] => chain[c] = "approved"

\* The assignee of a row that is approved already goes through it again.
ApproveStep(p, i) ==
    /\ LockFree(i)
    /\ boq[i[1]].status = "in_approval"
    /\ SequentialReady(i)
    /\ chain[i] \in {"pending", "approved"}
    /\ Begin(p, "approve", i, boq[i[1]].total)
    /\ UNCHANGED boqs

WriteApproved(p) ==
    LET i == req[p].on
    IN  /\ At(p, "approve")
        /\ chain' = [chain EXCEPT ![i] = "approved"]
        /\ signed' = [signed EXCEPT ![<<i[1], i[2]>>] = req[p].arg]
        /\ Goto(p, "count")
        /\ UNCHANGED <<boq, lines, deaths>>

AllApproved(v) == \A i \in Chain(v) : chain[i] = "approved"

CountChain(p) ==
    /\ At(p, "count")
    /\ IF AllApproved(Of(p)) THEN Goto(p, "approved") ELSE Return(p)
    /\ UNCHANGED boqs

\* The header is written from the copy read before the row was approved.
MarkApproved(p) ==
    /\ At(p, "approved")
    /\ boq' = [boq EXCEPT ![Of(p)] =
                  [status |-> "boq_approved", total |-> req[p].arg]]
    /\ Goto(p, "older")
    /\ UNCHANGED <<lines, chain, signed, deaths>>

Older(v) == {w \in Versions : w < v /\ boq[w].status = "boq_approved"}

SupersedePrior(p) ==
    /\ At(p, "older")
    /\ \E w \in Older(Of(p)) : SetStatus(w, "superseded")
    /\ UNCHANGED <<lines, chain, signed, deaths, req>>

\* The approval's hooks are the quotation's and the ledger's.
PriorSuperseded(p) ==
    /\ At(p, "older")
    /\ Older(Of(p)) = {}
    /\ Goto(p, "autoQuote")
    /\ UNCHANGED boqs

RejectStep(p, i) ==
    /\ LockFree(i)
    /\ boq[i[1]].status = "in_approval"
    /\ chain[i] = "pending"
    /\ Begin(p, "reject", i, boq[i[1]].total)
    /\ UNCHANGED boqs

WriteRejected(p) ==
    /\ At(p, "reject")
    /\ chain' = [chain EXCEPT ![req[p].on] = "rejected"]
    /\ Goto(p, "rejected")
    /\ UNCHANGED <<boq, lines, signed, deaths>>

MarkRejected(p) ==
    /\ At(p, "rejected")
    /\ boq' = [boq EXCEPT ![Of(p)] =
                  [status |-> "rejected", total |-> req[p].arg]]
    /\ Goto(p, "list")
    /\ UNCHANGED <<lines, chain, signed, deaths>>

Pending(v) == {i \in Chain(v) : chain[i] = "pending"}

\* Rows listed as pending are superseded one by one, from the list.
ListPeers(p) ==
    /\ At(p, "list")
    /\ Hold(p, Pending(Of(p)) \ {req[p].on}, "peers")
    /\ UNCHANGED boqs

SupersedePeer(p) ==
    /\ At(p, "peers")
    /\ \E i \in req[p].got :
        /\ chain' = [chain EXCEPT ![i] = "superseded_reset"]
        /\ Hold(p, req[p].got \ {i}, "peers")
    /\ UNCHANGED <<boq, lines, signed, deaths>>

PeersSuperseded(p) ==
    /\ At(p, "peers")
    /\ req[p].got = {}
    /\ Return(p)
    /\ UNCHANGED boqs

\* A pending row goes to another user, unless that user has one already.
ReassignStep(p, i, u) ==
    /\ chain[i] = "pending"
    /\ u # i[3]
    /\ Begin(p, "reassign", i, u)
    /\ UNCHANGED boqs

WriteReassigned(p) ==
    LET i == req[p].on
        j == <<i[1], i[2], req[p].arg>>
    IN  /\ At(p, "reassign")
        /\ chain' = IF chain[j] = "absent"
                    THEN [chain EXCEPT ![i] = "absent", ![j] = chain[i]]
                    ELSE chain
        /\ Return(p)
        /\ UNCHANGED <<boq, lines, signed, deaths>>

-----------------------------------------------------------------------------
(* A new version *)

Existing == {w \in Versions : boq[w] # NoBOQ}
NextVersion == 1 + Cardinality(Existing)

\* StartRevision of a rejected version; EditBOQAfterQuotation of an approved
\* one that was quoted, which is superseded once its copy is made.
Revise(p, v, from, then) ==
    /\ boq[v].status = from
    /\ NextVersion \in Versions
    /\ Begin(p, "clone", <<v>>, [version |-> NextVersion, then |-> then])
    /\ UNCHANGED boqs

StartRevision(p, v) == Revise(p, v, "rejected", "cascade")
EditBOQAfterQuotation(p, v) == Revise(p, v, "boq_approved", "replaced")

\* The version's number is unique: a second clone of the same number fails.
CreateClone(p) ==
    LET v == Of(p)
        w == req[p].arg.version
    IN  /\ At(p, "clone")
        /\ IF boq[w] = NoBOQ
           THEN /\ boq' = [boq EXCEPT ![w] = [boq[v] EXCEPT !.status = "revision_draft"]]
                /\ Goto(p, "cloneLines")
           ELSE Return(p) /\ UNCHANGED boq
        /\ UNCHANGED <<lines, chain, signed, deaths>>

CloneLines(p) ==
    /\ At(p, "cloneLines")
    /\ lines' = [lines EXCEPT ![req[p].arg.version] = lines[Of(p)]]
    /\ Goto(p, req[p].arg.then)
    /\ UNCHANGED <<boq, chain, signed, deaths>>

SupersedeEdited(p) ==
    /\ At(p, "replaced")
    /\ SetStatus(Of(p), "superseded")
    /\ Goto(p, "cascade")
    /\ UNCHANGED <<lines, chain, signed, deaths>>

\* cascadeApprovalChainReset: what is still pending on the old version
CascadeReset(p) ==
    /\ At(p, "cascade")
    /\ Hold(p, Pending(Of(p)), "peers")
    /\ UNCHANGED boqs

-----------------------------------------------------------------------------

\* The request dies. An edit that dies past its line leaves the chain as it
\* was, to decide on another price.
AbandonBoq(p) ==
    /\ Len(deaths) < MaxDeaths
    /\ Abandon(p)
    /\ deaths' = Append(deaths, <<Of(p), req[p].at \in {"header", "reset"}>>)
    /\ UNCHANGED <<boq, lines, chain, signed>>

CutOff == {v \in Versions : \E d \in DOMAIN deaths : deaths[d] = <<v, TRUE>>}

BoqNext ==
    \/ CreateBOQ
    \/ \E p \in Procs :
        \/ \E v \in Versions :
            \/ \E price \in Prices \cup {None} : EditLines(p, v, price)
            \/ SubmitBOQ(p, v) \/ StartRevision(p, v)
        \/ \E i \in Rows :
            \/ ApproveStep(p, i) \/ RejectStep(p, i)
            \/ \E u \in Users : ReassignStep(p, i, u)
        \/ WriteLine(p) \/ RecomputeHeader(p) \/ ResetRow(p) \/ RebuildChain(p)
        \/ WriteSubmitted(p) \/ CreateBatch(p)
        \/ WriteApproved(p) \/ CountChain(p) \/ MarkApproved(p)
        \/ SupersedePrior(p) \/ PriorSuperseded(p)
        \/ WriteRejected(p) \/ MarkRejected(p) \/ ListPeers(p)
        \/ SupersedePeer(p) \/ PeersSuperseded(p)
        \/ WriteReassigned(p)
        \/ CreateClone(p) \/ CloneLines(p)
        \/ SupersedeEdited(p) \/ CascadeReset(p)

\* Requests that write a version's header, lines or chain from copies, with no
\* lock: two of them, or one and a decision, lose an update.
Rewriting ==
    {"line", "header", "reset", "submit", "chain", "reassign",
     "clone", "cloneLines", "replaced", "cascade"}

=============================================================================
