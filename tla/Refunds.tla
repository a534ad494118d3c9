------------------------------ MODULE Refunds -------------------------------
(***************************************************************************)
(* RefundService: refunds requested, approved or rejected, sent to the     *)
(* gateway and completed, against the payment_intents rows.  As in         *)
(* PaymentIntents a request is a worker whose steps are single database    *)
(* statements or gateway calls, and every UPDATE writes back a whole copy. *)
(*                                                                         *)
(* Abstraction: the refund's free text, its external reference and the     *)
(* requester are not kept.                                                 *)
(***************************************************************************)
EXTENDS PaymentStore, FiniteSetsExt

CONSTANTS
    RefundIds,
    Clerks,             \* refund requests that may be in progress at once
    MaxRefundFaults,    \* bound on requests that die half-way
    RefundsOverlap      \* FALSE: a request starts only when no other is in progress

RefundsAssumption ==
    /\ IsFiniteSet(RefundIds)
    /\ None \notin RefundIds
    /\ MaxRefundFaults \in Nat
    /\ RefundsOverlap \in BOOLEAN

VARIABLES
    refunds,        \* the refunds table: id -> row
    clerks,         \* clerk -> the request it serves
    refunded,       \* id -> times the gateway accepted RefundPayment for it
    approvals,      \* refunds whose approval was ever committed
    refundFaults    \* faults so far

refundVars == <<refunds, clerks, refunded, approvals, refundFaults>>
vars == <<intents, refundVars>>

RefundStatuses ==
    {"requested", "approved", "processing", "completed", "rejected", "failed"}

RefundRows == [status : RefundStatuses \cup {"absent"},
               intent : Intents \cup {None},
               amount : 0..Amount]

NoRefund == [status |-> "absent", intent |-> None, amount |-> 0]

ClerkPcs == {"idle", "insert", "update", "start", "call", "complete", "recompute",
             "sum", "intent"}

Clerk == [pc : ClerkPcs, r : RefundIds \cup {None}, row : RefundRows, irow : Rows]

AtRest == [pc |-> "idle", r |-> None, row |-> NoRefund, irow |-> NoRow]

Init ==
    /\ refunds = [r \in RefundIds |-> NoRefund]
    /\ clerks = [c \in Clerks |-> AtRest]
    /\ refunded = [r \in RefundIds |-> 0]
    /\ approvals = {}
    /\ refundFaults = 0

Quiet == \A c \in Clerks : clerks[c] = AtRest

Free(c) == clerks[c] = AtRest /\ (RefundsOverlap \/ Quiet)

Goto(c, pc, r, row, irow) ==
    clerks' = [clerks EXCEPT ![c] = [pc |-> pc, r |-> r, row |-> row, irow |-> irow]]

Return(c) == clerks' = [clerks EXCEPT ![c] = AtRest]

At(c, pc) == clerks[c].pc = pc

-----------------------------------------------------------------------------
(* The methods of Refund, as guards on the status read and the status set. *)

\* (defects) a guard that accepts one status too many
CanStartRequested(row) == row.status \in {"requested", "approved"}
CanStartAgain(row)     == row.status \in {"approved", "processing"}

CanApprove(row)  == row.status = "requested"
CanReject(row)   == row.status = "requested"
CanStart(row)    == row.status = "approved"
CanComplete(row) == row.status = "processing"

To(row, status) == [row EXCEPT !.status = status]

\* RefundRepository.Update: the whole row, WHERE id = $1.
UpdateRefund(r, row) == refunds' = [refunds EXCEPT ![r] = row]

\* SumCompletedForIntent
SumCompleted(i) ==
    SumFunctionOnSet([r \in RefundIds |-> refunds[r].amount],
                     {r \in RefundIds : refunds[r].intent = i
                                        /\ refunds[r].status = "completed"})

-----------------------------------------------------------------------------

\* (defect) takes a payment for granted
EligiblePending(irow) == irow.status \in {"pending", "succeeded", "partially_refunded"}

\* Intents that RequestRefund accepts.
Eligible(irow) == irow.status \in {"succeeded", "partially_refunded"}

\* The balance a new refund may claim, from the intent row read.
Headroom(irow) == Amount - irow.refunded

\* RequestRefund up to the INSERT: r is the id NewRefund draws.
RequestRefund(c, r, i, amount) ==
    /\ Free(c)
    /\ refunds[r] = NoRefund
    /\ \A d \in Clerks : clerks[d].r # r
    /\ Eligible(intents[i])
    /\ amount <= Headroom(intents[i])
    /\ Goto(c, "insert", r,
            [status |-> "requested", intent |-> i, amount |-> amount], NoRow)
    /\ UNCHANGED <<intents, refunds, refunded, approvals, refundFaults>>

InsertRefund(c) ==
    /\ At(c, "insert")
    /\ UpdateRefund(clerks[c].r, clerks[c].row)
    /\ Return(c)
    /\ UNCHANGED <<intents, refunded, approvals, refundFaults>>

ApproveRefund(c, r) ==
    /\ Free(c)
    /\ CanApprove(refunds[r])
    /\ Goto(c, "update", r, To(refunds[r], "approved"), NoRow)
    /\ UNCHANGED <<intents, refunds, refunded, approvals, refundFaults>>

RejectRefund(c, r) ==
    /\ Free(c)
    /\ CanReject(refunds[r])
    /\ Goto(c, "update", r, To(refunds[r], "rejected"), NoRow)
    /\ UNCHANGED <<intents, refunds, refunded, approvals, refundFaults>>

\* The UPDATE that ends ApproveRefund, RejectRefund and ProcessRefund.
WriteRefund(c) ==
    /\ At(c, "update")
    /\ UpdateRefund(clerks[c].r, clerks[c].row)
    /\ approvals' = IF clerks[c].row.status = "approved"
                    THEN approvals \cup {clerks[c].r} ELSE approvals
    /\ Return(c)
    /\ UNCHANGED <<intents, refunded, refundFaults>>

\* ProcessRefund up to its first UPDATE.  The intent is read for its gateway
\* only; its status and balance are not looked at again.
ProcessRefund(c, r) ==
    /\ Free(c)
    /\ CanStart(refunds[r])
    /\ intents[refunds[r].intent].gateway # None
    /\ Goto(c, "start", r, To(refunds[r], "processing"), NoRow)
    /\ UNCHANGED <<intents, refunds, refunded, approvals, refundFaults>>

StartRefund(c) ==
    /\ At(c, "start")
    /\ UpdateRefund(clerks[c].r, clerks[c].row)
    /\ Goto(c, "call", clerks[c].r, clerks[c].row, NoRow)
    /\ UNCHANGED <<intents, refunded, approvals, refundFaults>>

Pay(r) == refunded' = [refunded EXCEPT ![r] = @ + 1]

\* RefundPayment returns a reference, which a second UPDATE stores.
RefundAccepted(c) ==
    /\ At(c, "call")
    /\ Pay(clerks[c].r)
    /\ Goto(c, "update", clerks[c].r, clerks[c].row, NoRow)
    /\ UNCHANGED <<intents, refunds, approvals, refundFaults>>

\* RefundPayment returns an error: refused, or accepted and the answer lost.
RefundRefused(c) ==
    /\ At(c, "call")
    /\ Pay(clerks[c].r) \/ UNCHANGED refunded
    /\ Goto(c, "update", clerks[c].r, To(clerks[c].row, "failed"), NoRow)
    /\ UNCHANGED <<intents, refunds, approvals, refundFaults>>

\* MarkRefundCompleted, called when the gateway confirms the refund.
MarkRefundCompleted(c, r) ==
    /\ Free(c)
    /\ refunded[r] > 0
    /\ CanComplete(refunds[r])
    /\ Goto(c, "complete", r, To(refunds[r], "completed"), NoRow)
    /\ UNCHANGED <<intents, refunds, refunded, approvals, refundFaults>>

CompleteRefund(c) ==
    /\ At(c, "complete")
    /\ UpdateRefund(clerks[c].r, clerks[c].row)
    /\ Goto(c, "recompute", clerks[c].r, clerks[c].row, NoRow)
    /\ UNCHANGED <<intents, refunded, approvals, refundFaults>>

ReadIntent(c) ==
    /\ At(c, "recompute")
    /\ Goto(c, "sum", clerks[c].r, clerks[c].row, intents[clerks[c].row.intent])
    /\ UNCHANGED <<intents, refunds, refunded, approvals, refundFaults>>

\* (defect) adds the cumulative total to the total already there
AfterRefundAdded(irow, total) ==
    LET sum == irow.refunded + total IN
    IF sum = Amount THEN (IF CanRefund(irow) THEN MarkFullyRefunded(irow) ELSE NoRow)
    ELSE IF CanRefundPartially(irow, sum) THEN MarkPartiallyRefunded(irow, sum)
    ELSE NoRow

\* The intent row to write for a cumulative total, from the copy read; an error
\* of the Mark... method is swallowed and nothing is written.
AfterRefund(irow, total) ==
    IF total = Amount THEN (IF CanRefund(irow) THEN MarkFullyRefunded(irow) ELSE NoRow)
    ELSE IF CanRefundPartially(irow, total) THEN MarkPartiallyRefunded(irow, total)
    ELSE NoRow

SumRefunds(c) ==
    /\ At(c, "sum")
    /\ LET irow == AfterRefund(clerks[c].irow, SumCompleted(clerks[c].row.intent)) IN
       IF irow = NoRow THEN Return(c)
                       ELSE Goto(c, "intent", clerks[c].r, clerks[c].row, irow)
    /\ UNCHANGED <<intents, refunds, refunded, approvals, refundFaults>>

WriteRefundedIntent(c) ==
    /\ At(c, "intent")
    /\ Update(clerks[c].row.intent, clerks[c].irow)
    /\ Return(c)
    /\ UNCHANGED <<refunds, refunded, approvals, refundFaults>>

\* The request dies between two steps, or its next statement errors.
Abort(c) ==
    /\ clerks[c] # AtRest
    /\ refundFaults < MaxRefundFaults
    /\ refundFaults' = refundFaults + 1
    /\ Return(c)
    /\ UNCHANGED <<intents, refunds, refunded, approvals>>

-----------------------------------------------------------------------------

Request(c) ==
    \E r \in RefundIds :
        \/ \E i \in Intents, amount \in 1..Amount : RequestRefund(c, r, i, amount)
        \/ ApproveRefund(c, r)
        \/ RejectRefund(c, r)
        \/ ProcessRefund(c, r)
        \/ MarkRefundCompleted(c, r)

ClerkStep(c) ==
    \/ InsertRefund(c)
    \/ WriteRefund(c)
    \/ StartRefund(c)
    \/ RefundAccepted(c)
    \/ RefundRefused(c)
    \/ CompleteRefund(c)
    \/ ReadIntent(c)
    \/ SumRefunds(c)
    \/ WriteRefundedIntent(c)

Next == \E c \in Clerks : Request(c) \/ ClerkStep(c) \/ Abort(c)

-----------------------------------------------------------------------------
(* Properties *)

TypeOK ==
    /\ refunds \in [RefundIds -> RefundRows]
    /\ clerks \in [Clerks -> Clerk]
    /\ refunded \in [RefundIds -> Nat]
    /\ approvals \subseteq RefundIds
    /\ refundFaults \in 0..MaxRefundFaults

\* Money goes out only for a refund whose approval was committed, whatever
\* concurrent approvals, rejections and retries write over one another.
MoneyNeedsApproval == \A r \in RefundIds : refunded[r] > 0 => r \in approvals

\* When requests do not overlap, the gateway pays a refund at most once, also
\* when a ProcessRefund died after its call and is tried again.
PaidOnce == \A r \in RefundIds : refunded[r] <= 1

\* When requests do not overlap, the intent's total is the sum of its completed
\* refunds whenever no request is in progress and none has died, as long as
\* that sum is a total the intent can carry.
TotalIsSumOfCompleted ==
    \A i \in Intents :
        Quiet /\ refundFaults = 0 /\ SumCompleted(i) <= Amount
        => intents[i].refunded = SumCompleted(i)

\* usecase/refund_exceeding_intent_test.go: "refund cannot exceed
\* intent.amount - already_refunded". Two overlapping requests contradict it.
RefundsFitTheIntent ==
    \A i \in Intents :
        SumFunctionOnSet([r \in RefundIds |-> refunds[r].amount * refunded[r]],
                         {r \in RefundIds : refunds[r].intent = i}) <= Amount

=============================================================================
