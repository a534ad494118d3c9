--------------------------- MODULE PaymentService ---------------------------
(***************************************************************************)
(* payment-svc as one process: the intent and webhook requests of          *)
(* PaymentIntents and the refund requests of Refunds over the same         *)
(* payment_intents table.  The two halves share nothing else; the refund   *)
(* half writes an intent row only when a refund completes.                 *)
(***************************************************************************)
EXTENDS PaymentIntents

CONSTANTS RefundIds, Clerks, MaxRefundFaults    \* see Refunds

VARIABLES refunds, clerks, refunded, approvals, refundFaults

R == INSTANCE Refunds WITH RefundsOverlap <- Overlap

ASSUME ServiceAssumption == R!RefundsAssumption

intentVars == <<serviceVars, hookVars, worldVars>>
refundVars == <<refunds, clerks, refunded, approvals, refundFaults>>
allVars == <<intents, intentVars, refundVars>>

ServiceInit == Init /\ R!Init

\* With Overlap FALSE a request starts only when no other is in progress.
IntentStep == (Overlap \/ R!Quiet) /\ Next /\ UNCHANGED refundVars
RefundStep == (Overlap \/ Quiet) /\ R!Next /\ UNCHANGED intentVars

ServiceNext == IntentStep \/ RefundStep

ServiceSpec == ServiceInit /\ [][ServiceNext]_allVars

-----------------------------------------------------------------------------
(* Properties of the two halves, restated for the whole *)

MoneyNeedsApproval     == R!MoneyNeedsApproval
PaidOnce               == R!PaidOnce
TotalIsSumOfCompleted  == R!TotalIsSumOfCompleted

\* Money goes back only for an intent that a gateway confirmed as paid, even
\* though a stale UPDATE may since have turned its row expired or cancelled.
OnlyConfirmedIsRefunded ==
    \A r \in RefundIds : refunded[r] > 0 =>
        \E e \in emitted : e.intent = refunds[r].intent /\ e.kind \in {"paid", "settled"}

=============================================================================
