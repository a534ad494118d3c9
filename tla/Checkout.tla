------------------------------ MODULE Checkout ------------------------------
(***************************************************************************)
(* The ledger with the customers who pay it themselves: a checkout link    *)
(* opened from the portal, and the gateway's callback, which writes link   *)
(* and invoice in one transaction and records no payment. The callbacks    *)
(* interleave with each other and with every request of the clerks.        *)
(***************************************************************************)
EXTENDS Invoices

CONSTANTS
    Links,          \* checkout links
    Verdicts        \* link statuses the gateway may report

ASSUME CheckoutAssumption == Verdicts \subseteq {"succeeded", "expired", "failed", "pending"}

VARIABLES
    links,          \* billing.payment_intents
    opening,        \* link -> invoice it is about to be inserted for
    deliveries,     \* platform.webhook_deliveries: event -> "absent", "recorded", "processed"
    handling,       \* events whose handler has not begun its transaction
    applied         \* (history) event -> transactions committed for it

checkout == <<links, opening, deliveries, handling, applied>>

\* An event reports a verdict on a link; the gateway may send it again.
Events == Links \X Verdicts
NoLink == [invoice |-> None, status |-> "absent", confirmed |-> FALSE]

CheckoutInit ==
    /\ Init
    /\ links = [l \in Links |-> NoLink]
    /\ opening = [l \in Links |-> None]
    /\ deliveries = [e \in Events |-> "absent"]
    /\ handling = {}
    /\ applied = [e \in Events |-> 0]

-----------------------------------------------------------------------------
(* The portal reads the invoice, then inserts a link; a cancelled invoice  *)
(* may be paid too.                                                        *)

payInvoice(l, i) ==
    /\ links[l] = NoLink /\ opening[l] = None
    /\ status[i] \notin {"absent", "paid"}
    /\ opening' = [opening EXCEPT ![l] = i]
    /\ UNCHANGED <<links, deliveries, handling, applied, status>>

InsertLink(l) ==
    /\ opening[l] # None
    /\ links' = [links EXCEPT ![l] =
                    [invoice |-> opening[l], status |-> "pending", confirmed |-> FALSE]]
    /\ opening' = [opening EXCEPT ![l] = None]
    /\ UNCHANGED <<deliveries, handling, applied, status>>

AbandonLink(l) ==
    /\ opening[l] # None
    /\ opening' = [opening EXCEPT ![l] = None]
    /\ UNCHANGED <<links, deliveries, handling, applied, status>>

-----------------------------------------------------------------------------
(* The callback: the middleware records the delivery, then the handler     *)
(* runs; a delivery seen before is answered without one.                   *)

\* (defect) ON CONFLICT DO UPDATE, which always reports a row
FreshDelivery_upserted(e) == TRUE

\* INSERT ... ON CONFLICT DO NOTHING inserted a row.
FreshDelivery(e) == deliveries[e] = "absent"

recordDelivery(e) ==
    /\ links[e[1]] # NoLink
    /\ FreshDelivery(e)
    /\ deliveries' = [deliveries EXCEPT ![e] = "recorded"]
    /\ handling' = handling \cup {e}
    /\ UNCHANGED <<links, opening, applied, status>>

\* (defect) any verdict settles the invoice
Settles_any(verdict) == TRUE

Settles(verdict) == verdict = "succeeded"

\* One transaction: the link takes the verdict whatever it was, the invoice is
\* paid whatever it was, the delivery is processed.
handleXenditWebhook(e) ==
    LET l == e[1] IN
    /\ e \in handling
    /\ links' = [links EXCEPT ![l].status = e[2],
                              ![l].confirmed = @ \/ e[2] = "succeeded"]
    /\ IF Settles(e[2]) THEN UpdateStatus(links[l].invoice, "paid") ELSE UNCHANGED status
    /\ deliveries' = [deliveries EXCEPT ![e] = "processed"]
    /\ handling' = handling \ {e}
    /\ applied' = [applied EXCEPT ![e] = @ + 1]
    /\ UNCHANGED opening

\* A statement fails and the transaction with it, or the process dies: the
\* gateway's next attempt will be answered as a duplicate.
LoseDelivery(e) ==
    /\ e \in handling
    /\ handling' = handling \ {e}
    /\ UNCHANGED <<links, opening, deliveries, applied, status>>

-----------------------------------------------------------------------------

CustomerStep ==
    \/ \E l \in Links :
        \/ \E i \in Invoices : payInvoice(l, i)
        \/ InsertLink(l)
        \/ AbandonLink(l)
    \/ \E e \in Events : recordDelivery(e) \/ handleXenditWebhook(e) \/ LoseDelivery(e)

CheckoutNext ==
    \/ Next /\ UNCHANGED checkout
    \/ CustomerStep
       /\ UNCHANGED <<payments, commissions, rewarded, installed, clerks, deaths>>

CheckoutSpec == CheckoutInit /\ [][CheckoutNext]_<<vars, checkout>>

-----------------------------------------------------------------------------
(* Properties *)

\* The gateway has taken money for the invoice.
ConfirmedByGateway(i) == \E l \in Links : links[l].invoice = i /\ links[l].confirmed

\* An invoice is paid only if recorded payments cover it or the gateway took
\* the money, however callbacks, payments and their deaths interleave.
\* domain/invoice.go promises the first alone, which the callback breaks.
PaidIsPaidFor ==
    \A i \in Invoices : status[i] = "paid" => SumConfirmed(i) >= Total \/ ConfirmedByGateway(i)

\* "Payment-gates-NOC", field-svc: an installation approved through the gate
\* belongs to an order whose one-time charge was paid for in one of those ways.
InstalledIsPaidFor ==
    \A i \in Otc :
        installed[i] = "charged" => SumConfirmed(i) >= Total \/ ConfirmedByGateway(i)

Receiver ==
    INSTANCE Inbox WITH
        Messages <- Events,
        state <- [e \in Events |-> IF deliveries[e] = "absent" THEN "new" ELSE "open"],
        effects <- applied

\* pkg/webhookx: "replays return 200 with no side effect". A delivery changes
\* link and invoice at most once, however often the gateway sends it and
\* wherever its handler fails or dies.
DeliveriesTakeEffectOnce == Receiver!Spec

=============================================================================
