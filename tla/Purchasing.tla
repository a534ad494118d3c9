------------------------------ MODULE Purchasing ------------------------------
(***************************************************************************)
(* A purchase order of one line and the goods receipts against it. The     *)
(* handlers read the order, decide on the copy and write it back by id; a  *)
(* receipt is one transaction over receipt, order, movements and level.    *)
(***************************************************************************)
EXTENDS StockLedger

CONSTANTS POs, Ordered
ASSUME OrderedAssumption == Ordered \in Nat \ {0}

VARIABLES
    po,          \* warehouse.purchase_orders and the line's quantity_received
    receipts     \* warehouse.goods_receipts: order -> quantity they received
purchasing == <<po, receipts>>

POStatuses == {"absent", "draft", "submitted", "approved", "receiving", "closed", "cancelled"}
ASSUME NoneIsNoStatus == None \notin POStatuses
NoPO == [status |-> "absent", received |-> 0]

PurchasingInit ==
    /\ po = [o \in POs |-> NoPO]
    /\ receipts = [o \in POs |-> 0]

CreatePurchaseOrder(o) ==
    /\ po[o] = NoPO
    /\ po' = [po EXCEPT ![o].status = "draft"]
    /\ UNCHANGED <<receipts, ledger, req>>

\* Submit and Approve accept an order already there, and write it again.
SubmitPurchaseOrder(p, o) ==
    /\ po[o].status \in {"draft", "submitted"}
    /\ Begin(p, "poStatus", o, [status |-> "submitted"])
    /\ UNCHANGED <<purchasing, ledger>>

ApprovePurchaseOrder(p, o) ==
    /\ po[o].status \in {"submitted", "approved"}
    /\ Begin(p, "poStatus", o, [status |-> "approved"])
    /\ UNCHANGED <<purchasing, ledger>>

CancelPurchaseOrder(p, o) ==
    /\ po[o].status \in {"draft", "submitted", "approved", "receiving"}
    /\ Begin(p, "poStatus", o, [status |-> "cancelled"])
    /\ UNCHANGED <<purchasing, ledger>>

SetPOStatus(p) ==
    /\ At(p, "poStatus")
    /\ po' = [po EXCEPT ![req[p].on].status = req[p].arg.status]
    /\ Return(p)
    /\ UNCHANGED <<receipts, ledger>>

\* (defect) "all received" is judged before the receipt is counted in
StatusAfter_before(order, n) ==
    IF order.received = Ordered THEN "closed"
    ELSE IF order.status = "approved" THEN "receiving" ELSE order.status

\* The order's status once n more units have arrived.
StatusAfter(order, n) ==
    IF order.received + n = Ordered THEN "closed"
    ELSE IF order.status = "approved" THEN "receiving" ELSE order.status

\* The units fit what is open on the copy; the transaction will write the
\* line's new total and, when it flips, the status.
CreateGoodsReceipt(p, o) ==
    /\ po[o].status \in {"approved", "receiving"}
    /\ \E n \in 1 .. Ordered - po[o].received : \E w \in Warehouses :
        LET after == StatusAfter(po[o], n) IN
        Begin(p, "receipt", o,
              [units |-> n, warehouse |-> w, received |-> po[o].received + n,
               status |-> IF after = po[o].status THEN None ELSE after])
    /\ UNCHANGED <<purchasing, ledger>>

PersistReceipt(p) ==
    LET o == req[p].on
        r == req[p].arg
    IN
    /\ At(p, "receipt")
    /\ receipts' = [receipts EXCEPT ![o] = @ + r.units]
    /\ po' = [po EXCEPT ![o].received = r.received,
                        ![o].status = IF r.status = None THEN @ ELSE r.status]
    /\ UpsertDelta(r.warehouse, r.units)
    /\ movements' = [movements EXCEPT ![r.warehouse] = @ + r.units]
    /\ Return(p)
    /\ UNCHANGED <<lost, transfer, session>>

PurchasingNext ==
    \/ \E o \in POs : CreatePurchaseOrder(o)
    \/ \E p \in Procs :
        \/ SetPOStatus(p)
        \/ PersistReceipt(p)
        \/ \E o \in POs :
            \/ SubmitPurchaseOrder(p, o)
            \/ ApprovePurchaseOrder(p, o)
            \/ CancelPurchaseOrder(p, o)
            \/ CreateGoodsReceipt(p, o)

PurchasingTypeOK ==
    /\ po \in [POs -> [status : POStatuses, received : 0 .. Ordered]]
    /\ receipts \in [POs -> Nat]

\* With its requests one at a time, an order has received what its receipts
\* say, never more than it ordered, and is closed exactly when all is in,
\* whichever receipt, cancellation or failed transaction came between.
ReceiptsAddUp ==
    \A o \in POs :
        /\ po[o].received = receipts[o]
        /\ receipts[o] <= Ordered
        /\ po[o].status = "closed" <=> receipts[o] = Ordered

=============================================================================
