------------------------------ MODULE Warehouse ------------------------------
(***************************************************************************)
(* The store room: stock levels and purchasing, lots, and gear handed out. *)
(* The three keep rows of their own and share the requests.                *)
(***************************************************************************)
EXTENDS Purchasing, StockLots, GearDispatch

ASSUME NoneIsNoStock == None \notin POs \cup Lots \cup Dispatches \cup Lines

warehouseVars == <<ledger, purchasing, lots, gears, req>>

WarehouseInit ==
    /\ LedgerInit
    /\ PurchasingInit
    /\ LotsInit
    /\ GearInit
    /\ req = [p \in Procs |-> Idle]

\* A bound: levels, lots and gear share no row, so one of them moves while the
\* others rest; and an order is received or an opname taken, not both, the
\* receipt being an intake to the level.
OrdersRest == \A o \in POs : po[o] = NoPO
SessionsRest == \A s \in Sessions : session[s] = NoSession
StockRests ==
    /\ \A w \in Warehouses : level[w] = 0 /\ movements[w] = 0
    /\ \A t \in Transfers : transfer[t] = NoTransfer
    /\ OrdersRest /\ SessionsRest
LotsRest == \A l \in Lots : lot[l] = NoLot
GearRests == \A d \in Dispatches : gear[d] = "absent"

WarehouseNext ==
    \/ LedgerNext /\ LotsRest /\ GearRests /\ (OrdersRest \/ SessionsRest')
       /\ UNCHANGED <<purchasing, lots, gears>>
    \/ PurchasingNext /\ LotsRest /\ GearRests /\ SessionsRest /\ UNCHANGED <<lots, gears>>
    \/ LotsNext /\ StockRests /\ GearRests /\ UNCHANGED <<ledger, purchasing, gears>>
    \/ GearNext /\ StockRests /\ LotsRest /\ UNCHANGED <<ledger, purchasing, lots>>
    \/ \E p \in Procs : AbandonStock(p) /\ UNCHANGED <<purchasing, lots, gears>>

\* Rows that are written from a copy: two requests on one of them lose an
\* update. Levels and movements are not among them.
CopiedRow(row) == IF row \in Lines THEN row[1] ELSE row
OneRequestPerCopy ==
    \A p, q \in Procs :
        /\ p # q
        /\ req[p].on \in POs \cup Lots \cup Dispatches \cup Lines
        => CopiedRow(req[p].on) # CopiedRow(req[q].on)

WarehouseSpec == WarehouseInit /\ [][WarehouseNext /\ OneRequestPerCopy']_warehouseVars

=============================================================================
