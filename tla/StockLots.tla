------------------------------ MODULE StockLots ------------------------------
(***************************************************************************)
(* Stock that is used up piece by piece: cable drums cut to length and     *)
(* batches of consumables. A handler reads the lot, takes from its copy    *)
(* and writes lot and piece in one transaction, by id.                     *)
(***************************************************************************)
EXTENDS Requests, Integers

CONSTANTS
    CableLots, Batches,
    LotTotal           \* units a lot arrives with
ASSUME LotAssumption == LotTotal \in Nat \ {0}

VARIABLES
    lot,     \* warehouse.cable_lots and consumable_batches: status, remaining
    taken    \* warehouse.cable_cuts and batch_consumption_log: lot -> sum
lots == <<lot, taken>>

Lots == CableLots \cup Batches
LotStatuses == {"absent", "in_stock", "allocated", "consumed", "disposed", "expired"}
NoLot == [status |-> "absent", remaining |-> 0]

LotsInit == lot = [l \in Lots |-> NoLot] /\ taken = [l \in Lots |-> 0]

ReceiveLot(l) ==
    /\ lot[l] = NoLot
    /\ lot' = [lot EXCEPT ![l] = [status |-> "in_stock", remaining |-> LotTotal]]
    /\ UNCHANGED <<taken, req>>

\* What is written after n units of a copy: its remainder and its status.
Take(copy, n) ==
    [units |-> n, remaining |-> copy.remaining - n,
     status |-> IF copy.remaining = n THEN "consumed"
                ELSE IF copy.status = "in_stock" THEN "allocated" ELSE copy.status]

CutSegment(p, l) ==
    /\ l \in CableLots
    /\ lot[l].status \in {"in_stock", "allocated"}
    /\ \E n \in 1 .. lot[l].remaining : Begin(p, "persistTaken", l, Take(lot[l], n))
    /\ UNCHANGED lots

\* The caller names the batch, or takes the oldest in stock: any is.
ConsumeFromBatch(p, l) ==
    /\ l \in Batches
    /\ lot[l].status \in {"in_stock", "allocated"}
    /\ \E n \in 1 .. lot[l].remaining : Begin(p, "persistTaken", l, Take(lot[l], n))
    /\ UNCHANGED lots

\* (defect) the lot and its piece are written without a transaction
PersistTaken_untransacted(p) ==
    LET l == req[p].on IN
    /\ At(p, "persistTaken")
    /\ lot' = [lot EXCEPT ![l] = [status |-> req[p].arg.status,
                                  remaining |-> req[p].arg.remaining]]
    /\ taken' \in {taken, [taken EXCEPT ![l] = @ + req[p].arg.units]}
    /\ Return(p)

\* PersistCut and PersistConsumption: both rows or none.
PersistTaken(p) ==
    LET l == req[p].on IN
    /\ At(p, "persistTaken")
    /\ lot' = [lot EXCEPT ![l] = [status |-> req[p].arg.status,
                                  remaining |-> req[p].arg.remaining]]
    /\ taken' = [taken EXCEPT ![l] = @ + req[p].arg.units]
    /\ Return(p)

DisposeCableLot(p, l) ==
    /\ l \in CableLots
    /\ lot[l].status \in {"in_stock", "allocated", "disposed"}
    /\ Begin(p, "lotStatus", l, [status |-> "disposed"])
    /\ UNCHANGED lots

\* By the administrator, or by the sweep over batches in stock.
MarkBatchExpired(p, l) ==
    /\ l \in Batches
    /\ lot[l].status \in {"in_stock", "allocated", "expired"}
    /\ Begin(p, "lotStatus", l, [status |-> "expired"])
    /\ UNCHANGED lots

SetLotStatus(p) ==
    /\ At(p, "lotStatus")
    /\ lot' = [lot EXCEPT ![req[p].on].status = req[p].arg.status]
    /\ Return(p)
    /\ UNCHANGED taken

LotsNext ==
    \/ \E l \in Lots : ReceiveLot(l)
    \/ \E p \in Procs :
        \/ PersistTaken(p)
        \/ SetLotStatus(p)
        \/ \E l \in Lots :
            \/ CutSegment(p, l)
            \/ ConsumeFromBatch(p, l)
            \/ DisposeCableLot(p, l)
            \/ MarkBatchExpired(p, l)

LotsTypeOK ==
    /\ lot \in [Lots -> [status : LotStatuses, remaining : 0 .. LotTotal]]
    /\ taken \in [Lots -> Nat]

\* With its requests one at a time, what is left of a lot and the pieces cut
\* from it add up to what arrived, and it is consumed exactly when nothing is
\* left, whatever died or failed between reading the lot and writing it.
PiecesAddUp ==
    \A l \in Lots :
        lot[l].status # "absent" =>
            /\ lot[l].remaining + taken[l] = LotTotal
            /\ lot[l].status = "consumed" <=> lot[l].remaining = 0

=============================================================================
