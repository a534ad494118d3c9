----------------------------- MODULE StockLedger -----------------------------
(***************************************************************************)
(* Stock of one non-serialized item: a level per warehouse, the movements  *)
(* that explain it, and the handlers that move both (intake, transfers,    *)
(* opname). A level and its movement are two statements; a handler that    *)
(* stops between them leaves the first without the second.                 *)
(***************************************************************************)
EXTENDS Requests, Integers, FiniteSetsExt

CONSTANTS
    Warehouses, Transfers, Sessions,
    TransferLines,     \* lines of a transfer, one unit each
    MaxLevel,          \* (bound) units of a warehouse
    MaxLost            \* (bound) units whose movement was never written

ASSUME LedgerAssumption ==
    TransferLines \in Nat \ {0} /\ MaxLevel \in Nat /\ IsFiniteSet(Procs)

VARIABLES
    level,       \* warehouse.stock_levels: warehouse -> quantity, 0 without a row
    movements,   \* warehouse.stock_movements: warehouse -> sum of what they moved
    lost,        \* (history) units moved by a handler that died before saying so
    transfer,    \* warehouse.transfers
    session      \* warehouse.opname_sessions and the count of the item

ledger == <<level, movements, lost, transfer, session>>

TransferStatuses == {"absent", "draft", "dispatched", "received", "cancelled"}
SessionStatuses == {"absent", "open", "committed", "cancelled"}
NoTransfer == [status |-> "absent", source |-> None, destination |-> None]
NoSession == [status |-> "absent", warehouse |-> None, expected |-> None, counted |-> None]

LedgerInit ==
    /\ level = [w \in Warehouses |-> 0]
    /\ movements = [w \in Warehouses |-> 0]
    /\ lost = [w \in Warehouses |-> 0]
    /\ transfer = [t \in Transfers |-> NoTransfer]
    /\ session = [s \in Sessions |-> NoSession]

-----------------------------------------------------------------------------
(* The pair of statements every handler repeats, once per line.            *)

\* What a handler still has to move: `delta` units into a warehouse, on each
\* of `lines` lines, then the status it writes to its row.
Plan(w, delta, lines, final) ==
    [warehouse |-> w, delta |-> delta, lines |-> lines, final |-> final]

\* (defect) a level that would fall below zero is left at zero
UpsertDelta_clamped(w, delta) ==
    /\ level[w] + delta <= MaxLevel
    /\ level' = [level EXCEPT ![w] = IF @ + delta < 0 THEN 0 ELSE @ + delta]

\* A relative update that CHECK (quantity >= 0) refuses below zero.
UpsertDelta(w, delta) ==
    /\ level[w] + delta \in 0 .. MaxLevel
    /\ level' = [level EXCEPT ![w] = @ + delta]

MoveLevel(p) ==
    /\ At(p, "level")
    /\ UpsertDelta(req[p].arg.warehouse, req[p].arg.delta)
    /\ Goto(p, "movement")
    /\ UNCHANGED <<movements, lost, transfer, session>>

\* The row that explains the level; then the next line, or the status.
RecordMovement(p) ==
    LET plan == req[p].arg IN
    /\ At(p, "movement")
    /\ movements' = [movements EXCEPT ![plan.warehouse] = @ + plan.delta]
    /\ \/ plan.lines > 1
          /\ LET rest == [plan EXCEPT !.lines = @ - 1] IN
             req' = [req EXCEPT ![p] =
                        [at |-> "level", on |-> @.on, arg |-> rest, got |-> @.got]]
       \/ plan.lines = 1 /\ plan.final # None /\ Goto(p, "status")
       \/ plan.lines = 1 /\ plan.final = None /\ Return(p)
    /\ UNCHANGED <<level, lost, transfer, session>>

\* The handler's last statement writes a status by id, whatever is there.
SetStatus(p) ==
    LET row == req[p].on IN
    /\ At(p, "status")
    /\ \/ row \in Transfers
          /\ transfer' = [transfer EXCEPT ![row].status = req[p].arg.final]
          /\ UNCHANGED session
       \/ row \in Sessions
          /\ session' = [session EXCEPT ![row].status = req[p].arg.final]
          /\ UNCHANGED transfer
    /\ Return(p)
    /\ UNCHANGED <<level, movements, lost>>

\* A statement fails, or is refused, or the process dies.
AbandonStock(p) ==
    /\ Abandon(p)
    /\ IF At(p, "movement")
       THEN LET w == req[p].arg.warehouse IN
            /\ lost' = [lost EXCEPT ![w] = @ + req[p].arg.delta]
            /\ lost'[w] \in -MaxLost .. MaxLost
       ELSE UNCHANGED lost
    /\ UNCHANGED <<level, movements, transfer, session>>

-----------------------------------------------------------------------------
(* Intake and transfers.                                                   *)

Intake(p) ==
    /\ \E w \in Warehouses : Begin(p, "level", w, Plan(w, 1, 1, None))
    /\ UNCHANGED ledger

CreateTransfer(t) ==
    /\ transfer[t] = NoTransfer
    /\ \E w \in Warehouses : \E v \in Warehouses \ {w} :
            transfer' = [transfer EXCEPT ![t] =
                            [status |-> "draft", source |-> w, destination |-> v]]
    /\ UNCHANGED <<level, movements, lost, session, req>>

DispatchTransfer(p, t) ==
    /\ transfer[t].status = "draft"
    /\ Begin(p, "level", t, Plan(transfer[t].source, -1, TransferLines, "dispatched"))
    /\ UNCHANGED ledger

ReceiveTransfer(p, t) ==
    /\ transfer[t].status = "dispatched"
    /\ Begin(p, "level", t, Plan(transfer[t].destination, 1, TransferLines, "received"))
    /\ UNCHANGED ledger

CancelTransfer(p, t) ==
    /\ transfer[t].status = "draft"
    /\ Begin(p, "status", t, Plan(None, 0, 0, "cancelled"))
    /\ UNCHANGED ledger

-----------------------------------------------------------------------------
(* Opname: an open session counts the item, then its commit corrects the   *)
(* level by what the count was off when it was first taken.                *)

\* A partial unique index admits one open session per warehouse.
StartOpname(s) ==
    /\ session[s] = NoSession
    /\ \E w \in Warehouses :
        /\ \A r \in Sessions : ~(session[r].warehouse = w /\ session[r].status = "open")
        /\ session' = [session EXCEPT ![s].status = "open", ![s].warehouse = w]
    /\ UNCHANGED <<level, movements, lost, transfer, req>>

UpsertOpnameCount(p, s) ==
    /\ session[s].status = "open"
    /\ \E counted \in 0 .. MaxLevel : Begin(p, "expected", s, [counted |-> counted])
    /\ UNCHANGED ledger

ReadExpected(p) ==
    /\ At(p, "expected")
    /\ Hold(p, level[session[req[p].on].warehouse], "count")
    /\ UNCHANGED ledger

\* The expected quantity is the first count's; a later one only recounts.
UpsertCount(p) ==
    LET s == req[p].on IN
    /\ At(p, "count")
    /\ session' = [session EXCEPT
            ![s].expected = IF @ = None THEN req[p].got ELSE @,
            ![s].counted = req[p].arg.counted]
    /\ Return(p)
    /\ UNCHANGED <<level, movements, lost, transfer>>

CommitOpname(p, s) ==
    LET delta == session[s].counted - session[s].expected IN
    /\ session[s].status = "open" /\ session[s].expected # None
    /\ Begin(p, IF delta = 0 THEN "status" ELSE "level", s,
             Plan(session[s].warehouse, delta, 1, "committed"))
    /\ UNCHANGED ledger

CancelOpname(p, s) ==
    /\ session[s].status = "open"
    /\ Begin(p, "status", s, Plan(None, 0, 0, "cancelled"))
    /\ UNCHANGED ledger

-----------------------------------------------------------------------------

LedgerNext ==
    \/ \E t \in Transfers : CreateTransfer(t)
    \/ \E s \in Sessions : StartOpname(s)
    \/ \E p \in Procs :
        \/ Intake(p)
        \/ MoveLevel(p)
        \/ RecordMovement(p)
        \/ SetStatus(p)
        \/ ReadExpected(p)
        \/ UpsertCount(p)
        \/ \E t \in Transfers :
            DispatchTransfer(p, t) \/ ReceiveTransfer(p, t) \/ CancelTransfer(p, t)
        \/ \E s \in Sessions :
            UpsertOpnameCount(p, s) \/ CommitOpname(p, s) \/ CancelOpname(p, s)

LedgerTypeOK ==
    /\ level \in [Warehouses -> 0 .. MaxLevel]
    /\ movements \in [Warehouses -> Int]
    /\ lost \in [Warehouses -> -MaxLost .. MaxLost]
    /\ transfer \in [Transfers -> [status : TransferStatuses,
                                   source : Warehouses \cup {None},
                                   destination : Warehouses \cup {None}]]
    /\ session \in [Sessions -> [status : SessionStatuses,
                                 warehouse : Warehouses \cup {None},
                                 expected : 0 .. MaxLevel \cup {None},
                                 counted : 0 .. MaxLevel \cup {None}]]

InFlight(w) ==
    LET writing == {p \in Procs : At(p, "movement") /\ req[p].arg.warehouse = w}
    IN  SumFunctionOnSet([p \in writing |-> req[p].arg.delta], writing)

\* Whatever handlers race, fail and run again, a level is explained by the
\* movements of its warehouse, up to those a handler is about to write and
\* those a handler died before writing: no update of a level is ever lost
\* and no movement stands for one that was refused.
LevelsMatchMovements ==
    \A w \in Warehouses : level[w] = movements[w] + lost[w] + InFlight(w)

=============================================================================
