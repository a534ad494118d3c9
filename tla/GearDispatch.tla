----------------------------- MODULE GearDispatch -----------------------------
(***************************************************************************)
(* Gear handed to a technician for a work order: a header that is staged,  *)
(* picked up and returned, and a line per item that is scanned and comes   *)
(* back piece by piece. The handlers of header and lines know of each      *)
(* other only what they read.                                              *)
(***************************************************************************)
EXTENDS Requests, Integers

CONSTANTS
    Dispatches,
    GearLines,         \* lines of a dispatch
    LineQty            \* units on a line
ASSUME GearAssumption ==
    /\ LineQty \in Nat \ {0}
    /\ Dispatches \cap (Dispatches \X GearLines) = {}

VARIABLES
    gear,    \* warehouse.wo_dispatch_records: dispatch -> status
    line     \* warehouse.wo_dispatch_items
gears == <<gear, line>>

GearStatuses == {"absent", "planned", "staged", "picked_up", "returned", "cancelled"}
LineStatuses == {"planned", "picked", "returned"}
Planned == [status |-> "planned", returned |-> 0]
Lines == Dispatches \X GearLines

GearInit ==
    /\ gear = [d \in Dispatches |-> "absent"]
    /\ line = [l \in Lines |-> Planned]

CreateDispatch(d) ==
    /\ gear[d] = "absent"
    /\ gear' = [gear EXCEPT ![d] = "planned"]
    /\ UNCHANGED <<line, req>>

StageDispatch(p, d) ==
    /\ gear[d] = "planned"
    /\ Begin(p, "gearStatus", d, [status |-> "staged"])
    /\ UNCHANGED gears

CancelDispatch(p, d) ==
    /\ gear[d] \in {"planned", "staged"}
    /\ Begin(p, "gearStatus", d, [status |-> "cancelled"])
    /\ UNCHANGED gears

AllScanned(d) == \A i \in GearLines : line[<<d, i>>].status = "picked"
AllReturned(d) == \A i \in GearLines : line[<<d, i>>].status = "returned"

\* (defect) pick-up trusts the counter clerk, not the scans
MarkPickedUp_unscanned(p, d) ==
    /\ gear[d] = "staged"
    /\ Begin(p, "gearStatus", d, [status |-> "picked_up"])
    /\ UNCHANGED gears

\* The audit movements that follow the status are best effort and move no
\* level.
MarkPickedUp(p, d) ==
    /\ gear[d] = "staged" /\ AllScanned(d)
    /\ Begin(p, "gearStatus", d, [status |-> "picked_up"])
    /\ UNCHANGED gears

SetGearStatus(p) ==
    /\ At(p, "gearStatus")
    /\ gear' = [gear EXCEPT ![req[p].on] = req[p].arg.status]
    /\ Return(p)
    /\ UNCHANGED line

\* A scan looks at its line only; the same serial again rewrites the line.
PickUpItemByScan(p, l) ==
    /\ gear[l[1]] # "absent"
    /\ \/ line[l].status = "planned"
          /\ Begin(p, "scanned", l, [line[l] EXCEPT !.status = "picked"])
       \/ line[l].status = "picked"
          /\ Begin(p, "scanned", l, line[l])
    /\ UNCHANGED gears

\* Some of a line comes back; the line is returned when all of it has.
ReturnItem(p, l) ==
    /\ gear[l[1]] # "absent"
    /\ line[l].status \in {"picked", "returned"}
    /\ \E n \in 1 .. LineQty - line[l].returned :
        LET back == line[l].returned + n IN
        Begin(p, "comingBack", l,
              [status |-> IF back = LineQty THEN "returned" ELSE line[l].status,
               returned |-> back])
    /\ UNCHANGED gears

UpdateItem(p) ==
    /\ \/ At(p, "scanned") /\ Return(p)
       \/ At(p, "comingBack") /\ Goto(p, "reload")
    /\ line' = [line EXCEPT ![req[p].on] = req[p].arg]
    /\ UNCHANGED gear

\* ReturnItem's second half: a header that was picked up follows its lines.
ReloadDispatch(p) ==
    LET d == req[p].on[1] IN
    /\ At(p, "reload")
    /\ IF AllReturned(d) /\ gear[d] = "picked_up"
       THEN req' = [req EXCEPT ![p] = [Idle EXCEPT !.at = "gearStatus", !.on = d,
                                                   !.arg = [status |-> "returned"]]]
       ELSE Return(p)
    /\ UNCHANGED gears

GearNext ==
    \/ \E d \in Dispatches : CreateDispatch(d)
    \/ \E p \in Procs :
        \/ SetGearStatus(p)
        \/ UpdateItem(p)
        \/ ReloadDispatch(p)
        \/ \E d \in Dispatches :
            StageDispatch(p, d) \/ CancelDispatch(p, d) \/ MarkPickedUp(p, d)
        \/ \E l \in Lines : PickUpItemByScan(p, l) \/ ReturnItem(p, l)

GearTypeOK ==
    /\ gear \in [Dispatches -> GearStatuses]
    /\ line \in [Lines -> [status : LineStatuses, returned : 0 .. LineQty]]

\* With a dispatch's requests one at a time, gear that was picked up had every
\* line scanned, and a dispatch counts as returned only when all of every line
\* is back, though scans and returns never look at the header.
HeaderFollowsLines ==
    \A d \in Dispatches : \A i \in GearLines :
        /\ gear[d] \in {"picked_up", "returned"} => line[<<d, i>>].status # "planned"
        /\ gear[d] = "returned" => line[<<d, i>>].returned = LineQty

=============================================================================
