--------------------------- MODULE BillingCalendar ---------------------------
(***************************************************************************)
(* Dates and billing periods. A day is a number; month m runs from         *)
(* MonthStarts[m] to the day before MonthStarts[m + 1], so that months     *)
(* differ in length and an anniversary on the 31st has to be clamped.      *)
(***************************************************************************)
EXTENDS Integers, Sequences

CONSTANT MonthStarts

Months == 1 .. Len(MonthStarts) - 1

ASSUME CalendarAssumption ==
    /\ MonthStarts \in Seq(Nat) /\ Len(MonthStarts) >= 4
    /\ \A m \in Months : MonthStarts[m] < MonthStarts[m + 1]

MonthLength(m) == MonthStarts[m + 1] - MonthStarts[m]
MonthOf(d) == CHOOSE m \in Months : MonthStarts[m] <= d /\ d < MonthStarts[m + 1]
DayOfMonth(d) == d - MonthStarts[MonthOf(d)] + 1

\* The given day of month m, or its last day when the month is shorter.
anchor(m, dom) ==
    MonthStarts[m] + (IF dom > MonthLength(m) THEN MonthLength(m) ELSE dom) - 1

\* The month whose anchor opens the period that today falls in: this one, or
\* the one before when this month's anchor is still to come.
OpeningMonth(today, dom) ==
    LET m == MonthOf(today) IN IF anchor(m, dom) > today THEN m - 1 ELSE m

\* First and last day of that period. dayOverride is the schema's
\* cycle_anchor_day, 0 for an anniversary of the activation.
cyclePeriod(today, activated, dayOverride) ==
    LET dom == IF dayOverride > 0 THEN dayOverride ELSE DayOfMonth(activated)
        m   == OpeningMonth(today, dom)
    IN  [start |-> anchor(m, dom), end |-> anchor(m + 1, dom) - 1]

\* Days on which both the opening and the closing month are in the calendar.
BillingDays == MonthStarts[2] .. MonthStarts[Len(MonthStarts) - 1] - 1

=============================================================================
