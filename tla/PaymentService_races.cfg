\* Overlapping requests of both halves on one intent.
SPECIFICATION ServiceSpec
CONSTANTS
    None = None
    w1 = w1
    i1 = i1
    g1 = g1
    r1 = r1
    r2 = r2
    c1 = c1
    c2 = c2
    Intents = {i1}
    Gateways = {g1}
    Workers = {w1}
    Kinds <- MCKindsPaid
    Amount = 2
    BatchLimit = 1
    MaxFaults = 0
    Overlap = TRUE
    RefundIds = {r1, r2}
    Clerks = {c1, c2}
    MaxRefundFaults = 0
INVARIANTS
    MoneyNeedsApproval
    OnlyConfirmedIsRefunded
SYMMETRY MCSymmetry
CHECK_DEADLOCK FALSE
