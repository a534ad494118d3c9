\* Requests that do not overlap, with faults in both halves.
SPECIFICATION ServiceSpec
CONSTANTS
    None = None
    w1 = w1
    i1 = i1
    g1 = g1
    r1 = r1
    r2 = r2
    c1 = c1
    c2 = c2
    Intents = {i1}
    Gateways = {g1}
    Workers = {w1}
    Kinds <- MCKindsSerial
    Amount = 2
    BatchLimit = 1
    MaxFaults = 1
    Overlap = FALSE
    RefundIds = {r1, r2}
    Clerks = {c1}
    MaxRefundFaults = 1
INVARIANTS
    PaidOnce
    TotalIsSumOfCompleted
CHECK_DEADLOCK FALSE
