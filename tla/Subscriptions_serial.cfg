\* Passes and requests one at a time, with a failed call and a crash.
SPECIFICATION FairSpec
CONSTANTS
    None = None
    anna = anna
    q1 = q1
    q2 = q2
    q3 = q3
    tick = tick
    loop = loop
    restorer = restorer
    desk = desk
    Customers = {anna}
    RequestIds = {q1, q2}
    Tickers = {tick}
    Suspenders = {loop}
    Restorers = {restorer}
    Desks = {desk}
    SuspendAfter = 1
    TerminateAfter = 1
    WarnGrace = 0
    SoftGrace = 1
    HardGrace = 1
    MaxAge = 2
    MaxUnpaid = 1
    MaxMishaps = 1
    Overlap = FALSE
INVARIANTS
    OneOpenRequest
    ServedAsRecorded
    TerminatedByRequest
    TickConverges
PROPERTIES
    SuspendedForDebt
    DebtorsAreTerminated
CHECK_DEADLOCK FALSE
