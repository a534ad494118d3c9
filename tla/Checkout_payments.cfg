\* Payments overlap each other and the gateway's callbacks overlap everything;
\* the other requests of a clerk run alone.
SPECIFICATION CheckoutSpec
CONSTANTS
    None = None
    otc = otc
    monthly = monthly
    r1 = r1
    r2 = r2
    c1 = c1
    c2 = c2
    k1 = k1
    Links = {k1}
    Verdicts = {"succeeded", "expired"}
    Invoices = {otc, monthly}
    Otc = {otc}
    Receipts = {r1, r2}
    Total = 2
    Shares = 2
    Clerks = {c1, c2}
    MayOverlap <- MCPayments
    MaxDeaths = 1
SYMMETRY MCSymmetry
INVARIANTS
    PaidIsPaidFor
    CoveredIsSettled
    CommissionIsComplete
    InstalledIsPaidFor
PROPERTIES
    DeliveriesTakeEffectOnce
CHECK_DEADLOCK FALSE
