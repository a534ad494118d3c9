SPECIFICATION FairSpec
CONSTANTS
    c1 = c1
    o1 = o1
    t1 = t1
    None = None
    Customers = {c1}
    Orders = {o1}
    Ticks = {t1}
    MonthStarts <- Calendar
    Owner <- OneCustomer
    CycleAnchorDay = 0
    DueOffset = 0
    Grace = 0
    FeeDue = 1
    FeePage = 4
    LastDay = 4
    MaxInvoices = 3
CHECK_DEADLOCK FALSE
INVARIANTS
    RebilledOnlyIfUnrecorded
    OneFeePerInvoice
PROPERTIES
    PeriodsAreAccounted
