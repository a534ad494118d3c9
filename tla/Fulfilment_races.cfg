SPECIFICATION SoldSpec
CONSTANTS
    Leads = {l1}
    Customers = {c1}
    WOs = {w1}
    Basts = {b1, b2}
    Procs = {p1, p2, p3}
    None = None
SYMMETRY Symmetry
CHECK_DEADLOCK FALSE
INVARIANTS
    
    ApprovedIsActivated
