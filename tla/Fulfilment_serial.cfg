SPECIFICATION Spec
CONSTANTS
    Leads = {l1}
    Customers = {c1}
    WOs = {w1, w2}
    Basts = {b1, b2}
    Procs = {p1}
    None = None
SYMMETRY Symmetry
CHECK_DEADLOCK FALSE
INVARIANTS
    ServiceIsEarned
    ActiveHasAccount

    
