SPECIFICATION WarehouseSpec
CONSTANTS
    Warehouses = {w1, w2}
    Transfers = {t1}
    Sessions = {s1}
    TransferLines = 2
    MaxLevel = 2
    MaxLost = 1
    POs = {o1}
    Ordered = 2
    CableLots = {l1}
    Batches = {l2}
    LotTotal = 3
    Dispatches = {d1}
    GearLines = {1, 2}
    LineQty = 2
    Procs = {p1, p2}
    None = None
SYMMETRY Symmetry
CHECK_DEADLOCK FALSE
INVARIANTS
    
    
    PiecesAddUp
    
