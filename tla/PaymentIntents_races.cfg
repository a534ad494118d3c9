\* Overlapping requests, redeliveries and expiry passes on one intent, with one fault.
SPECIFICATION FairSpec
CONSTANTS
    None = None
    w1 = w1
    w2 = w2
    i1 = i1
    i2 = i2
    g1 = g1
    g2 = g2
    Intents = {i1}
    Gateways = {g1}
    Workers = {w1, w2}
    Kinds <- MCKindsRaces
    Amount = 2
    BatchLimit = 1
    MaxFaults = 1
    Overlap = TRUE
INVARIANTS
    PaidIsConfirmed
    LinkedIsApplied
PROPERTIES
    
    EventsTakeEffectOnce
    StaleIntentsExpire
CHECK_DEADLOCK FALSE
