\* Uploads and runs that do not overlap, with faults and a moving set of pending intents.
SPECIFICATION FairSpec
CONSTANTS
    None = None
    f1 = f1
    f2 = f2
    e1 = e1
    e2 = e2
    u1 = u1
    u2 = u2
    m1 = m1
    m2 = m2
    Files = {f1, f2}
    Parseable = {f1}
    Entries = {e1, e2}
    LastIntent = 2
    Fit <- MCFitSerial
    PageSize = 2
    Uploaders = {u1}
    Matchers = {m1}
    MaxInserts = 2
    CountCap = 2
    MaxFaults = 1
    Overlap = FALSE
INVARIANTS
    
    LinesInsertedOnce
PROPERTIES
    
    BoundStaysBound
CHECK_DEADLOCK FALSE
