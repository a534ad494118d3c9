SPECIFICATION Spec
CONSTANTS
    Versions = {1, 2}
    Steps = {1, 2}
    Users = {manager, deputy}
    Named = manager
    Sequential = FALSE
    Prices = {p100, p200}
    MaxDeaths = 1
    MaxQuotes = 2
    Providers = {field, partner}
    AutoAccept = {partner}
    Procs = {r1, r2}
    None = None
SYMMETRY Symmetry
CHECK_DEADLOCK FALSE
INVARIANTS
    QuotedAsSigned
    AcceptedIsBilledOnce
    WorkIsOrdered
PROPERTIES
    VerdictStands
