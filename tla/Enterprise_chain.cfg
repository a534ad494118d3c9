SPECIFICATION Spec
CONSTANTS
    Versions = {1, 2}
    Steps = {1, 2}
    Users = {manager, deputy}
    Named = manager
    Sequential = FALSE
    Prices = {p100, p200}
    MaxDeaths = 0
    MaxQuotes = 2
    Providers = {field, partner}
    AutoAccept = {partner}
    Procs = {r1}
    None = None
CHECK_DEADLOCK FALSE
INVARIANTS
    ChainIsRebuilt
