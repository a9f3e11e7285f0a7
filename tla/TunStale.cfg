SPECIFICATION Spec
CONSTANTS
    Interfaces = {i1}
    Nets = {r1}
    Servers = {d1}
    Domains = {m1}
    None = None
    OpenMethod = "OPEN_BEFORE_CLOSE"
    PersistTun = TRUE
    SameService = FALSE
    AnyType = TRUE
    MaxDns = 2
    MaxSignals = 1
INVARIANTS
    AsRequested
