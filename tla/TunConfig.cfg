SPECIFICATION FairSpec
CONSTANTS
    Interfaces = {i1, None}
    Nets = {r1}
    Servers = {d1}
    Domains = {m1}
    None = None
    OpenMethod = "OPEN_AFTER_CLOSE"
    PersistTun = TRUE
    SameService = TRUE
    AnyType = FALSE
    MaxDns = 2
    MaxSignals = 1
INVARIANTS
    TunTypeOK
    OneTun
    ClosedFirst
    LastIsInUse
    NothingMissing
PROPERTIES
    OpeningEnds
