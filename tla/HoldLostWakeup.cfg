SPECIFICATION HoldSpec
CONSTANTS
    Networks = {wifi, mobile}
    NoNetwork = NoNetwork
    ScreenOffPref = FALSE
    Requesters = {"main"}
    AnyRequest = FALSE
    PrefMayChange = FALSE
    MaxQueue = 3
INVARIANTS
    NoLostWakeup
