SPECIFICATION FairHoldSpec
CONSTANTS
    Networks = {wifi, mobile}
    NoNetwork = NoNetwork
    ScreenOffPref = FALSE
    Requesters = {"main"}
    AnyRequest = FALSE
    PrefMayChange = FALSE
    MaxQueue = 3
INVARIANTS
    HoldTypeOK
    HoldTracked
    NoNeedlessPause
    ReasonIsTruthful
PROPERTIES
    HoldAnswered
    ReleaseLeadsToRun
    ImplementsPromise
