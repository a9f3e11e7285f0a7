SPECIFICATION HoldSpec
CONSTANTS
    Networks = {wifi, mobile}
    NoNetwork = NoNetwork
    ScreenOffPref = TRUE
    Requesters = {"main", "api"}
    AnyRequest = TRUE
    PrefMayChange = TRUE
    MaxQueue = 1
INVARIANTS
    LostOnlyByRace
    PauseHonoured
    UserPauseHolds
