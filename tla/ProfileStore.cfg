\* Two profiles made on the screen, one added by an API client.
CONSTANTS
    UserProfiles = {a, b}
    ApiProfiles = {c}
    Threads = {"main", "binder"}
    NoInstance = NoInstance
    LoadsOverlap = FALSE
SPECIFICATION StoreSpec
INVARIANTS
    StoreTypeOK
    

    
