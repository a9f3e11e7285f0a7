\* Two sessions, one disconnect or revocation and one kill of the app, and no
\* assumption on how long a process takes to connect or to exit.
CONSTANTS
    MaxStarts = 2
    MaxStops = 1
    KilledOnce = TRUE
    SleepsSuffice = FALSE
SPECIFICATION FairSpec
CHECK_DEADLOCK FALSE
INVARIANTS TypeOK ManagedStoppable OneClient RunningIsKnown QuietIsClean
PROPERTIES NoUnwantedRestart StopEnds
