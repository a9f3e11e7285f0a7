\* The comment at line 364 of OpenVPNService.java, with sleeps that are always
\* long enough for processes that were told to exit.
CONSTANTS
    MaxStarts = 2
    MaxStops = 0
    KilledOnce = FALSE
    SleepsSuffice = TRUE
SPECIFICATION Spec
CHECK_DEADLOCK FALSE
INVARIANT OldVPNExited
