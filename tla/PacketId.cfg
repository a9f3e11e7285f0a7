\* Windows of one and two identifiers and TCP mode, with and without time stamps,
\* a sender whose ids wrap after three packets, and
\* a reap only every other second, so that packets are accepted that are too late.
CONSTANTS
    Backtracks = {0, 1, 2}
    TimeBacktrack = 1
    ReapInterval = 2
    MaxId = 3
    LongForms = {TRUE, FALSE}
    MaxNow = 5
SPECIFICATION PacketSpec
CHECK_DEADLOCK FALSE
INVARIANTS PacketTypeOK NoReplay WindowUpToReaping
PROPERTY NoReuse
