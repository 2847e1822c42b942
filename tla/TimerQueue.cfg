CONSTANTS
    t1 = t1
    t2 = t2
    t3 = t3
    Idle = Idle
    Task <- MCTask
    Priority <- MCPriority
    tmrfreq = 3
    MaxSec = 1
SPECIFICATION FairSpec
INVARIANT
    AlarmsSound
PROPERTY
    SleepEnds
