CONSTANTS
    app1 = app1
    app2 = app2
    app3 = app3
    low = low
    saver = saver
    Idle = Idle
    Task <- MCTask
    Priority <- MCPriority
SPECIFICATION FairSpec
PROPERTY
    SlicesFair
    NeverStarves
