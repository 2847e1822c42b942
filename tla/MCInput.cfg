CONSTANTS
    Platforms <- MCPlatforms
    Driver = ps2
    UI = ui_task
    Worker = fs
    Idle = idle
    Others = {ui_task, fs}
    DeviceLines = {1, 12}
    IoapicMax = 23
    Faults = {1, 14}
    MqCap = 3
    Quantums <- MCQuantums
    MaxLoops = 3
    Scripts <- MCScripts
    Packets <- MCPackets
    Bounds <- MCBounds
    fb_width = 4
    fb_height = 4
    lefthanded = FALSE
SPECIFICATION FairSpec
INVARIANTS
    TimerSound
    ContextKept
    NoLineStuck
    EventsTrue
PROPERTY
    BytesRead
CHECK_DEADLOCK FALSE
