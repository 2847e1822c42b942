CONSTANTS
    fs = fs
    drv = drv
    app = app
    init = init
    irq1 = irq1
    irq12 = irq12
    Idle = Idle
    Task <- LiveTask
    Priority <- LivePriority
    Irq = {}
    FS = fs
    InitTask = init
    MqCap = 1
    quantum = 2
    qdiv = 2
    tmrfreq = 2
    MaxSec = 1
    IrqOf <- NoIrqOf
    SetIrqOf <- NoIrqOf
    Peers <- SleepPeers
    Refused = {fs}
    Sleepers = {init}
    Spinners = {init}
SPECIFICATION FairSpec
INVARIANTS
    QueuesWhole
PROPERTY
    SleepersWake
