CONSTANTS
    fs = fs
    drv = drv
    app = app
    init = init
    irq1 = irq1
    irq12 = irq12
    Idle = Idle
    Task <- LiveTask
    Priority <- LivePriority
    Irq = {}
    FS = fs
    InitTask = init
    MqCap = 1
    quantum = 2
    qdiv = 2
    tmrfreq = 1
    MaxSec = 0
    IrqOf <- NoIrqOf
    SetIrqOf <- NoIrqOf
    Peers <- LivePeers
    Refused = {}
    Sleepers = {}
    Spinners = {}
SPECIFICATION FairSpec
PROPERTY NoStarvation
