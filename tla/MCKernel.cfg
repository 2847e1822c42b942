CONSTANTS
    fs = fs
    drv = drv
    app = app
    init = init
    irq1 = irq1
    irq12 = irq12
    Idle = Idle
    Task <- MCTask
    Priority <- MCPriority
    Irq = {irq1, irq12}
    FS = fs
    InitTask = init
    MqCap = 2
    quantum = 2
    qdiv = 2
    tmrfreq = 1
    MaxSec = 0
    IrqOf <- MCIrqOf
    SetIrqOf <- MCSetIrqOf
    Peers <- MCPeers
    Refused = {}
    Sleepers = {}
    Spinners = {}
SPECIFICATION Spec
INVARIANTS
    TypeOK
    QueuesWhole
    LinksMirror
    RunsRunnable
    NoLostWakeup
    IdleOnlyWhenIdle
    MaskedIsPending
