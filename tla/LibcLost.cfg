SPECIFICATION FairSpec
CONSTANTS
    UNITS = 4
    WORD = 4
    INT = 3
    PAGE = 4
    ALLOCSIZE = 16
    maxchunks = 3
    Sizes = {}
    Aligns = {1, 4}
    MaxLive = 3
    MaxAddr = 120
    app = app
    drv = drv
    fs = fs
    ui = ui
    inet = inet
    Clients = {app, drv}
    Fs = fs
    Services = {ui, inet}
    Running = {fs, ui}
    MayCall <- TwoOfFs
    Acl <- MCAcl
    Prio <- MCPrio
    Owner <- MCOwner
    MaxCalls <- MCMaxCalls
    nrmqmax = 1
    mq_buffsize = 256
    PAGESIZE = 4096
    Arrays = {}
    WORDSIZE = 4
    Memories = {}
    LogSize = 15
    Reserve = 7
    Messages = {}
PROPERTY
    CallsReturn
CHECK_DEADLOCK FALSE
