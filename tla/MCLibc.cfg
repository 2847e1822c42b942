SPECIFICATION FairSpec
CONSTANTS
    UNITS = 4
    WORD = 4
    INT = 3
    PAGE = 4
    ALLOCSIZE = 16
    maxchunks = 3
    Sizes = {1, 2, 3, 20}
    Aligns = {1, 4}
    MaxLive = 3
    MaxAddr = 110
    app = app
    drv = drv
    fs = fs
    ui = ui
    inet = inet
    Clients = {app, drv}
    Fs = fs
    Services = {ui, inet}
    Running = {fs, ui}
    MayCall <- OneOfFs
    Acl <- MCAcl
    Prio <- MCPrio
    Owner <- MCOwner
    MaxCalls <- MCMaxCalls
    nrmqmax = 1
    mq_buffsize = 256
    PAGESIZE = 4096
    Arrays <- MCArrays
    WORDSIZE = 4
    Memories <- MCMemories
    LogSize = 15
    Reserve = 7
    Messages <- MCMessages
INVARIANTS
    HeapSound
    CallsOwn
    SortedOutside
    TextRight
    LogWhole
PROPERTY
    CallsReturn
\* The calls are bounded; after the last one the servers wait for ever.
CHECK_DEADLOCK FALSE
