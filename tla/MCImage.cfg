CONSTANTS
    secsize = 4
    inlinesize = 3
    sdinline = 2
    sdmax = 4
    dirmax = 9
    Order <- MCOrder
    Longer <- MCLonger
    Elfs <- MCElfs
    IrqOf <- MCIrqOf
    TEXT_ADDRESS = 1000
    Exports <- MCExports
    maxrelas = 9
    maxtext = 14
    isr_maxirq = 4
    libcso <- libc
    Hosts <- MCHosts
    Readdirs <- MCReaddirs
    Commands <- MCCommands
    Disks <- MCDisks
    maxlevel = 2
SPECIFICATION Spec
INVARIANTS
    FilesAsOnHost
    MetadataTrue
    TasksLinked
    PagesApart
    DiskLayout
CHECK_DEADLOCK FALSE
