CONSTANTS
    fs = fs  ui = ui  video = video  srv = srv
    PAGESIZE = 2  SLOTPAGES = 4
    nrphymax = 2  nrlogmax = 1  MaxEntries = 6  PHYMEM_MIN = 32
    nrmqmax = 1  ScreenSlots = 2  Framebuffer = 1600  environment = 1500  RamTop = 238
    MaxCalls = 4
    Tasks <- MCTasks
    Kind <- MCKind
    Maps <- MCMaps
    HeapAreas <- MCAreas
SPECIFICATION Spec
INVARIANTS
    PagesAccounted
PROPERTY
    MappingsStay
