CONSTANTS
  MaxFcb = 14
  Pids <- MCPids
  Bucket <- MCBucket
  cachelines = 5
  Media <- MCMedia
  MaxSize = 56
  Fstab <- MCFstab
  PageSize = 4
  Scenarios <- MCScenarios
  Super <- MCSuper
  RamBlocks = 13
SPECIFICATION FairSpec
INVARIANTS
    FilesCounted
    FilesTrue
    ReadsFile
    BlocksSound
PROPERTIES
    ServedAlone
    Answered
CHECK_DEADLOCK FALSE
