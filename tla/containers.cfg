\* Three walkers over files of at most fourteen scaled-down bytes.
SPECIFICATION ContainerSpec
CONSTANTS
  NONE = NONE
  Inputs <- MCInputs
  MaxFileSize = 20
  MaxTotalBytes = 8
  MaxRatio = 3
  MaxStreams = 4
  MaxNameBytes = 5
  MaxDepth = 3
  OuterHeader = 3
  MarkerLen = 2
  FrameHeader = 3
  DirectoryPrefix = 3
  DirectoryTrailer = 1
  EocdLen = 2
  MaxEocdSearch = 6
  CentralLen = 2
  LocalLen = 1
  DescriptorLen = 1
  CfbHeader = 2
  SectorSize <- MCSectorSize
  ZlbHeader = 1
  ZlbTrailer = 1
  ProbeWindow = 10
INVARIANTS
  BytesPartitioned
  BudgetHolds
  FramesApart
  CompleteIsWhole
  OnlyValidatedIsReleased
CHECK_DEADLOCK FALSE
