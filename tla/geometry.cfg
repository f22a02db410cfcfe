\* Inventories of up to three entries and payloads of up to four nested streams.
SPECIFICATION MeterSpec
CONSTANTS
  NONE = NONE
  Gates <- MCGates
  Sources <- MCSources
  MaxFileSize = 7
  MaxTotalBytes = 8
  MaxStreams = 3
  MaxProbes = 4
INVARIANTS
  ActiveWasRead
  BudgetIsShared
  LossReported
  PartitionIsExact
  CompleteIsAccounted
CHECK_DEADLOCK FALSE
