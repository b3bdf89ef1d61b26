\* Below the memory limit, every fwrite complete: the ring implements BatchLog.
CONSTANTS
  Producers = {p1, p2}
  Lens = {1, 2}
  CellCap = 2
  MaxBuffCnt = 6
  RELOGTHRESOLD = 1
  MaxCalls = 2
  MaxClock = 1
  NULL = NULL
SPECIFICATION LiveSpec
INVARIANTS
  DiskInProgramOrder
  NothingDropped
PROPERTIES
  RecordsReachDisk
  FullIsStable
  ImplementsBatchLog
CHECK_DEADLOCK FALSE
