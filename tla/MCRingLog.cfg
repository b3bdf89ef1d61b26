\* The ring at its memory limit after one expansion, short writes included.
CONSTANTS
  Producers = {p1, p2}
  Lens = {2}
  CellCap = 3
  MaxBuffCnt = 4
  RELOGTHRESOLD = 1
  MaxCalls = 3
  MaxClock = 2
  NULL = NULL
SYMMETRY ProducerSymmetry
SPECIFICATION Spec
INVARIANTS
  TypeOK
  RingIsOneCycle
  FullRun
  PartialIsCur
CHECK_DEADLOCK FALSE
