\* Two loggers, three days, the last of them in a new month, files of two units.
CONSTANTS
  Threads = {t1, t2}
  MIN = 2
  MonthOf <- Month
  DayOf <- Day
  MinuteOf <- Clock
  MaxCalls = 3
  MaxNow = 4
  Lens = {1, 2}
  ONELOGFILELIMIT = 2
  NULL = NULL
SYMMETRY ThreadSymmetry
SPECIFICATION Spec
INVARIANTS
  TypeOK
  CacheExact
  EveryRecordInAFile
  FilesInOrder
CHECK_DEADLOCK FALSE
