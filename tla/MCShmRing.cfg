\* Three lives of the server; the ring has two cells of two records and grows by one.
CONSTANTS
  CellCap = 2
  MaxBuffCnt = 4
  MaxLives = 3
  MaxRecords = 5
  Zero = Zero
  Absent = Absent
SPECIFICATION Spec
INVARIANTS
  TypeOK
  StartsAgain
  CrashLosesNothing
  SavedCompletesLog
CHECK_DEADLOCK FALSE
