\* Four timers in an array that starts with one node and doubles twice.
CONSTANTS
  Capacity = 1
  Lifetime = 2
  Delays = {1, 2}
  MaxTimers = 4
  MaxClock = 3
  NULL = NULL
SPECIFICATION Spec
INVARIANTS
  TypeOK
  HeapSound
PROPERTIES
  ImplementsTimerSet
CHECK_DEADLOCK FALSE
