\* The pool: four workers as in main.cpp:90, a queue of two.  No symmetry, for the
\* sake of the liveness property.
CONSTANTS
  Workers = {w1, w2, w3, w4}
  TASK_NUM = 2
  MaxAppends = 5
  Main = Main
  NULL = NULL
SPECIFICATION LiveSpec
INVARIANTS
  TypeOK
  QueueWithinLimit
  FifoExactlyOnce
  NoLostWakeup
PROPERTIES
  AcceptedIsParsed
  ImplementsTaskQueue
