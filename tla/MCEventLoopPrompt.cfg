\* A pool that is done with a request before its connection expires.
CONSTANTS
  FirstFd = 2
  FdLimit = 4
  listenFd = 0
  pipeFd = 1
  MAX_FD = 2
  TIMESLOT = 1
  TASK_NUM = 1
  MaxConns = 2
  NULL = NULL
CHECK_DEADLOCK FALSE
SPECIFICATION LivePrompt
INVARIANTS
  OwnedOnce
  SendsFromMapping
PROPERTIES
  NeverAbandoned
  IdleIsClosed
