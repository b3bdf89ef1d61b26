\* Any timing: three descriptors, two connections at a time and three in all.
CONSTANTS
  FirstFd = 2
  FdLimit = 5
  listenFd = 0
  pipeFd = 1
  MAX_FD = 2
  TIMESLOT = 1
  TASK_NUM = 1
  MaxConns = 3
  NULL = NULL
CHECK_DEADLOCK FALSE
SPECIFICATION Spec
INVARIANTS
  TypeOK
  OneLiveTimer
  CountsOpen
  EventsAreLive
