\* Error responses are never sent.
CONSTANTS
  FirstFd = 2
  FdLimit = 3
  listenFd = 0
  pipeFd = 1
  MAX_FD = 1
  TIMESLOT = 1
  TASK_NUM = 1
  MaxConns = 1
  NULL = NULL
CHECK_DEADLOCK FALSE
SPECIFICATION SpecPrompt
INVARIANTS
  WriteHasData
