\* Every request in every division into parts.
CONSTANTS
  Requests <- MCRequests
  Slips <- MCSlips
  MAX_READ_DATA_BUFF_SIZE = 30
  MAX_WRITE_DATA_BUFF_SIZE = 8
  HugeLength = 40
  NULL = NULL
SPECIFICATION Spec
INVARIANTS
  TypeOK
  NoCrash
  FieldsAreSent
  CompleteIsAnswered
CHECK_DEADLOCK FALSE
