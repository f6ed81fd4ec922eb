SPECIFICATION Spec
CONSTANTS
  WORDS = 3
  Retirement <- MCRetirement
  OK_WINDOW = 2
  LATE_LIMIT = 1
  MAX_OBID = 2
  MAX_OBII = 3
  MAX_RVFI = 4
CHECK_DEADLOCK FALSE
INVARIANTS TypeOK ErrQueueIsLatest NmisBalance LateNmiReported
