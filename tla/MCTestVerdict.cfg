SPECIFICATION Spec
CONSTANTS
  START_CLKS = 2
  DRAIN_CLKS = 2
  MAX_QUIT = 2
  ExitCode = {0, 1, 2}
CHECK_DEADLOCK FALSE
INVARIANTS TypeOK PassIsEarned
PROPERTY SignalledRunEnds
