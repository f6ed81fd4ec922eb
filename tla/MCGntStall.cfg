SPECIFICATION GntSpec
CONSTANTS
  VERILATOR = TRUE
  MAX_STALL = 2
  Knobs <- MCKnobs
INVARIANTS GntTypeOK WaitBounded
PROPERTY Granted
