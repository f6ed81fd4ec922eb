SPECIFICATION RvalidSpec
CONSTANTS
  FIFO_DEPTH = 2
  MAX_OUTSTANDING = 2
  DELAY_RANGE = 4
  XLEN = 1
  Knobs <- MCKnobs
INVARIANTS RvalidTypeOK CountsAgree
PROPERTIES InOrderResponses EveryResponseComes
