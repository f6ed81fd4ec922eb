SPECIFICATION Spec
CONSTANTS
  XLEN = 1
  VERILATOR = FALSE
  MAX_STALL = 1
  Knobs <- MCKnobs
  FIFO_DEPTH = 2
  MAX_OUTSTANDING = 2
  DELAY_RANGE = 2
  RAM_WORDS = 2
  DBG_WORDS = 1
  dm_halt_addr_i = 4
  PlainAddr = {0, 4}
  AtomicAddr = {0}
  AmoOps = {"ADD"}
  AtomicData = {1}
  DevData = {1}
  NoReservation = NoReservation
INVARIANTS TypeOK CountsAgree
PROPERTIES AtomicMemory
