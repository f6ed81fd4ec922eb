SPECIFICATION Spec
CONSTANTS
  VERILATOR = TRUE
  HALF = 4
  Half = {0, 3}
  Irq = {i3, i16}
  Mask = {{}, {i3, i16}}
  SIG_ALLOWED_MASK = {i3}
  TIMER_MAX = 2
  DEFAULT_RANGE = 2
  DebugCommand <- MCDebugCommand
PROPERTY PulseEnds
