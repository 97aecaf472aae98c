SPECIFICATION RestartSpec
CONSTANTS
  Bufs = {b1, b2}
  Dims = {d1, d2}
  Fields = {interlaced}
  Stopper = Stopper
  Off = Off
  None = None
  DMAPI = DMAPI
  Faults = {}
  MaxIrqLoops = 1
SYMMETRY Symmetry
CHECK_DEADLOCK FALSE
INVARIANTS RestartTypeOK RequeueLeavesQueueWhole OnlySuspendDisarms ResumeServes
