SPECIFICATION FairSpec
CONSTANTS
  Bufs = {b1, b2}
  Dims = {d1, d2}
  Fields = {interlaced}
  Stopper = Stopper
  Off = Off
  DMAPI = DMAPI
  Faults = {FFOF}
  MaxIrqLoops = 2
CHECK_DEADLOCK FALSE
PROPERTY StartedComesBack
