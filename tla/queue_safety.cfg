SPECIFICATION Spec
CONSTANTS
  Bufs = {b1, b2, b3}
  Dims = {d1, d2}
  Fields = {interlaced}
  Stopper = Stopper
  Off = Off
  DMAPI = DMAPI
  Faults = {}
  MaxIrqLoops = 1
SYMMETRY Symmetry
CHECK_DEADLOCK FALSE
INVARIANTS TypeOK ListsMatchState ChainFollowsActive ScalerFitsActive WatchdogArmed DoneIsFull EngineInActive
PROPERTY InOrderOnce
