SPECIFICATION InputsSpec
CONSTANTS
  Bufs = {b1, b2}
  Dims = {d1, d2}
  Fields = {interlaced}
  Stopper = Stopper
  Off = Off
  DMAPI = DMAPI
  Faults = {}
  MaxIrqLoops = 1
  Inputs = {i0, i1}
  Input0 = i0
SYMMETRY Symmetry
CHECK_DEADLOCK FALSE
INVARIANTS HwInputIsMux FramesFromAsked
