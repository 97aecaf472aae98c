SPECIFICATION DeviceSpec
CONSTANTS
  Devs = {d1, d2, d3}
  Handles = {h1}
  MaxBoards = 2
  NoDev = NoDev
SYMMETRY Symmetry
CONSTRAINT OneStarted
CHECK_DEADLOCK FALSE
INVARIANTS DeviceTypeOK OnlyKnownStaleUses OnlyKnownLeftBehind CountIsBound NodeFindsDevice QuietAfterUnload
