SPECIFICATION DmacFairSpec
CONSTANTS
  Formats = {rgb}
  MaxIrqLoops = 2
INVARIANT CommandStands
PROPERTY HandlerLeaves
