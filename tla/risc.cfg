SPECIFICATION RiscSpec
CONSTANTS
    PageSize = 8
    Bpls <- MCBpls
    Heights <- MCHeights
    Orders <- MCOrders
CHECK_DEADLOCK FALSE
INVARIANTS PiecesInPlace LinesWhole FitsEstimate ProgramComplete
