SPECIFICATION MCSpec
CONSTANTS
    StdIds <- MCStdIds
    Secam = "none"
    Rects <- MCRects
    Widths <- MCWidths
    Heights <- MCHeights
    Values <- MCValues
INVARIANTS SettingsTypeOK StdAnswersRequest CropInBounds AcceptedIsPreparable ScalerShrinks ControlReadsBack
