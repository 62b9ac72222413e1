SPECIFICATION Spec
CONSTANTS
    Widths <- MCWidths
    Heights <- MCHeights
INVARIANTS
    PlanesInside
    UsedIsExtent
    MetaCoversTiles
    LayoutAsDocumentedBut10Bit
