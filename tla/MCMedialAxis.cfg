CONSTANTS
    Inputs <- MCInputs
    Site <- MCSite
SPECIFICATION AxisFairSpec
INVARIANTS
    LiveLinks
    StarsComplete
    BoundariesKept
    VerticesKept
    CellsClosed
PROPERTIES
    BuildEnds
