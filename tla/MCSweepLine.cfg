CONSTANTS
    Inputs <- MCInputs
    Site <- MCSite
SPECIFICATION FairSpec
INVARIANTS
    TypeOK
    NodesHoldOpenBisectors
    EventsCurrent
    EndPointsAhead
    WithinReserve
    CellsIndexedBySite
    WellLinked
    Trivalent
PROPERTIES
    HalfEdgeSpec
    Terminates
