CONSTANTS
    Grid <- SmallGrid
    MaxPoints = 4
SPECIFICATION Spec
INVARIANTS
    SweepOrderTotal
    RepresentationIndependent
    EndPointsAroundSegments
CHECK_DEADLOCK FALSE
