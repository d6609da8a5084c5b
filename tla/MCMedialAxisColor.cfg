CONSTANT
    Diagrams <- MCDiagrams
SPECIFICATION FairSpec
INVARIANTS
    ColoursMatchPolygon
    RecursionBounded
PROPERTIES
    OnlyTurnsInside
    ColouringEnds
