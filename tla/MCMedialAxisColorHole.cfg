CONSTANT
    Diagrams <- MCDart
SPECIFICATION Spec
INVARIANTS
    ColoursMatchPolygon
