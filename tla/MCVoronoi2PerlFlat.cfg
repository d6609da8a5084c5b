CONSTANT
    Diagrams <- MCFlat
SPECIFICATION ExportSpec
INVARIANTS
    NoNullDereference
