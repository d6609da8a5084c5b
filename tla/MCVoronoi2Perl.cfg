CONSTANT
    Diagrams <- MCDiagrams
SPECIFICATION ExportFairSpec
INVARIANTS
    NoNullDereference
    LinksStayInverse
    LinksFollowAxis
    InsideKept
    AllFeetFound
    ExportComplete
    ReferencesMutual
    VerticesOnce
PROPERTIES
    ExportEnds
