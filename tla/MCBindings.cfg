\* The process may be aborted, and the heap of the model has few objects.
CHECK_DEADLOCK FALSE
SPECIFICATION Spec
CONSTANTS
    p1 = p1
    p2 = p2
    m1 = m1
    l1 = l1
    l2 = l2
    s1 = s1
    s2 = s2
    s3 = s3
    xy = xy
    Object <- MCObject
    TypeOf <- MCTypeOf
    Variable = {v1, v2}
    NoObject = NoObject
SYMMETRY Interchangeable
INVARIANTS
    BindingsTypeOK
    OnlyPolygonHandlesDangle
PROPERTIES
    OwnershipKept
    OnlyCroaksAndDropsLose
