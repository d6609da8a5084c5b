\* A call ends.
CHECK_DEADLOCK FALSE
SPECIFICATION Spec
CONSTANTS
    Inputs <- AllInputs
    UIntMod = 256
    MaxMemory = 100
INVARIANTS
    ObjectsWellFormed
    RoundTrip
