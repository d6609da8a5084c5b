\* A call ends.
CHECK_DEADLOCK FALSE
SPECIFICATION Spec
CONSTANTS
    Inputs <- InvalidInputs
    UIntMod = 256
    MaxMemory = 100
INVARIANT InvalidDataCroaks
