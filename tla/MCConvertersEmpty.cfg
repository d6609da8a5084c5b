\* A call ends.
CHECK_DEADLOCK FALSE
SPECIFICATION Spec
CONSTANTS
    Inputs <- EmptyInputs
    UIntMod = 256
    MaxMemory = 100
INVARIANT WellFormedComesBack
