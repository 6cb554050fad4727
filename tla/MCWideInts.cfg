CONSTANTS
    IntMax = 127
    ExpMax = 31
    MaxDigits = 6
    MaxLength = 3
    Inputs <- MCNumbers
SPECIFICATION Spec
INVARIANTS
    IntIsInt
CHECK_DEADLOCK FALSE
