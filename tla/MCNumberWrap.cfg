CONSTANTS
    IntMax = 127
    ExpMax = 31
    MaxDigits = 6
    MaxLength = 3
    Inputs <- MCNarrowNumbers
SPECIFICATION Spec
INVARIANTS
    BigIntExact
CHECK_DEADLOCK FALSE
