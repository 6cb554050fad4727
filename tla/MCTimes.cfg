CONSTANTS
    IntMax = 127
    ExpMax = 31
    MaxDigits = 6
    MaxLength = 3
    Inputs <- MCTimes
SPECIFICATION Spec
INVARIANTS
    TimeKeepsOffset
CHECK_DEADLOCK FALSE
