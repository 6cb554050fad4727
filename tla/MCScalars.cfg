CONSTANTS
    IntMax = 127
    ExpMax = 31
    MaxDigits = 6
    MaxLength = 4
    Inputs <- MCInputs
SPECIFICATION Spec
INVARIANTS
    TypeOK
    NumberIsRead
    StringIsRead
    MomentsReadBack
CHECK_DEADLOCK FALSE
