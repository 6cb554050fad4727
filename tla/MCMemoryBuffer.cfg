CONSTANTS
    a = a
    b = b
    Junk = Junk
    Char <- MCChar
    Slices <- MCSlices
    InitialSize = 2
    Debug = FALSE
    Slack = 2
    MaxText = 5
SPECIFICATION Spec
INVARIANTS
    TypeInv
    Intact
PROPERTIES
    NeverShrinks
    ImplementsSink
CHECK_DEADLOCK FALSE
