CONSTANTS
    a = a
    b = b
    Junk = Junk
    Char <- MCChar
    Slices <- MCSlices
    InitialSize = 2
    Debug = TRUE
    Slack = 1
    MaxText = 6
SPECIFICATION FileSpec
INVARIANTS
    FileTypeInv
    NothingLost
    WrittenIsPrefix
    BoundedBlock
PROPERTIES
    ImplementsFileSink
CHECK_DEADLOCK FALSE
