CONSTANTS
    a = a
    b = b
    Junk = Junk
    Escapes <- MCEscapes
    Input <- MCInput
    InitialChunks = 1
    MaxText = 4
SPECIFICATION Spec
INVARIANTS
    TypeInv
    ChunkInArray
    NothingMissing
PROPERTIES
    ImplementsSink
CHECK_DEADLOCK FALSE
