CONSTANTS
    Lists = 1000
    Node <- MCNode
    Obj <- MCObj
    Extra = 10
    MaxDepth = 1000
    InitialSize = 10
    Debug = TRUE
SPECIFICATION NestingSpec
INVARIANT LeaveAssertion
