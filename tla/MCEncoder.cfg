CONSTANTS
    Node <- MCNode
    Obj <- MCObj
    Extra = 10
    MaxDepth = 4
    InitialSize = 10
    Debug = TRUE
SPECIFICATION FairSpec
INVARIANTS
    TypeOK
    DepthCountsLevels
    PendingIsSeen
    SomeoneReports
    NullMeansException
    NoOverrun
    Slack
    CommaInBuffer
    RefsReleased
PROPERTIES
    FirstExceptionKept
    InnermostReports
    ImplementsCall
    Terminates
