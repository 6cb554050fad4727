CONSTANTS
    Str = {"k"}
    Date = {"d"}
    NotDate = {"x"}
    BadStr = {"q"}
    Plain = {"n"}
    Float = {"f"}
    MaxTokens = 4
    Calls <- MCCalls
SPECIFICATION FairSpec
INVARIANTS
    TypeOK
    RefsBalanced
    NullMeansError
    ErrorInPlace
    AcceptsInOrder
PROPERTIES
    ImplementsLoad
    Terminates
CHECK_DEADLOCK FALSE
