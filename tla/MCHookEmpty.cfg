CONSTANTS
    Str = {"k"}
    Date = {"d"}
    NotDate = {"x"}
    BadStr = {"q"}
    Plain = {"n"}
    Float = {"f"}
    MaxTokens = 2
    Calls <- MCCalls
SPECIFICATION Spec
INVARIANTS
    EveryObjectHooked
CHECK_DEADLOCK FALSE
