SPECIFICATION FairSpec
CONSTANTS
    c1 = c1
    c2 = c2
    t1 = t1
    t2 = t2
    None = None
    Replies <- AllReplies
    NumReq = 2
    Cancellable = {}
    Caller <- OneCaller
    Transport <- TwoTransports
PROPERTIES
    RequestsResolve
    CallsReturn
    ImplementsSteps
