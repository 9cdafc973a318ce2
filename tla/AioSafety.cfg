SPECIFICATION Spec
CONSTANTS
    c1 = c1
    c2 = c2
    t1 = t1
    t2 = t2
    None = None
    Replies <- AllReplies
    NumReq = 2
    Cancellable = {1}
    Caller <- TwoCallers
    Transport <- TwoTransports
SYMMETRY Symmetry
INVARIANTS
    NoOrphanRequest
    AliveHasContext
PROPERTY CloseOutlasts
