SPECIFICATION FairSpec
CONSTANTS
    NULL = NULL
    Transport = "json"
    Requests = {r1, r2}
    Methods = {m1}
    Outbound = {r1, r2}
    WorkerNum = 1
    LimiterCount = 1
    LimiterReject = FALSE
    HandlerReplies <- AnyReplies
PROPERTIES
    RouterAdvances
    CalloutReturns
    WorkerFreed
