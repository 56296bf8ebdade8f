SPECIFICATION Spec
CONSTANTS
    NULL = NULL
    Transport = "pb"
    Requests = {r1}
    Methods = {m1}
    Outbound = {}
    WorkerNum = 1
    LimiterCount = 1
    LimiterReject = TRUE
    HandlerReplies <- SoundReplies
INVARIANT NoNilResponse
