SPECIFICATION FairSpec
CONSTANTS
    NULL = NULL
    Transport = "pb"
    Requests = {r1, r2}
    Methods = {m1}
    Outbound = {}
    WorkerNum = 1
    LimiterCount = 1
    LimiterReject = TRUE
    HandlerReplies <- AnyReplies
INVARIANTS
    TypeOK
    SentIsResponse
    DoneAnswered
    DeferredResponse
    NoReplyMeansSilent
    ReplyProtocol
PROPERTIES
    AnswerFinal
    RepliesOnce
    CallReturns
    Answered
