SPECIFICATION FairSpec
CONSTANTS
    NULL = NULL
    c1 = c1
    c2 = c2
    Calls = {c1, c2}
    Codecs = {k1, k2}
    Deadlines = {c1}
    Unencodable = {c2}
    Pooled = FALSE
    MaxDrops = 1
    Answers <- JsonAnswers
CHECK_DEADLOCK FALSE
INVARIANTS
    NoLostWakeup
PROPERTIES
    CallsOnce
    DeliveredReturns
