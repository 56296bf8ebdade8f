SPECIFICATION FairSpec
CONSTANTS
    NULL = NULL
    Callers = {c1, c2}
    Losts = {c2}
    Onces = {c2}
    Leavers = {}
    Loops = {l1, l2}
    MaxDrops = 1
CHECK_DEADLOCK FALSE
PROPERTIES
    WaitsForSuccess
    DisconnectFinal
    RetryEnds
    CallbackRuns
