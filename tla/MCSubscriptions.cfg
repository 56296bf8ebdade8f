SPECIFICATION FairSpec
CONSTANTS
    Ops = {o1, o2}
    Topics = {t1, t2}
    Timed = {o1}
    MaxDrops = 1
CHECK_DEADLOCK FALSE
INVARIANTS
    TypeOK
    Tracked
    UnsubscribedAll
    RemovalsSent
PROPERTIES
    WaitReturns
