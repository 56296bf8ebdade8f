SPECIFICATION Spec
CONSTANTS
    NULL = NULL
    Callers = {c1, c2, c3}
    Losts = {}
    Onces = {c2}
    Leavers = {c1}
    Loops = {l1}
    MaxDrops = 0
CHECK_DEADLOCK FALSE
INVARIANTS
    TypeOK
    KeepsRegistration
    ConnectedInvoked
    NotForgotten
