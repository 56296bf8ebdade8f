SPECIFICATION Spec
CONSTANTS
    NULL = NULL
    Uses = {u1, u2, u3}
    Slots = {s1, s2}
    Compressed = {"gzip", "brotli"}
CHECK_DEADLOCK FALSE
SYMMETRY UseAndSlotSymmetry
INVARIANTS
    TypeOK
    Exclusive
    StreamComplete
    IntactUnlessReused
    DecodesOwn
    PoolProtocol
