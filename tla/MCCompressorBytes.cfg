SPECIFICATION Spec
CONSTANTS
    NULL = NULL
    Uses = {u1, u2}
    Slots = {s1}
    Compressed = {"gzip", "brotli"}
CHECK_DEADLOCK FALSE
INVARIANT BodyIntact
