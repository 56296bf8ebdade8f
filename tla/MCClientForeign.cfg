SPECIFICATION Spec
CONSTANTS
    NULL = NULL
    c1 = c1
    c2 = c2
    Calls = {c1, c2}
    Codecs = {k1, k2}
    Deadlines = {c1, c2}
    Unencodable = {}
    Pooled = TRUE
    MaxDrops = 0
    Answers <- PlainAnswers
INVARIANT NoForeignReply
