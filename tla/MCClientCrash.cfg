SPECIFICATION Spec
CONSTANTS
    NULL = NULL
    c1 = c1
    c2 = c2
    Calls = {c1}
    Codecs = {k1}
    Deadlines = {c1}
    Unencodable = {}
    Pooled = TRUE
    MaxDrops = 0
    Answers <- PlainAnswers
INVARIANT NoSendOnClosed
