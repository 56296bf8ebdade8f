SPECIFICATION FairSpec
CONSTANTS
    NULL = NULL
    c1 = c1
    c2 = c2
    Calls = {c1, c2}
    Codecs = {k1}
    Deadlines = {c1, c2}
    Unencodable = {c1}
    Pooled = TRUE
    MaxDrops = 0
    Answers <- LiveAnswers
INVARIANTS
    TypeOK
    OwnUnlessReused
    ForeignOnlyLate
PROPERTIES
    CallReturns
    ReaderEnds
