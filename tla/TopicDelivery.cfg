SPECIFICATION FairSpec
CONSTANTS
    MaxSeq = 5
    MaxPage = 3
    MaxBreaks = 3
    UnknownSeqs = {2}
    None = None
INVARIANTS
    TypeOK
PROPERTIES
    ImplementsTopicOrder
    BeginsWhereAsked
    CatchesUp
CHECK_DEADLOCK FALSE
