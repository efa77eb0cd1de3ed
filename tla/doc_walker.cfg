CONSTANTS
    Words <- SmallWords
    Symbols <- SmallSymbols
    NoDoc = NoDoc
    N = 3
    Trees <- SmallTrees
SPECIFICATION FairSpec
INVARIANTS TypeOK ClosedLast InOrder AllIndexed
PROPERTY IndexingEnds
CHECK_DEADLOCK FALSE
