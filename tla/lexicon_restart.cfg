CONSTANTS
    t1 = t1
    t2 = t2
    t3 = t3
    t4 = t4
    Terms = {t1, t2, t3}
    Docs <- TightDocs
    Words <- TightWords
    Tags = {a, b, c, d}
    MaxLoad = 5
    MaxRestarts = 2
    Pruning = TRUE
    None = None
SPECIFICATION Spec
SYMMETRY TagSymmetry
INVARIANTS
    ReturnedSetIsLive
    TrackedOnce
    NoPanic
PROPERTIES
    LexSpec
    SaveIsComplete
