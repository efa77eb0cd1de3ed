CONSTANTS
    t1 = t1
    t2 = t2
    t3 = t3
    t4 = t4
    Terms = {t1, t2, t3, t4}
    Docs <- WideDocs
    Words <- WideWords
    Tags = {a, b, c, d}
    MaxLoad = 5
    MaxRestarts = 0
    Pruning = FALSE
    None = None
SPECIFICATION Spec
SYMMETRY TagSymmetry
INVARIANTS
    SwappedCacheIsComplete
