CONSTANTS
    t1 = t1
    t2 = t2
    t3 = t3
    t4 = t4
    Terms = {t1, t2, t3}
    Docs <- SharedDocs
    Words <- SharedWords
    Tags = {a, b, c, d}
    MaxLoad = 10
    MaxRestarts = 0
    Pruning = FALSE
    None = None
SPECIFICATION Spec
SYMMETRY TagSymmetry
INVARIANTS
    SavedIndexCanBeReloaded
