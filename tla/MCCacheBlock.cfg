CONSTANTS
    Threads = {t1, t2, t3}
    Keys = {k1, k2}
    NoOwner = NoOwner
    FPanics = FALSE
SPECIFICATION HangSpec
PROPERTY DisjointCallsFinish
