CONSTANTS
    Threads = {t1, t2, t3}
    Keys = {k1, k2}
    NoOwner = NoOwner
    FPanics = TRUE
SPECIFICATION Spec
INVARIANT PanicStaysWithKey
