CONSTANTS
    Threads = {t1, t2}
    Indices = {1, 6, 31}
    MaxGets = 3
    SegLog = 2
    WordBits = 6
    Elem = Elem
    NoSlot = NoSlot
    NoCall = NoCall
    Pending = Pending
SPECIFICATION Spec
SYMMETRY ThreadSymmetry
INVARIANT NoUseAfterFree
INVARIANT DropFreesEachSegmentOnce
PROPERTY Linearizable
