CONSTANTS
    Threads = {t1}
    Indices = {31}
    MaxGets = 1
    SegLog = 2
    WordBits = 6
    Elem = Elem
    NoSlot = NoSlot
    NoCall = NoCall
    Pending = Pending
SPECIFICATION Spec
INVARIANT PowInRange
