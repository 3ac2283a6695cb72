CONSTANTS
    WordBits = 8
    Threads = {t1, t2}
    Keys = {1}
    Ops = {"insert", "delete"}
    MaxOps = 2
    InitialKeys = {}
    NULL = NULL
    Nil = Nil
    Dangling = Dangling
    Absent = Absent
    NoCall = NoCall
    Pending = Pending
    OkRet = OkRet
    ErrRet = ErrRet
SPECIFICATION Spec
SYMMETRY ThreadSymmetry
INVARIANT CountNeverExceedsEntries
