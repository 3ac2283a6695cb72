CONSTANTS
    Threads = {t1, t2}
    Keys = {1, 2}
    MaxOps = 3
    NoOwner = NoOwner
    Absent = Absent
    NoCall = NoCall
    Pending = Pending
    OkRet = OkRet
    ErrRet = ErrRet
SPECIFICATION Spec
INVARIANT DataRefsValid
