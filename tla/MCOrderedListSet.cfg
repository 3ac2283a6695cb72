CONSTANTS
    Threads = {t1, t2}
    Keys = {1, 2}
    MaxOps = 4
    NoOwner = NoOwner
    Absent = Absent
    NoCall = NoCall
    Pending = Pending
    OkRet = OkRet
    ErrRet = ErrRet
SPECIFICATION FairSpec
INVARIANT ListSorted
INVARIANT CursorNotFreed
INVARIANT DropFreesEachNodeOnce
PROPERTY Linearizable
PROPERTY CallsFinish
