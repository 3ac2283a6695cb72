CONSTANTS
    WordBits = 8
    Threads = {t1, t2}
    Keys = {3, 8}
    Ops = {"lookup", "insert", "delete"}
    MaxOps = 7
    InitialKeys = {0, 2, 4, 6}
    NULL = NULL
    Nil = Nil
    Dangling = Dangling
    Absent = Absent
    NoCall = NoCall
    Pending = Pending
    OkRet = OkRet
    ErrRet = ErrRet
SPECIFICATION FairSpec
INVARIANT ListSorted
INVARIANT TypeOK
INVARIANT BucketsAnchored
INVARIANT NoDanglingPrevUsed
PROPERTY Linearizable
PROPERTY CallsReturn
