--------------------------- MODULE OrderedListSet ---------------------------
(***************************************************************************)
(* The lock-coupling sorted list of src/homework/src/list_set.rs: threads  *)
(* calling `contains`, `insert`, `remove` and `iter` on a shared           *)
(* OrderedListSet, then its `Drop`.                                        *)
(*                                                                         *)
(* A node is its allocation number; location 0 is the `head` Mutex and     *)
(* location n > 0 node n's `next` Mutex, each holding a pointer (0 is      *)
(* null).  A cursor is the location whose guard a thread holds.  Taking a  *)
(* lock is a step guarded on it being free, as std's Mutex blocks; the     *)
(* hand-over-hand move (`lock` the next, then drop the old guard by        *)
(* assigning the cursor) is one step.  `held` is the data references an    *)
(* Iter has handed out (`&'l T`), kept by the caller until its call ends.  *)
(***************************************************************************)
EXTENDS Naturals, FiniteSets, Sequences, Bags

CONSTANTS Threads,
          Keys,     \* the keys, as numbers ordered by <
          MaxOps,   \* bound on calls; also bounds the nodes allocated
          NoOwner,  \* a free Mutex
          Absent, NoCall, Pending, OkRet, ErrRet  \* as in NonblockingMap

Nodes == 1 .. MaxOps
Locs == 0 .. MaxOps
Ops == {"contains", "insert", "remove", "iter"}

VARIABLES
    ptr,     \* location -> the pointer its Mutex guards
    lock,    \* location -> the thread holding its Mutex
    nkey,    \* node -> its data (0 before allocation)
    alloc,   \* nodes allocated
    frees,   \* bag of the nodes deallocated
    ops,     \* calls started
    dropped, \* the set has been dropped
    pc, op, key, cur, held, res  \* per thread

heap == <<ptr, nkey, alloc, frees>>
call == <<op, key, cur, held, res>>
vars == <<heap, lock, ops, dropped, pc, call>>

Goto(t, l) == pc' = [pc EXCEPT ![t] = l]

Freed == BagToSet(frees)

\* The nodes reachable from location l, in list order (at most MaxOps).
RECURSIVE ChainFrom(_, _)
ChainFrom(l, d) ==
    IF ptr[l] = 0 \/ d = 0 THEN <<>>
    ELSE <<ptr[l]>> \o ChainFrom(ptr[l], d - 1)

List == ChainFrom(0, MaxOps)
Linked == {List[i] : i \in DOMAIN List}

\* The node the cursor's pointer points to (0 for null).
Curr(t) == ptr[cur[t]]

\* Mutant of Stops: the search also walks past an equal key.
StopsPastEqual(t) == IF Curr(t) = 0 THEN TRUE ELSE key[t] < nkey[Curr(t)]

\* Whether `Cursor::find` stops at the cursor: at null, at a larger key
\* (`*key < *data`, not found) or at the key (found).
Stops(t) == IF Curr(t) = 0 THEN TRUE ELSE key[t] <= nkey[Curr(t)]
Found(t) == Curr(t) # 0 /\ key[t] = nkey[Curr(t)]

\* Mutant of Couple: the old guard is kept when the cursor moves on.
CoupleKeepGuard(t) ==
    /\ lock[Curr(t)] = NoOwner
    /\ lock' = [lock EXCEPT ![Curr(t)] = t]
    /\ cur' = [cur EXCEPT ![t] = Curr(t)]

\* Hand over hand: lock the next node's `next` and assign the guard to the
\* cursor, which drops the old one.
Couple(t) ==
    /\ lock[Curr(t)] = NoOwner
    /\ lock' = [lock EXCEPT ![Curr(t)] = t, ![cur[t]] = NoOwner]
    /\ cur' = [cur EXCEPT ![t] = Curr(t)]

\* Return from a call: drop the cursor's guard and record the result.
Return(t, r) ==
    /\ lock' = [lock EXCEPT ![cur[t]] = NoOwner]
    /\ res' = [res EXCEPT ![t] = r]
    /\ Goto(t, "idle")

-----------------------------------------------------------------------------

\* A call of `contains`, `insert`, `remove` or `iter` on some key.
Begin(t) ==
    /\ pc[t] = "idle" /\ ~dropped /\ ops < MaxOps
    /\ \E o \in Ops, k \in Keys :
         op' = [op EXCEPT ![t] = o] /\ key' = [key EXCEPT ![t] = k]
    /\ ops' = ops + 1
    /\ Goto(t, "lock_head")
    /\ UNCHANGED <<heap, lock, dropped, cur, held, res>>

\* `self.head.lock().unwrap()`: the cursor (or the Iter) starts at head.
LockHead(t) ==
    /\ pc[t] = "lock_head" /\ lock[0] = NoOwner
    /\ lock' = [lock EXCEPT ![0] = t]
    /\ cur' = [cur EXCEPT ![t] = 0]
    /\ Goto(t, IF op[t] = "iter" THEN "iter" ELSE "find")
    /\ UNCHANGED <<heap, ops, dropped, op, key, held, res>>

\* One turn of `Cursor::find`'s loop past a smaller key.
FindCurr(t) ==
    /\ pc[t] = "find" /\ ~Stops(t)
    /\ Couple(t)
    /\ UNCHANGED <<heap, ops, dropped, pc, op, key, held, res>>

\* Mutant of Contains: true wherever the search stops at a node.
ContainsAtStop(t) ==
    /\ pc[t] = "find" /\ op[t] = "contains" /\ Stops(t)
    /\ Return(t, IF Curr(t) # 0 THEN "true" ELSE "false")
    /\ UNCHANGED <<heap, ops, dropped, op, key, cur, held>>

\* `contains`: the result of find; the guard is dropped on return.
Contains(t) ==
    /\ pc[t] = "find" /\ op[t] = "contains" /\ Stops(t)
    /\ Return(t, IF Found(t) THEN "true" ELSE "false")
    /\ UNCHANGED <<heap, ops, dropped, op, key, cur, held>>

\* `insert`: Err if found; otherwise a new node pointing to the cursor's
\* node is written into the cursor.
Insert(t) ==
    /\ pc[t] = "find" /\ op[t] = "insert" /\ Stops(t)
    /\ \/ Found(t) /\ Return(t, "err") /\ UNCHANGED <<ptr, nkey, alloc>>
       \/ /\ ~Found(t)
          /\ alloc' = alloc + 1
          /\ nkey' = [nkey EXCEPT ![alloc + 1] = key[t]]
          /\ ptr' = [ptr EXCEPT ![alloc + 1] = Curr(t), ![cur[t]] = alloc + 1]
          /\ Return(t, "ok")
    /\ UNCHANGED <<frees, ops, dropped, op, key, cur, held>>

\* Mutant of Unlink: the node is freed without locking its `next`.
UnlinkNoLock(t) ==
    /\ ptr' = [ptr EXCEPT ![cur[t]] = ptr[Curr(t)]]
    /\ frees' = frees (+) SetToBag({Curr(t)})

\* Take the node (`Box::from_raw`), lock its `next`, which waits for a
\* thread whose cursor is there, copy it into the cursor and, as the
\* guards and the Box go out of scope, free the node.
Unlink(t) ==
    /\ lock[Curr(t)] = NoOwner
    /\ ptr' = [ptr EXCEPT ![cur[t]] = ptr[Curr(t)]]
    /\ frees' = frees (+) SetToBag({Curr(t)})

\* `remove`: Err if not found, otherwise unlink the node.
Remove(t) ==
    /\ pc[t] = "find" /\ op[t] = "remove" /\ Stops(t)
    /\ \/ ~Found(t) /\ Return(t, "err") /\ UNCHANGED <<ptr, frees>>
       \/ Found(t) /\ Unlink(t) /\ Return(t, "removed")
    /\ UNCHANGED <<nkey, alloc, ops, dropped, op, key, cur, held>>

\* `Iter::next`: at null the guard is dropped and None returned; otherwise
\* the cursor couples to the node's `next` and `&data` of the node is
\* handed to the caller.
IterCurr(t) ==
    /\ pc[t] = "iter"
    /\ \/ /\ Curr(t) = 0
          /\ lock' = [lock EXCEPT ![cur[t]] = NoOwner]
          /\ Goto(t, "hold")
          /\ UNCHANGED <<cur, held>>
       \/ /\ Curr(t) # 0 /\ Couple(t)
          /\ held' = [held EXCEPT ![t] = @ \union {Curr(t)}]
          /\ UNCHANGED pc
    /\ UNCHANGED <<heap, ops, dropped, op, key, res>>

\* The caller drops the Iter before its end, releasing its guard.
IterDrop(t) ==
    /\ pc[t] = "iter"
    /\ lock' = [lock EXCEPT ![cur[t]] = NoOwner]
    /\ Goto(t, "hold")
    /\ UNCHANGED <<heap, ops, dropped, call>>

\* The caller is done with the references the Iter gave it.
Release(t) ==
    /\ pc[t] = "hold"
    /\ held' = [held EXCEPT ![t] = {}]
    /\ Goto(t, "idle")
    /\ UNCHANGED <<heap, lock, ops, dropped, op, key, cur, res>>

\* Mutant of DropWalk: the loop breaks on a null `next` before freeing
\* that last node.
DropWalkKeepLast == {n \in Linked : ptr[n] # 0}

\* The nodes `Drop`'s loop frees: from head, each node up to and including
\* the one whose `next` is null.
DropWalk == Linked

\* `Drop`, with exclusive access once no call is running.
DropList ==
    /\ ~dropped /\ \A t \in Threads : pc[t] = "idle"
    /\ frees' = frees (+) SetToBag(DropWalk)
    /\ dropped' = TRUE
    /\ UNCHANGED <<ptr, nkey, alloc, lock, ops, pc, call>>

-----------------------------------------------------------------------------

\* `OrderedListSet::new()`: a null head, no lock held.
Init ==
    /\ ptr = [l \in Locs |-> 0]
    /\ lock = [l \in Locs |-> NoOwner]
    /\ nkey = [n \in Nodes |-> 0]
    /\ alloc = 0
    /\ frees = EmptyBag
    /\ ops = 0
    /\ dropped = FALSE
    /\ pc = [t \in Threads |-> "idle"]
    /\ op = [t \in Threads |-> "contains"]
    /\ key = [t \in Threads |-> CHOOSE k \in Keys : TRUE]
    /\ cur = [t \in Threads |-> 0]
    /\ held = [t \in Threads |-> {}]
    /\ res = [t \in Threads |-> "none"]

Step(t) ==
    \/ Begin(t) \/ LockHead(t) \/ FindCurr(t)
    \/ Contains(t) \/ Insert(t) \/ Remove(t)
    \/ IterCurr(t) \/ IterDrop(t) \/ Release(t)

\* The set has been dropped.
Done == dropped /\ UNCHANGED vars

Next == (\E t \in Threads : Step(t)) \/ DropList \/ Done

\* The scheduler runs every runnable thread.
Fairness == \A t \in Threads : WF_vars(Step(t))

Spec == Init /\ [][Next]_vars
FairSpec == Spec /\ Fairness

-----------------------------------------------------------------------------
(* Properties.                                                             *)

\* The list is sorted without duplicates ("Concurrent sorted singly linked
\* list", line 15) and holds no freed node, whatever the interleaving of
\* inserts and removes at neighbouring positions, until the set is dropped.
ListSorted ==
    ~dropped =>
    /\ \A i \in 1 .. (Len(List) - 1) : nkey[List[i]] < nkey[List[i + 1]]
    /\ Linked \cap Freed = {}

\* No thread's cursor or Iter ever stands on a freed node: `remove` frees
\* a node only after taking its `next` lock (line 113), which waits for a
\* thread whose guard is there.
CursorNotFreed ==
    \A t \in Threads : pc[t] \in {"find", "iter"} => cur[t] \notin Freed

\* Every node is freed exactly once by the time the set is dropped: by the
\* `remove` that unlinked it or by `Drop`, never by both.
DropFreesEachNodeOnce ==
    dropped => \A n \in 1 .. alloc : CopiesIn(n, frees) = 1

\* Every call returns: lock coupling takes the locks in list order, so no
\* two threads wait on each other.
CallsFinish == \A t \in Threads : pc[t] # "idle" ~> pc[t] = "idle"

\* The references an Iter hands out (`Item = &'l T`, line 135) stay valid
\* while the caller holds them: no node whose data a caller holds is freed.
DataRefsValid == \A t \in Threads : held[t] \cap Freed = {}

-----------------------------------------------------------------------------
(* Linearizability: contains, insert and remove take effect at the step    *)
(* that ends their search, on a map from each key to one value (present)   *)
(* or Absent.  An Iter is not a call of the map.                           *)

InSetCall(t) == pc[t] \in {"lock_head", "find"} /\ op[t] # "iter"

MapOp == [o \in Ops |-> CASE o = "contains" -> "lookup"
                          [] o = "remove" -> "delete"
                          [] OTHER -> o]

MapRet(r) == CASE r = "true" -> 1
               [] r \in {"false"} -> Absent
               [] r = "ok" -> OkRet
               [] r = "err" -> ErrRet
               [] r = "removed" -> 1
               [] OTHER -> NoCall

AbsSet == INSTANCE NonblockingMap WITH
    Values <- {1},
    InitialMap <- [k \in Keys |-> Absent],
    amap <- [k \in Keys |-> IF k \in {nkey[n] : n \in Linked} THEN 1 ELSE Absent],
    call <- [t \in Threads |->
               IF InSetCall(t)
               THEN [op |-> MapOp[op[t]], key |-> key[t],
                     val |-> IF op[t] = "insert" THEN 1 ELSE 0]
               ELSE NoCall],
    ret <- [t \in Threads |-> IF InSetCall(t) THEN Pending ELSE MapRet(res[t])]

\* Each contains, insert and remove behaves as one atomic operation on a
\* set, though the traversals of different calls overlap.
Linearizable == AbsSet!Spec
=============================================================================
