-------------------------- MODULE SplitOrderedList --------------------------
(***************************************************************************)
(* The lock-free split-ordered hash map                                    *)
(* (src/homework/src/hash_table/split_ordered_list.rs): threads calling    *)
(* lookup, insert and delete concurrently on one shared list, bucket       *)
(* array, `size` and `count`.                                              *)
(*                                                                         *)
(* Shared state                                                            *)
(*   succ    the `next` pointers of the Harris-Michael list `list`: a      *)
(*           function from every node ever linked (and the head) to its    *)
(*           successor or Nil;                                             *)
(*   marked  the nodes whose `next` carries the deletion mark;             *)
(*   bucket  the slots of `buckets` that have been stored to (index ->     *)
(*           sentinel node); the growable array itself is modelled in      *)
(*           GrowableArray, here a slot is one atomic cell;                *)
(*   size, count  the two AtomicUsize counters, WordBits wide.             *)
(*                                                                         *)
(* Each thread runs one call at a time; its pc walks through the shared-   *)
(* memory accesses of `find`, the recursion of `initialize_bucket` (a      *)
(* stack of bucket indices) and the tail of insert and delete.             *)
(*                                                                         *)
(* The list `lockfree::list::List` is a collaborator outside src/: its     *)
(* cursor operations are modelled from the spec (sec. 6) as the Harris-    *)
(* Michael list: a search is one atomic step that unlinks the marked nodes *)
(* it passes, insert and the unlink of delete are single CASes on          *)
(* `prev.next`.                                                            *)
(***************************************************************************)
EXTENDS SplitOrder, Integers, SequencesExt, FiniteSets, Bitwise

CONSTANTS Threads,   \* the threads calling the map
          Keys,      \* the keys they use (top bit clear)
          Ops,       \* the calls they make, a subset of {"lookup","insert","delete"}
          MaxOps,    \* bound on the number of calls started in a behaviour
          InitialKeys, \* keys inserted one after another before the threads start
          NULL,      \* an empty bucket slot
          Nil,       \* the end of the list
          Dangling,  \* the `&Atomic::null()` temporary used as a cursor's prev
          Absent, NoCall, Pending, OkRet, ErrRet  \* results, as in NonblockingMap

ASSUME Keys \subseteq 0 .. (TopBit - 1)
ASSUME Ops \subseteq {"lookup", "insert", "delete"}
\* Sequential inserts of at most 4 keys never resize (count > size * 2).
ASSUME InitialKeys \subseteq 0 .. (TopBit - 1)
       /\ Cardinality(InitialKeys) <= 4 /\ Cardinality(InitialKeys) <= MaxOps
\* `size` doubles at most once per insert; it must stay below the top bit.
ASSUME MaxOps \in Nat /\ 2 ^ (MaxOps - Cardinality(InitialKeys) + 2) <= TopBit

VARIABLES
    size, count, bucket, succ, marked,   \* shared memory
    ops,                                 \* calls started so far (the bound)
    pc,      \* per thread: where it is in its call
    op,      \* the call it is making
    key,     \* its key
    val,     \* the value it inserts (the number of the call), 0 otherwise
    bsize,   \* the `size` its `find` read
    stack,   \* the bucket indices of the active `initialize_bucket` frames
    cur,     \* its cursor [prev, curr]
    ret      \* the result of its call

shared == <<size, count, bucket, succ, marked>>
local == <<op, key, val, bsize, stack, cur, ret>>
vars == <<shared, ops, pc, local>>

-----------------------------------------------------------------------------
(* Nodes of the list.  A node is identified by its split-order key, its    *)
(* map key (the bucket index for a sentinel) and its value (0 for a        *)
(* sentinel, the inserting call's number for a regular node).              *)

Node(so, k, v) == [so |-> so, key |-> k, val |-> v]
HeadNode == Node(-1, -1, -1)
Sentinel(index) == Node(SentinelKey(index), index, 0)
Regular(k, v) == Node(RegularKey(k), k, v)
IsSentinel(n) == n.val = 0

Slot(i) == IF i \in DOMAIN bucket THEN bucket[i] ELSE NULL

\* The nodes reachable from the head, in list order.
RECURSIVE ChainFrom(_, _)
ChainFrom(n, depth) ==
    IF n = Nil \/ depth = 0 THEN <<>>
    ELSE <<n>> \o ChainFrom(succ[n], depth - 1)

List == ChainFrom(succ[HeadNode], Cardinality(DOMAIN succ))
Linked == ToSet(List)

\* The regular entries that are present: linked and not marked.
Live == {n \in Linked : ~IsSentinel(n) /\ n \notin marked}

-----------------------------------------------------------------------------
(* The list collaborator (lockfree::list::Cursor), from the spec.          *)

\* `find_harris_michael` from cursor (p, c) for split-order key k over the
\* pointers s: skip nodes below k, unlink every marked node met with a CAS
\* on prev.next (failing, the search returns Err), stop at the first node
\* not below k.  `gone` collects the nodes it unlinked.
RECURSIVE Walk(_, _, _, _, _)
Walk(p, c, k, s, gone) ==
    LET stop(r) == [res |-> r, prev |-> p, curr |-> c, succ |-> s, gone |-> gone]
    IN  IF c = Nil THEN stop("notfound")
        ELSE IF c \in marked
        THEN IF p # Dangling /\ p \notin marked /\ s[p] = c
             THEN Walk(p, s[c], k, [s EXCEPT ![p] = s[c]], gone \union {c})
             ELSE stop("err")
        ELSE IF c.so < k THEN Walk(c, s[c], k, s, gone)
        ELSE stop(IF c.so = k THEN "found" ELSE "notfound")

\* The outcomes of thread t's search from its cursor.  The search is one
\* step; a concurrent deleter about to unlink a node the search unlinks
\* could win that race, and then the search's CAS fails and it returns Err.
Search(t, k) ==
    LET w == Walk(cur[t].prev, cur[t].curr, k, succ, {})
        raced == \E m \in w.gone, u \in Threads \ {t} :
                     pc[u] = "del_unlink" /\ cur[u].curr = m
    IN  {w} \union (IF raced THEN {[w EXCEPT !.res = "err", !.succ = succ]}
                    ELSE {})

\* The CAS of `Cursor::insert` and of the unlink in `Cursor::delete`
\* succeeds iff prev is a real, unmarked node still pointing at curr.
CanSwing(c) ==
    /\ c.prev # Dangling
    /\ c.prev \notin marked
    /\ succ[c.prev] = c.curr

\* `Cursor::insert` of node n between c.prev and c.curr.
Link(c, n) == succ' = (n :> c.curr) @@ [succ EXCEPT ![c.prev] = n]

-----------------------------------------------------------------------------
(* Thread steps.                                                           *)

Goto(t, l) == pc' = [pc EXCEPT ![t] = l]

\* Entry of lookup / insert / delete: `assert_valid_key` passes for Keys;
\* insert allocates its node with value `val`.
Start(t) ==
    /\ pc[t] = "idle"
    /\ ops < MaxOps
    /\ \E o \in Ops, k \in Keys :
         /\ op' = [op EXCEPT ![t] = o]
         /\ key' = [key EXCEPT ![t] = k]
         /\ val' = [val EXCEPT ![t] = IF o = "insert" THEN ops + 1 ELSE 0]
    /\ ops' = ops + 1
    /\ ret' = [ret EXCEPT ![t] = Pending]
    /\ Goto(t, "find")
    /\ UNCHANGED <<shared, bsize, stack, cur>>

\* Mutant of BucketIndex: the bucket taken as `key & size`.
BucketIndexMask(k, sz) == k & sz

\* `(*key) % bucket_size`: the bucket of key k for size sz.
BucketIndex(k, sz) == k % sz

\* `find`: read `size`, take bucket `key % size` and call `lookup_bucket`,
\* which enters `initialize_bucket` for it.  (`lookup_bucket` reads `size`
\* again for `get_parent`; every index passed is below both reads and
\* `get_parent` gives the same parent for any power of two above the
\* index, so one read stands for both.)
FindBegin(t) ==
    /\ pc[t] = "find"
    /\ bsize' = [bsize EXCEPT ![t] = size]
    /\ stack' = [stack EXCEPT ![t] = <<BucketIndex(key[t], size)>>]
    /\ Goto(t, "ib_load")
    /\ UNCHANGED <<shared, ops, op, key, val, cur, ret>>

\* Return cursor c from the innermost `initialize_bucket` frame: to the
\* caller frame's search, or to `find`.
Return(t, c) ==
    /\ cur' = [cur EXCEPT ![t] = c]
    /\ stack' = [stack EXCEPT ![t] = Front(@)]
    /\ Goto(t, IF Len(stack[t]) = 1 THEN "find_key" ELSE "ib_find")

\* Mutant of FromParent: every empty bucket is searched for from the head,
\* without initializing its parent.
FromParentNever(i) == FALSE

\* `if index != 0`: an empty bucket's search starts from its parent's
\* cursor, bucket 0's from the head.
FromParent(i) == i # 0

\* Inner loop of `initialize_bucket`: load the bucket slot.  A sentinel
\* there is returned at once; otherwise the parent bucket is initialized
\* first (recursively), or for bucket 0 the search starts at the head.
IbLoad(t) ==
    /\ pc[t] = "ib_load"
    /\ LET i == Last(stack[t]) IN
       \/ /\ Slot(i) # NULL
          /\ Return(t, [prev |-> Dangling, curr |-> Slot(i)])
       \/ /\ Slot(i) = NULL /\ FromParent(i)
          /\ stack' = [stack EXCEPT ![t] = Append(@, GetParent(i, bsize[t]))]
          /\ UNCHANGED <<pc, cur>>
       \/ /\ Slot(i) = NULL /\ ~FromParent(i)
          /\ cur' = [cur EXCEPT ![t] = [prev |-> HeadNode, curr |-> succ[HeadNode]]]
          /\ Goto(t, "ib_find")
          /\ UNCHANGED stack
    /\ UNCHANGED <<shared, ops, op, key, val, bsize, ret>>

\* `find_harris_michael(&sentinel_index)` from the parent's cursor: Err
\* retries the inner loop, found returns the other thread's sentinel,
\* not found goes on to insert.
IbFind(t) ==
    /\ pc[t] = "ib_find"
    /\ \E w \in Search(t, SentinelKey(Last(stack[t]))) :
         /\ succ' = w.succ
         /\ \/ /\ w.res = "err"
               /\ Goto(t, "ib_load")
               /\ UNCHANGED <<stack, cur>>
            \/ /\ w.res = "found"
               /\ Return(t, [prev |-> w.prev, curr |-> w.curr])
            \/ /\ w.res = "notfound"
               /\ cur' = [cur EXCEPT ![t] = [prev |-> w.prev, curr |-> w.curr]]
               /\ Goto(t, "ib_insert")
               /\ UNCHANGED stack
    /\ UNCHANGED <<size, count, bucket, marked, ops, op, key, val, bsize, ret>>

\* `cursor.insert(sentinel_node)`: on a lost race back to the slot load.
IbInsert(t) ==
    /\ pc[t] = "ib_insert"
    /\ LET s == Sentinel(Last(stack[t])) IN
       \/ /\ CanSwing(cur[t])
          /\ Link(cur[t], s)
          /\ cur' = [cur EXCEPT ![t].curr = s]
          /\ Goto(t, "ib_store")
       \/ /\ ~CanSwing(cur[t])
          /\ Goto(t, "ib_load")
          /\ UNCHANGED <<succ, cur>>
    /\ UNCHANGED <<size, count, bucket, marked, ops, op, key, val, bsize, stack, ret>>

\* `bucket_ptr.store(cursor.curr(), Release)`, then return the cursor.
IbStore(t) ==
    /\ pc[t] = "ib_store"
    /\ bucket' = (Last(stack[t]) :> cur[t].curr) @@ bucket
    /\ Return(t, cur[t])
    /\ UNCHANGED <<size, count, succ, marked, ops, op, key, val, bsize, ret>>

\* `find`'s search for the key from the bucket cursor, and what the call
\* does with its result: Err calls `lookup_bucket` again; lookup returns;
\* insert returns Err(value) if found, else tries to link; delete returns
\* Err(()) if not found, else deletes at the cursor.
FindKey(t) ==
    /\ pc[t] = "find_key"
    /\ \E w \in Search(t, RegularKey(key[t])) :
         LET c == [prev |-> w.prev, curr |-> w.curr]
             Finish(r) == ret' = [ret EXCEPT ![t] = r] /\ Goto(t, "idle")
                          /\ UNCHANGED <<stack, cur>>
             Proceed(l) == cur' = [cur EXCEPT ![t] = c] /\ Goto(t, l)
                           /\ UNCHANGED <<stack, ret>>
         IN
         /\ succ' = w.succ
         /\ \/ /\ w.res = "err"
               /\ stack' = [stack EXCEPT ![t] = <<BucketIndex(key[t], bsize[t])>>]
               /\ Goto(t, "ib_load")
               /\ UNCHANGED <<cur, ret>>
            \/ /\ w.res # "err" /\ op[t] = "lookup"
               /\ Finish(IF w.res = "found" THEN w.curr.val ELSE Absent)
            \/ /\ w.res = "found" /\ op[t] = "insert"
               /\ Finish(ErrRet)
            \/ /\ w.res = "notfound" /\ op[t] = "insert"
               /\ Proceed("ins_cas")
            \/ /\ w.res = "notfound" /\ op[t] = "delete"
               /\ Finish(ErrRet)
            \/ /\ w.res = "found" /\ op[t] = "delete"
               /\ Proceed("del_mark")
    /\ UNCHANGED <<size, count, bucket, marked, ops, op, key, val, bsize>>

\* Mutant of InsRetry: a lost race retries the CAS at the same cursor.
InsRetrySameCursor(t) == UNCHANGED pc

\* `Err(n) => new_node = n`: the loop runs `find` again.
InsRetry(t) == Goto(t, "find")

\* insert: `cursor.insert(new_node)`; a lost race runs `find` again.
InsCas(t) ==
    /\ pc[t] = "ins_cas"
    /\ \/ /\ CanSwing(cur[t])
          /\ Link(cur[t], Regular(key[t], val[t]))
          /\ ret' = [ret EXCEPT ![t] = OkRet]
          /\ Goto(t, "ins_count")
       \/ ~CanSwing(cur[t]) /\ InsRetry(t) /\ UNCHANGED <<succ, ret>>
    /\ UNCHANGED <<size, count, bucket, marked, ops, op, key, val, bsize, stack, cur>>

\* insert: `count.fetch_add(1)`, then the load check
\* `(old_count + 1) > (size * 2)` on the size `find` read, in usize.
InsCount(t) ==
    /\ pc[t] = "ins_count"
    /\ count' = (count + 1) % WordMod
    /\ Goto(t, IF (count + 1) % WordMod > (bsize[t] * 2) % WordMod
               THEN "ins_resize" ELSE "idle")
    /\ UNCHANGED <<size, bucket, succ, marked, ops, local>>

\* insert: `size.compare_and_swap(size, size * 2)`; a lost race is ignored.
InsResize(t) ==
    /\ pc[t] = "ins_resize"
    /\ size' = IF size = bsize[t] THEN (bsize[t] * 2) % WordMod ELSE size
    /\ Goto(t, "idle")
    /\ UNCHANGED <<count, bucket, succ, marked, ops, local>>

\* The mark of `cursor.delete` (`fetch_or(1)`) on an unmarked node: where
\* the deletion takes effect.
Mark(t) ==
    /\ marked' = marked \union {cur[t].curr}
    /\ ret' = [ret EXCEPT ![t] = cur[t].curr.val]
    /\ Goto(t, "del_unlink")

\* Mutant of DelMark: the result of `fetch_or` is ignored, a marked node
\* is deleted again.
DelMarkIgnoreMark(t) ==
    /\ pc[t] = "del_mark" /\ Mark(t)
    /\ UNCHANGED <<size, count, bucket, succ, ops, op, key, val, bsize, stack, cur>>

\* delete: the mark; a node already marked is Err and the loop runs
\* `find` again.
DelMark(t) ==
    /\ pc[t] = "del_mark"
    /\ \/ cur[t].curr \in marked /\ Goto(t, "find") /\ UNCHANGED <<marked, ret>>
       \/ cur[t].curr \notin marked /\ Mark(t)
    /\ UNCHANGED <<size, count, bucket, succ, ops, op, key, val, bsize, stack, cur>>

\* delete: the one unlink attempt of `cursor.delete`; if it fails the node
\* stays for a later search to unlink.
DelUnlink(t) ==
    /\ pc[t] = "del_unlink"
    /\ succ' = IF CanSwing(cur[t])
               THEN [succ EXCEPT ![cur[t].prev] = succ[cur[t].curr]]
               ELSE succ
    /\ Goto(t, "del_count")
    /\ UNCHANGED <<size, count, bucket, marked, ops, local>>

\* delete: `count.fetch_sub(1)`, then return Ok(value).
DelCount(t) ==
    /\ pc[t] = "del_count"
    /\ count' = (count + WordMod - 1) % WordMod
    /\ Goto(t, "idle")
    /\ UNCHANGED <<size, bucket, succ, marked, ops, local>>

-----------------------------------------------------------------------------

(* The map after InitialKeys were inserted one at a time, in ascending    *)
(* order, into a `SplitOrderedList::new()` (size 2, count 0, empty list    *)
(* and buckets): each insert initialized bucket 0 and its own bucket and   *)
(* linked its entry, whose value is the number of its call.                *)

InitBuckets == IF InitialKeys = {} THEN {}
               ELSE {0} \union {k % 2 : k \in InitialKeys}

InitNodes ==
    {Sentinel(b) : b \in InitBuckets}
    \union {Regular(k, Cardinality({j \in InitialKeys : j <= k})) : k \in InitialKeys}

InitSucc ==
    LET s == <<HeadNode>> \o SetToSortSeq(InitNodes, LAMBDA a, b : a.so < b.so)
    IN  [n \in ToSet(s) |->
           LET i == CHOOSE i \in DOMAIN s : s[i] = n
           IN  IF i = Len(s) THEN Nil ELSE s[i + 1]]

Init ==
    /\ size = 2
    /\ count = Cardinality(InitialKeys)
    /\ bucket = [b \in InitBuckets |-> Sentinel(b)]
    /\ succ = InitSucc
    /\ marked = {}
    /\ ops = Cardinality(InitialKeys)
    /\ pc = [t \in Threads |-> "idle"]
    /\ op = [t \in Threads |-> "lookup"]
    /\ key = [t \in Threads |-> 0]
    /\ val = [t \in Threads |-> 0]
    /\ bsize = [t \in Threads |-> 2]
    /\ stack = [t \in Threads |-> <<>>]
    /\ cur = [t \in Threads |-> [prev |-> Dangling, curr |-> Nil]]
    /\ ret = [t \in Threads |-> NoCall]

Step(t) ==
    \/ Start(t) \/ FindBegin(t) \/ IbLoad(t) \/ IbFind(t) \/ IbInsert(t)
    \/ IbStore(t) \/ FindKey(t) \/ InsCas(t) \/ InsCount(t) \/ InsResize(t)
    \/ DelMark(t) \/ DelUnlink(t) \/ DelCount(t)

\* All calls of the bounded run have returned.
Done ==
    /\ ops = MaxOps
    /\ \A t \in Threads : pc[t] = "idle"
    /\ UNCHANGED vars

Next == (\E t \in Threads : Step(t)) \/ Done

\* Every runnable thread is eventually scheduled: no call blocks, so weak
\* fairness of each thread's steps is what the OS scheduler provides.
Fairness == \A t \in Threads : WF_vars(Step(t))

Spec == Init /\ [][Next]_vars
FairSpec == Spec /\ Fairness

-----------------------------------------------------------------------------
(* Properties.                                                             *)

PCs == {"idle", "find", "ib_load", "ib_find", "ib_insert", "ib_store",
        "find_key", "ins_cas", "ins_count", "ins_resize", "del_mark",
        "del_unlink", "del_count"}

TypeOK ==
    /\ size \in {2 ^ j : j \in 1 .. (WordBits - 1)}
    /\ count \in 0 .. (WordMod - 1)
    /\ DOMAIN bucket \subseteq 0 .. (size - 1)
    /\ marked \subseteq DOMAIN succ
    /\ ops \in 0 .. MaxOps
    /\ pc \in [Threads -> PCs]
    /\ op \in [Threads -> Ops \union {"lookup"}]
    /\ key \in [Threads -> Keys \union {0}]
    /\ val \in [Threads -> 0 .. MaxOps]
    /\ stack \in [Threads -> Seq(0 .. (TopBit - 1))]

\* The list is sorted by split-order key, strictly: insert's CAS only
\* links a node where `find` positioned the cursor, and `find` starts at
\* the sentinel of bucket `key % size`, found through the slot or through
\* the recursive initialization of its parents.  A start position past
\* the key, or two entries for one key, break it.
ListSorted ==
    \A i \in 1 .. (Len(List) - 1) : List[i].so < List[i + 1].so

\* A published bucket slot holds its own bucket's sentinel and that
\* sentinel is in the list; every sentinel in the list but bucket 0's has
\* its parent's sentinel in the list (`initialize_bucket` resolves the
\* parent before it searches for the child, and stores the slot only
\* after its insert succeeded).
BucketsAnchored ==
    /\ \A i \in DOMAIN bucket : bucket[i] = Sentinel(i) /\ bucket[i] \in Linked
    /\ \A n \in Linked :
         IsSentinel(n) /\ n.key # 0 => Sentinel(GetParent(n.key, size)) \in Linked

\* The cursor built from a bucket slot has the temporary `&Atomic::null()`
\* as prev (line 84).  It is only safe because every search from it moves
\* past the sentinel first: no thread ever reaches a CAS on the list, or
\* deletes, with that prev.
NoDanglingPrevUsed ==
    \A t \in Threads :
        pc[t] \in {"ib_insert", "ins_cas", "del_mark", "del_unlink"}
            => cur[t].prev # Dangling

\* `count` never runs ahead of the entries it counts: it is at most the
\* live entries plus the ones deleted whose `fetch_sub` is still to come.
\* The resize check of insert reads it as the number of entries.
CountNeverExceedsEntries ==
    count <= Cardinality(Live)
             + Cardinality({t \in Threads : pc[t] \in {"del_unlink", "del_count"}})

\* Linearizability: the map, read off the list as its live entries, and the
\* calls that have not yet taken effect, behave as NonblockingMap: every
\* call takes effect at one step (the search that decides lookup and the
\* failing insert or delete, the CAS that links an insert, the mark of a
\* delete) with the result the abstract map gives at that step.
LiveMap == [k \in Keys |->
               IF \E n \in Live : n.key = k
               THEN (CHOOSE n \in Live : n.key = k).val
               ELSE Absent]

AbsMap == INSTANCE NonblockingMap WITH
    Values <- 1 .. MaxOps,
    InitialMap <- [k \in Keys |->
                     IF k \in InitialKeys
                     THEN Cardinality({j \in InitialKeys : j <= k})
                     ELSE Absent],
    amap <- LiveMap,
    call <- [t \in Threads |->
               IF ret[t] = Pending
               THEN [op |-> op[t], key |-> key[t], val |-> val[t]]
               ELSE NoCall]

Linearizable == AbsMap!Spec

\* Every call returns: no thread keeps retrying while the others, which
\* have finitely many calls to make, run.
CallsReturn == \A t \in Threads : pc[t] # "idle" ~> pc[t] = "idle"
=============================================================================
