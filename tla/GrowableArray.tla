--------------------------- MODULE GrowableArray ---------------------------
(***************************************************************************)
(* The lock-free segment tree of src/homework/src/hash_table/              *)
(* growable_array.rs: threads calling `get(index)` concurrently, each      *)
(* then storing an element into the slot it got (as `initialize_bucket`   *)
(* does with a sentinel), and finally the `Drop` of the array.            *)
(*                                                                         *)
(* A segment is a natural number (its allocation order; 0 is the null     *)
(* pointer) whose 2^SegLog slots hold 0, a segment or the element Elem.    *)
(* `root` is the tagged pointer [ptr, tag], the tag being the height.      *)
(* Indices are WordBits-bit words and SEGMENT_LOGSIZE is SegLog, so the    *)
(* levels and the overflow at the top level scale down with them.          *)
(***************************************************************************)
EXTENDS Naturals, FiniteSets, Bags, Bitwise, TLC

CONSTANTS Threads,   \* the threads calling get
          Indices,   \* the indices they ask for
          MaxGets,   \* bound on the number of calls
          SegLog,    \* SEGMENT_LOGSIZE
          WordBits,  \* bits of usize
          Elem,      \* the element a caller stores in its slot
          NoSlot,    \* no slot returned yet
          NoCall, Pending  \* call states, as in SlotArray

WordMod == 2 ^ WordBits
Offsets == 0 .. (2 ^ SegLog - 1)

ASSUME Indices \subseteq 0 .. (WordMod - 1) /\ MaxGets \in Nat

VARIABLES
    root,    \* the tagged root pointer
    seg,     \* segment -> its slots; DOMAIN seg is every segment allocated
    frees,   \* bag of what has been deallocated
    gets,    \* calls started (the bound)
    dropped, \* the array has been dropped
    pc, idx, lroot, cseg, h, ret  \* per thread: `get`'s locals

vars == <<root, seg, frees, gets, dropped, pc, idx, lroot, cseg, h, ret>>

-----------------------------------------------------------------------------
(* Arithmetic of `get`, in usize.                                          *)

\* `64 - index.leading_zeros()`: the number of significant bits.
RECURSIVE BitNum(_)
BitNum(i) == IF i = 0 THEN 0 ELSE 1 + BitNum(i \div 2)

\* `bit_height`: ceil(bit_num / SEGMENT_LOGSIZE).
BitHeight(i) == IF BitNum(i) % SegLog = 0 THEN BitNum(i) \div SegLog
                ELSE BitNum(i) \div SegLog + 1

\* `two.pow(10 * root_height) - 1`, wrapping as a release build does.
MaxBit(ht) == (((2 ^ (SegLog * ht)) % WordMod) + WordMod - 1) % WordMod

\* `(currIndex & max_bit) >> (10 * (root_height - 1))`.
Chunk(i, ht) == (i & MaxBit(ht)) \div 2 ^ (SegLog * (ht - 1))

NewSeg == [o \in Offsets |-> 0]
Fresh == Cardinality(DOMAIN seg) + 1

\* Allocate segment Fresh with slots sl.
Alloc(sl) == seg' = seg @@ (Fresh :> sl)

Free(s) == frees' = frees (+) SetToBag({s})

-----------------------------------------------------------------------------

Start(t) ==
    /\ pc[t] = "idle" /\ ~dropped /\ gets < MaxGets
    /\ \E i \in Indices : idx' = [idx EXCEPT ![t] = i]
    /\ gets' = gets + 1
    /\ pc' = [pc EXCEPT ![t] = "root_cas"]
    /\ UNCHANGED <<root, seg, frees, dropped, lroot, cseg, h, ret>>

\* `root.compare_exchange(expected, new)` with a freshly allocated segment:
\* on success the new root is the thread's; on failure the allocation is
\* dropped and the current root taken.
CasRoot(t, expected, new) ==
    \/ root = expected /\ root' = new /\ lroot' = [lroot EXCEPT ![t] = new]
       /\ UNCHANGED frees
    \/ root # expected /\ lroot' = [lroot EXCEPT ![t] = root] /\ Free(Fresh)
       /\ UNCHANGED root

\* Allocate `new_ptr` and CAS it, tagged 1, into a null root.
RootCas(t) ==
    /\ pc[t] = "root_cas"
    /\ Alloc(NewSeg)
    /\ CasRoot(t, [ptr |-> 0, tag |-> 0], [ptr |-> Fresh, tag |-> 1])
    /\ pc' = [pc EXCEPT ![t] = "grow"]
    /\ UNCHANGED <<gets, dropped, idx, cseg, h, ret>>

\* Mutant of NextSeg: `next` is published without the old root in slot 0.
NextSegNoSlotZero(t) == NewSeg

\* The segment `next` of the growth loop: the root read in its slot 0.
NextSeg(t) == [NewSeg EXCEPT ![0] = lroot[t].ptr]

\* One turn of the growth loop: while the height is below `bit_height`,
\* allocate `next` and CAS it, tagged height+1, over the root read.  Then
\* start the descent from the root read, at its height.
Grow(t) ==
    /\ pc[t] = "grow"
    /\ \/ /\ lroot[t].tag < BitHeight(idx[t])
          /\ Alloc(NextSeg(t))
          /\ CasRoot(t, lroot[t], [ptr |-> Fresh, tag |-> lroot[t].tag + 1])
          /\ UNCHANGED <<pc, cseg, h>>
       \/ /\ lroot[t].tag >= BitHeight(idx[t])
          /\ cseg' = [cseg EXCEPT ![t] = lroot[t].ptr]
          /\ h' = [h EXCEPT ![t] = lroot[t].tag]
          /\ pc' = [pc EXCEPT ![t] = "descend"]
          /\ UNCHANGED <<root, seg, frees, lroot>>
    /\ UNCHANGED <<gets, dropped, idx, ret>>

\* Mutant of CasChild: a lost CAS frees the winner's segment
\* (`usize_zero`) instead of its own.
CasChildFreeWinner(t, s, o) ==
    \/ /\ seg[s][o] = 0
       /\ seg' = [seg @@ (Fresh :> NewSeg) EXCEPT ![s][o] = Fresh]
       /\ cseg' = [cseg EXCEPT ![t] = Fresh] /\ UNCHANGED frees
    \/ /\ seg[s][o] # 0 /\ Alloc(NewSeg)
       /\ cseg' = [cseg EXCEPT ![t] = seg[s][o]] /\ Free(seg[s][o])

\* Allocate a segment and CAS it into the empty child slot o of s; if the
\* slot was taken, drop it and follow the winner's.
CasChild(t, s, o) ==
    \/ /\ seg[s][o] = 0
       /\ seg' = [seg @@ (Fresh :> NewSeg) EXCEPT ![s][o] = Fresh]
       /\ cseg' = [cseg EXCEPT ![t] = Fresh] /\ UNCHANGED frees
    \/ /\ seg[s][o] # 0 /\ Alloc(NewSeg)
       /\ cseg' = [cseg EXCEPT ![t] = seg[s][o]] /\ Free(Fresh)

\* One level of the descent: above the leaves, the child CAS; at a leaf,
\* return the slot.
Descend(t) ==
    /\ pc[t] = "descend"
    /\ LET o == Chunk(idx[t], h[t])
       IN \/ /\ h[t] > 1 /\ CasChild(t, cseg[t], o)
             /\ h' = [h EXCEPT ![t] = @ - 1]
             /\ UNCHANGED <<pc, ret>>
          \/ /\ h[t] = 1
             /\ ret' = [ret EXCEPT ![t] = <<cseg[t], o>>]
             /\ pc' = [pc EXCEPT ![t] = "store"]
             /\ UNCHANGED <<seg, frees, cseg, h>>
    /\ UNCHANGED <<root, gets, dropped, idx, lroot>>

\* The caller stores its element through the slot (split_ordered_list's
\* `bucket_ptr.store`) and is done with it.
Store(t) ==
    /\ pc[t] = "store"
    /\ seg' = [seg EXCEPT ![ret[t][1]][ret[t][2]] = Elem]
    /\ ret' = [ret EXCEPT ![t] = NoSlot]
    /\ pc' = [pc EXCEPT ![t] = "idle"]
    /\ UNCHANGED <<root, frees, gets, dropped, idx, lroot, cseg, h>>

\* Mutant of Recurses: `drop_seg` recurses only while the height is above 2.
RecursesShallow(ht) == ht > 2

\* `if height > 1`: drop_seg recurses into a child.
Recurses(ht) == ht > 1

\* `drop_seg(seg, height)`: every slot of the segment is visited; a
\* non-null one is recursed into; then the segment itself is freed.  The
\* bag of what it deallocates.
RECURSIVE DropSeg(_, _)
DropSeg(s, ht) ==
    LET below == {o \in Offsets : seg[s][o] # 0 /\ Recurses(ht)}
        Sub[S \in SUBSET below] ==
            IF S = {} THEN EmptyBag
            ELSE LET o == CHOOSE x \in S : TRUE
                 IN  DropSeg(seg[s][o], ht - 1) (+) Sub[S \ {o}]
    IN  Sub[below] (+) SetToBag({s})

\* `Drop for GrowableArray`: with no call left running, drop the tree
\* from a non-null root at the height in its tag.
Drop ==
    /\ ~dropped /\ \A t \in Threads : pc[t] = "idle"
    /\ frees' = IF root.ptr # 0 THEN frees (+) DropSeg(root.ptr, root.tag)
                ELSE frees
    /\ dropped' = TRUE
    /\ UNCHANGED <<root, seg, gets, pc, idx, lroot, cseg, h, ret>>

-----------------------------------------------------------------------------

Init ==
    /\ root = [ptr |-> 0, tag |-> 0] /\ seg = <<>> /\ frees = EmptyBag
    /\ gets = 0 /\ dropped = FALSE
    /\ pc = [t \in Threads |-> "idle"]
    /\ idx = [t \in Threads |-> CHOOSE i \in Indices : TRUE]
    /\ lroot = [t \in Threads |-> [ptr |-> 0, tag |-> 0]]
    /\ cseg = [t \in Threads |-> 0]
    /\ h = [t \in Threads |-> 0]
    /\ ret = [t \in Threads |-> NoSlot]

Step(t) == Start(t) \/ RootCas(t) \/ Grow(t) \/ Descend(t) \/ Store(t)

\* After the drop nothing more happens.
Done == dropped /\ UNCHANGED vars

Next == (\E t \in Threads : Step(t)) \/ Drop \/ Done

\* No call blocks; the OS scheduler runs every runnable thread.
Fairness == \A t \in Threads : WF_vars(Step(t))

Spec == Init /\ [][Next]_vars
FairSpec == Spec /\ Fairness

-----------------------------------------------------------------------------
(* Properties.                                                             *)

\* The segments reachable from segment s at height ht.
RECURSIVE Reach(_, _)
Reach(s, ht) ==
    {s} \cup UNION {IF ht > 1 /\ seg[s][o] \in DOMAIN seg
                    THEN Reach(seg[s][o], ht - 1) ELSE {} : o \in Offsets}

Tree == IF root.ptr = 0 THEN {} ELSE Reach(root.ptr, root.tag)

\* The segments a running call will still read or write through.
Held == {lroot[t].ptr : t \in {u \in Threads : pc[u] \in {"grow", "descend"}}}
        \cup {cseg[t] : t \in {u \in Threads : pc[u] = "descend"}}
        \cup {ret[t][1] : t \in {u \in Threads : pc[u] = "store"}}

\* No use after free: before the drop, a segment that was deallocated (a
\* lost race's `new_ptr`, `next` or child) is neither in the tree nor held
\* by a running `get`; a freed loser must be the thread's own allocation,
\* never the winner's segment it goes on to follow.
NoUseAfterFree ==
    ~dropped => \A s \in BagToSet(frees) : s \notin Tree \cup Held

\* After `drop`, every segment ever allocated has been deallocated exactly
\* once (by a lost race or by `drop_seg`) and nothing else has: the
\* elements the leaves point to belong to the list and are never freed.
DropFreesEachSegmentOnce ==
    dropped => /\ BagToSet(frees) = DOMAIN seg
               /\ \A s \in DOMAIN seg : CopiesIn(s, frees) = 1

\* The slot index i names in the tree now, walking its SegLog-bit chunks
\* from the top: NoSlot while the tree is too low or a segment on the way
\* is missing.
RECURSIVE WalkTo(_, _, _)
WalkTo(s, i, ht) ==
    LET o == (i \div 2 ^ (SegLog * (ht - 1))) % 2 ^ SegLog
    IN  IF ht = 1 THEN <<s, o>>
        ELSE IF seg[s][o] \in DOMAIN seg THEN WalkTo(seg[s][o], i, ht - 1)
        ELSE NoSlot

PathSlot(i) == IF root.ptr = 0 \/ root.tag < BitHeight(i) THEN NoSlot
               ELSE WalkTo(root.ptr, i, root.tag)

\* Linearizability of `get`: with the slot of each index read off the tree,
\* the calls behave as SlotArray: concurrent calls for one index converge
\* on one slot, growth never moves a slot, and indices never share one.
AbsArray == INSTANCE SlotArray WITH
    SlotIds <- Nat \X Offsets,
    None <- NoSlot,
    slot <- [i \in Indices |-> PathSlot(i)],
    req <- idx,
    ret <- [t \in Threads |->
              IF pc[t] = "idle" THEN NoCall
              ELSE IF pc[t] = "store" THEN ret[t] ELSE Pending]

Linearizable == AbsArray!Spec

\* `two.pow(10 * root_height)` is only evaluated where it fits in usize: in
\* a debug build the multiplication overflow panics.  The descent of an
\* index with a top chunk at height ceil(64 / 10) = 7 evaluates 2^70.
PowInRange == \A t \in Threads : pc[t] = "descend" => SegLog * h[t] < WordBits
=============================================================================
