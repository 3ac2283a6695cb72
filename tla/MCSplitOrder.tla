---------------------------- MODULE MCSplitOrder ----------------------------
(***************************************************************************)
(* Checks the split-order arithmetic of SplitOrder against reference       *)
(* definitions, for every valid key and every bucket count (a power of     *)
(* two, as `size` is: it starts at 2 and only doubles) of a narrow word.   *)
(* The state is the input pair; TLC enumerates all of them as initial      *)
(* states.                                                                 *)
(***************************************************************************)
EXTENDS SplitOrder, FiniteSets

VARIABLES key, size

vars == <<key, size>>

\* Keys accepted by `assert_valid_key`: top bit clear.
ValidKeys == 0 .. (TopBit - 1)

\* Bucket counts reachable from 2 by doubling without reaching the top bit.
Sizes == {2 ^ j : j \in 1 .. (WordBits - 1)}

Init == key \in ValidKeys /\ size \in Sizes

Next == UNCHANGED vars

Spec == Init /\ [][Next]_vars

-----------------------------------------------------------------------------
(* Reference definitions, written independently of the code's loops.       *)

\* The bits set in x, as a set of positions.
Bits(x) == {j \in 0 .. (WordBits - 1) : (x \div 2 ^ j) % 2 = 1}

\* The index with its highest set bit cleared (0 stays 0).
RefParent(index) ==
    IF index = 0 THEN 0
    ELSE index - 2 ^ (CHOOSE j \in Bits(index) : \A i \in Bits(index) : i <= j)

-----------------------------------------------------------------------------
(* Properties.                                                             *)

\* `get_parent(index, size)` clears the highest set bit of every bucket
\* index below `size`: the bucket whose split produced it, the one
\* `initialize_bucket` must resolve first.
ParentClearsHighestBit ==
    \A index \in 0 .. (size - 1) :
        GetParent(index, size) = RefParent(index)

\* The split order that `find` relies on when it starts searching for a key
\* at the sentinel of bucket `key % size`: that sentinel comes strictly
\* before the key's regular entry, and no sentinel of another bucket below
\* `size` lies between them, so the search never leaves the bucket and
\* never meets a sentinel key equal to a regular key.
BucketPrecedesItsKeys ==
    LET b == key % size IN
    /\ SentinelKey(b) < RegularKey(key)
    /\ \A c \in 0 .. (size - 1) :
         c # b => ~(SentinelKey(b) < SentinelKey(c)
                    /\ SentinelKey(c) < RegularKey(key))

\* The sentinel of every bucket but 0 lies strictly after the sentinel of
\* the parent `get_parent` names: `initialize_bucket` inserts the child
\* sentinel by searching forward from the parent's, so a parent after its
\* child would put the child out of order.
ParentSentinelPrecedes ==
    \A index \in 1 .. (size - 1) :
        SentinelKey(GetParent(index, size)) < SentinelKey(index)
=============================================================================
