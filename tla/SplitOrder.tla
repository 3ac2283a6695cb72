----------------------------- MODULE SplitOrder -----------------------------
(***************************************************************************)
(* The pure arithmetic of the split-ordered list                           *)
(* (src/homework/src/hash_table/split_ordered_list.rs): the bit reversal   *)
(* of a machine word, the split-order key of a bucket sentinel and of a    *)
(* regular key, and the parent bucket computed by `get_parent`.            *)
(*                                                                         *)
(* Words are WordBits wide; the code uses 64-bit `usize`.  Every operator  *)
(* here depends on the width only through TopBit and the reversal, so a    *)
(* narrow word keeps the same structure as long as keys and bucket         *)
(* indices have their top bit clear.                                       *)
(***************************************************************************)
EXTENDS Naturals

CONSTANT WordBits

ASSUME WordBits \in Nat /\ WordBits >= 2

WordMod == 2 ^ WordBits

\* `1 << 63`: the bit reserved to tell regular keys from sentinel keys.
TopBit == 2 ^ (WordBits - 1)

\* `usize::reverse_bits`: bit j of x becomes bit WordBits-1-j of the result.
RECURSIVE RevBits(_, _)
RevBits(x, n) ==
    IF n = 0 THEN 0
    ELSE (x % 2) * 2 ^ (n - 1) + RevBits(x \div 2, n - 1)

ReverseBits(x) == RevBits(x, WordBits)

\* `index.reverse_bits()`: the key of the sentinel node of bucket `index`.
SentinelKey(index) == ReverseBits(index)

\* Mutant: the top-bit mask is left out.
RegularKeyNoMask(key) == ReverseBits(key)

\* `((*key) | mask).reverse_bits()`: the key a regular entry is stored under.
\* x | TopBit is (x % TopBit) + TopBit.
RegularKey(key) == ReverseBits((key % TopBit) + TopBit)

\* The loop of `get_parent`: halve `parent`, starting from `size`, until it
\* is no longer greater than `index`.
RECURSIVE HalveUntil(_, _)
HalveUntil(parent, index) ==
    IF parent > index THEN HalveUntil(parent \div 2, index) ELSE parent

\* Mutant: returns the halved value instead of `index - parent`.
GetParentNoSub(index, size) == HalveUntil(size, index)

\* Mutant: takes the previous bucket as the parent.
GetParentPrev(index, size) == index - 1

\* `get_parent(index, size)`: the bucket whose split produced `index`.
GetParent(index, size) == index - HalveUntil(size, index)

=============================================================================
