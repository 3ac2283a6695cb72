------------------------- MODULE MCSplitOrderedList -------------------------
(* Model-checking instance of SplitOrderedList. *)
EXTENDS SplitOrderedList, TLC

\* Threads are interchangeable: no step depends on a thread's identity.
ThreadSymmetry == Permutations(Threads)
=============================================================================
