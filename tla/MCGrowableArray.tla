-------------------------- MODULE MCGrowableArray --------------------------
EXTENDS GrowableArray

ThreadSymmetry == Permutations(Threads)
=============================================================================
