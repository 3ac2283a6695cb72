CONSTANT WordBits = 6
SPECIFICATION Spec
INVARIANT ParentClearsHighestBit
INVARIANT BucketPrecedesItsKeys
INVARIANT ParentSentinelPrecedes
