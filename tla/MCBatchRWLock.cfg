\* Three threads: one that writes, one behind and one ahead of its walk.
CONSTANT MAX_THREADS = 3
SPECIFICATION FairSpec
INVARIANT Inv
PROPERTY Implements
PROPERTY Drained
