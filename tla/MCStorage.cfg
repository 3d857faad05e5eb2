SPECIFICATION Spec
CONSTANTS
  NumExtents = 7
  PagesPerExtent = 2
  EntriesPerMeta = 1
  NumBatches = 2
  Threads = {t1, t2}
  Bounds <- MCBounds
SYMMETRY Symmetry
INVARIANT RefsExact
INVARIANT OneOwner
INVARIANT SpaceFound
INVARIANT AssertionsHold
CHECK_DEADLOCK FALSE
