SPECIFICATION Spec
CONSTANTS
  NumKeys = 9
  Lb = 2
  Ub = 9
  MaxFlushes = 3
  FingerprintSize = 5
  LogIndexSize = 1
  IntBits = 32
  MaxEntries = 2
  PagesPerExtent = 2
  Memtables <- MCMemtables
  Hashes <- MCHashes
INVARIANT LookupRight MapletExact BranchesRight WithinBound
CHECK_DEADLOCK FALSE
