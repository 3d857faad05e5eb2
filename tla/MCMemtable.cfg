\* Two memtables, of which the first is used a second time for generation 2;
\* two inserting threads that compete for the rotation, one of which runs
\* tasks also when it need not wait for one; a background thread, and a thread
\* that looks up and scans.
CONSTANTS
    Writer = {w1, w2}
    Reader = {r1}
    Worker = {b1}
    Volunteers = {w1}
    max_memtables = 2
    MaxGeneration = 2
    MaxValue = 1
SPECIFICATION MCSpec
INVARIANT AssertionsHold
PROPERTY Promised
INVARIANT SnapshotIntact
INVARIANT NotStranded
PROPERTY Incorporated
