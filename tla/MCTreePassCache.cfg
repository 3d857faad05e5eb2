CONSTANTS
    Thread = {0, 2}
    RCWidth = 2
    NONE = NONE
    Entry = {e1, e2}
    Batch = {e1, e2}
    Addr = {a1, a2}
    PageType = {a1, a2}
    BatchOf <- OwnBatch
    TypeOf <- OwnType
    Discarders = {0}
    Pinners = {0}
SYMMETRY Symmetry
SPECIFICATION Spec
INVARIANTS
    TypeOK
    MutualExclusion
    HandleValid
    ReadLatest
    NothingLost
    AllocUnmapped
    NoFailure
