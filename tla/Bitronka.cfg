SPECIFICATION FairSpec
CONSTANTS
    n = 3
    Workers = {w1, w2}
    Sig = Sig
    MaxShuffles = 1
INVARIANTS
    WholeInventory
    NothingUsedAfterFree
    NoCircle
PROPERTIES
    PromiseKept
    IntEndsIt
CHECK_DEADLOCK FALSE
