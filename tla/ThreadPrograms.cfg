SPECIFICATION FairSpec
CONSTANTS
    Main = Main
    Nobody = Nobody
    Sig = Sig
    Threads = {t1, t2}
    Balls = 3
    Bins = {"b0", "b10"}
    LastBin = "b10"
    Plots = {"d1", "d2"}
    Window = 2
    K = 3
INVARIANTS
    CountsExact
    OneState
    NothingUsedAfterFree
PROPERTIES
    ThreadsEnd
CHECK_DEADLOCK FALSE
