SPECIFICATION Spec
CONSTANTS
    Procs = {p1, p2, p3}
    Rounds = 1
    MaxBlocks = 2
    MaxKills = 1
SYMMETRY Symmetry
INVARIANTS
    ExactUnlessRaced
CHECK_DEADLOCK FALSE
