SPECIFICATION FairSpec
CONSTANTS
    Franks = {f1, f2}
    Saracens = {s1, s2}
    Parent = Parent
    HP = 1
    Attack = 1
    PipeSize = 1
    BuffSize = 1
INVARIANTS
    ArrayExact
    NoDesertion
PROPERTIES
    VictoryIsKnown
CHECK_DEADLOCK FALSE
