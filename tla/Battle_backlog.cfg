SPECIFICATION FairSpec
CONSTANTS
    Franks = {f1, f2}
    Saracens = {s1}
    Parent = Parent
    HP = 1
    Attack = 1
    PipeSize = 3
    BuffSize = 2
PROPERTIES
    VictoryIsKnown
CHECK_DEADLOCK FALSE
