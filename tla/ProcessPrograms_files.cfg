SPECIFICATION FairSpec
CONSTANTS
    Programs = {"writers", "graph", "count", "names", "slices"}
    Parent = Parent
    None = None
    Old = Old
    MaxPasses = 2
    MaxFaults = 1
    Rounds = 3
    Blocks = 2
    Vertices = 1
    MaxOver = 1
    Starts = {{}, {0, 1, 2}, {0, 2, 3}}
    MaxKills = 1
    MaxTogether = 2
    MaxSize = 13
    MaxParts = 6
    Young = 2
    Producers = {0, 1}
    Consumers = {2, 3}
    Counting = 4
    Instances = {0, 1, 2}
INVARIANTS
    WritesMade
    WholeGraph
    CountIsWhole
    
    SlicesExact
PROPERTIES
    ProcessesEnd
CHECK_DEADLOCK FALSE
