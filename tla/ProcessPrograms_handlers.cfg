SPECIFICATION FairSpec
CONSTANTS
    Programs = {"token", "kindergarten"}
    Parent = Parent
    None = None
    Old = Old
    MaxPasses = 2
    MaxFaults = 1
    Rounds = 3
    Blocks = 2
    Vertices = 1
    MaxOver = 0
    Starts = {{}}
    MaxKills = 1
    MaxTogether = 2
    MaxSize = 0
    MaxParts = 1
    Young = 2
    Producers = {}
    Consumers = {}
    Counting = 1
    Instances = {}
INVARIANTS
    WorkWithOne
    NeverUndercounts
PROPERTIES
    ProcessesEnd
CHECK_DEADLOCK FALSE
