SPECIFICATION FairSpec
CONSTANTS
    Children = {c1, c2, c3}
    Parent = Parent
    MaxFaults = 2
INVARIANTS
    CounterExact
    RecoveryNeverMet
PROPERTIES
    ParentEnds
CHECK_DEADLOCK FALSE
