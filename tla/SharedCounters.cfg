SPECIFICATION FairSpec
CONSTANTS
    N = 3
    MaxKills = 1
    Parent = Parent
INVARIANTS
    Exclusion
    CountExact
    MutexSurvives
    ReportFinal
PROPERTIES
    PromiseKept
    ParentEnds
CHECK_DEADLOCK FALSE
