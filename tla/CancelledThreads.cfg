SPECIFICATION ChosenSpec
CONSTANTS
    m = 2
    n = 4
    MaxRuch = 3
    studentsCount = 2
    MaxKicks = 3
INVARIANTS
    TrackExact
    YearsExact
PROPERTIES
    RaceEnds
    ProgramEnds
CHECK_DEADLOCK FALSE
