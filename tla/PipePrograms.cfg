SPECIFICATION ChosenSpec
CONSTANT PerKind = 3
INVARIANTS
    RingInOrder
    OwnPipe
PROPERTIES
    EndGoesRound
    ProgramEnds
CHECK_DEADLOCK FALSE
