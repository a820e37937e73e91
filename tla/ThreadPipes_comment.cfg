SPECIFICATION FairSpec
CONSTANT n = 2
INVARIANT UsesIndividualPipe
CHECK_DEADLOCK FALSE
