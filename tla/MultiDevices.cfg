SPECIFICATION FairSpec
CONSTANTS
    NDut = 2
    NCase = 1
    CaseIndex <- LaterIndex1
    Script <- Stuck
    StartRetry = 2
    Reset = FALSE
    Slow = TRUE
    Hangs = TRUE
    WriteFails = TRUE
    MaxPolls = 1
INVARIANT SignalsConserved
PROPERTY GatherEnds
