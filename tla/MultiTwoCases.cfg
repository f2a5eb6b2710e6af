SPECIFICATION Spec
CONSTANTS
    NDut = 2
    NCase = 2
    CaseIndex <- LaterIndex
    Script <- TwoCases
    StartRetry = 1
    Reset = TRUE
    Slow = FALSE
    Hangs = FALSE
    WriteFails = FALSE
    MaxPolls = 1
INVARIANTS PassMeansPassed WaitsForOthers IgnoredIsExplained
