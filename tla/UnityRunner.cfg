SPECIFICATION FairSpec
CONSTANTS
    Lines <- Menu
    FirstIndex = 5
    Configs <- AllCalls
INVARIANTS PassMeansPassed PassMeansAllStages IgnoredIsExplained FailureIsContained
PROPERTIES ReportSpec RunEnds
