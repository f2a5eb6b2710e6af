SPECIFICATION Spec
CONSTANTS
    NDut = 2
    MaxCases = 2
    Sessions <- AllSessions
INVARIANTS JobsPartitionItems CountersMatchRows NoFailureIsSilent ReportIsComplete
