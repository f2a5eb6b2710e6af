SPECIFICATION FairSpec
CONSTANTS
    ToolFails = FALSE
    KillPort <- AnyPort
    Pausing = TRUE
    MaxThreads = 5
    MaxCalls = 4
    MaxNest = 2
    MaxUnplug = 2
INVARIANTS TypeOK ToolHasPortAlone OneReader ClosedIsQuiet RedirectRestored
PROPERTIES JoinReturns OutputForwarded
