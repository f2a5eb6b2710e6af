SPECIFICATION FairSpec
CONSTANTS
    NDut = 2
    Chunk <- FewChunks
    NL <- NLChar
    CR <- CRChar
    Bad <- BadChar
    Prefix = "prefix"
    Free = Free
    Idle = "idle"
    Patterns = {}
    SharedName = FALSE
    MaxTests = 1
    MaxSent = 2
PROPERTIES LoggedEventually PrintedEventually
