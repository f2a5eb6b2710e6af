SPECIFICATION FairSpec
CONSTANTS
    NDut = 1
    Chunk <- FewChunks
    NL <- NLChar
    CR <- CRChar
    Bad <- BadChar
    Prefix = "prefix"
    Free = Free
    Idle = "idle"
    Patterns = {}
    SharedName = FALSE
    MaxTests = 2
    MaxSent = 2
PROPERTY LoggedEventually
