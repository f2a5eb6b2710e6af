SPECIFICATION Spec
CONSTANTS
    NDut = 1
    Chunk <- AllChunks
    NL <- NLChar
    CR <- CRChar
    Bad <- BadChar
    Prefix = "prefix"
    Free = Free
    Idle = "idle"
    Patterns = {"a", "b"}
    SharedName = FALSE
    MaxTests = 2
    MaxSent = 2
INVARIANTS TypeOK ExpectSeesSentInOrder PrintedIsLogged
