SPECIFICATION Spec
CONSTANTS
    NDut = 2
    Chunk <- FewChunks
    NL <- NLChar
    CR <- CRChar
    Bad <- BadChar
    Prefix = "prefix"
    Free = Free
    Idle = "idle"
    Patterns = {}
    SharedName = FALSE
    MaxTests = 2
    MaxSent = 2
INVARIANTS LinesAreWhole NothingLostOrReordered
PROPERTY StreamSpec
